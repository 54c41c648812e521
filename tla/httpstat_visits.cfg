SPECIFICATION Spec
CONSTANT maxRedirects = 2
INVARIANTS TimelineOrdered OutputOnce RedirectBound NoConnectionLeft ShownIsFinal
PROPERTY NoLateFailure
