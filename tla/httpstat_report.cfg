SPECIFICATION Spec
CONSTANT maxRedirects = 2
INVARIANT ReportIsOwn
