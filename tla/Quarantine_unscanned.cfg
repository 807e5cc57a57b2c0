\* One request thread: is a registered import always a scanned one?
SPECIFICATION Spec
CONSTANTS
    i1 = i1
    h1 = h1
    h2 = h2
    Files <- MCFiles
    Rules = {"pdf_javascript"}
    MaxEntries = 2
    MaxBytes = 10
    MaxSample = 3
    MaxRatio = 2
    Imports <- OneImport
    Threads <- OneThread
INVARIANT RegisteredWasScanned
