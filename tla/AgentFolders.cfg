SPECIFICATION Spec
CONSTANTS
    Circle = {a, b}
    photos = photos
    photos2 = photos2
    p1 = p1
    p2 = p2
    p3 = p3
    Name = {photos, photos2}
    Directory = {p1, p2, p3}
    Candidates <- TwoNames
    Found <- SomeFound
    Private = Private
    NoName = NoName
    NoDir = NoDir
    Out = Out
    NoAnswer = NoAnswer
    NoCircle = NoCircle
    MaxChanges = 2
    MaxFaults = 1
INVARIANTS
    TypeOK
    OneDirectoryEach
    NothingCrosses
PROPERTIES
    FoldersKeepTheirFiles
SYMMETRY Alike
CONSTRAINT WhileCalm
