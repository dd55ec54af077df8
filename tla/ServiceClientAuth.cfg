SPECIFICATION ClientSpec
CONSTANTS
    Base = 2
    LenBytes = 2
    OpBytes = 1
    MaxFrame = 2
    MaxBytes = 6
    MaxConnects = 1
PROPERTY NothingBeforeAuth
