SPECIFICATION LookupSpec
CONSTANTS
    Char <- MCChar
    Sep = "/"
    Name <- MCName
    Absent = Absent
    MaxLen = 4
    MaxBound = 2
INVARIANT LongestPrefixFound
