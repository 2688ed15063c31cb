SPECIFICATION ParserSpec
CONSTANTS
    Kinds = {"id", "big", "semi", "lc", "rc", "lp", "rp", "comma", "arrow", "colon", "op", "at",
             "void", "lt", "gt", "far", "attr", "pub", "fn", "class", "struct", "ctor", "while", "spend", "call"}
    MaxTokens = 5
    MaxStatements = 2
INVARIANTS
    AttributesTaken
PROPERTIES
    EndsOrStays
