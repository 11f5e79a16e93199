SPECIFICATION AnswerSpec
CONSTANTS
    None = None
    InfoPaths <- MCInfoPaths
    PromptPaths <- MCPromptPaths
    Languages <- MCLanguages
    DefaultName <- MCDefaultName
    HtmlNames <- MCHtmlNames
    MaxBlocks = 4
CHECK_DEADLOCK FALSE
INVARIANTS
    NamedFilesExist
    UnnamedBlocksSurvive
