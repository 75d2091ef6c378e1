SPECIFICATION RecipeSpec
CONSTANTS
    Title = title
    Lines = {x}
    Texts = {t1, t2}
    NoText = NoText
    MaxFields = 2
    Jobs = {j1, j2}
INVARIANT ShownInReadersLanguage
CHECK_DEADLOCK FALSE
