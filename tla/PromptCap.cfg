SPECIFICATION PromptSpec
CONSTANTS
    None = None
    Prompts <- MCPrompts
    BudgetFiles <- MCBudgetFiles
INVARIANT PromptWithinCap
