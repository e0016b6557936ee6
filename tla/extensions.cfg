SPECIFICATION Spec
CONSTANTS
    jira = jira
    docs = docs
    claude = claude
    copilot = copilot
    None = None
    Exts = {jira, docs}
    Agents = {claude, copilot}
    SkillsAgents = {copilot}
    Names = {"jira.run", "jira.go", "docs.run", "x"}
    Events = {"before", "after"}
    Declares <- MCDeclares
    MaxFaults = 1
    MaxActs = 5
INVARIANTS
    RolledBack
    FilesAsRecorded
    HooksFollowEntry
    OneDefault
PROPERTIES
    ConfigCarried
    EditsSurvive
    SwitchMovesCommands
CHECK_DEADLOCK FALSE
