\* Two commands: an export after a failed one, or a verification of what was
\* published.  Two edits: one within each command, or two that hide each other.
CONSTANTS
  MaxCommands = 2
  MaxVersion = 1
  MaxEdits = 2
SPECIFICATION Spec
INVARIANTS
  PublishedAsLocked
  ReportTrue
CHECK_DEADLOCK FALSE
