SPECIFICATION AssistantSpec
CONSTANTS
  Reservations = {a, b}
  Cron = {a}
  Horizon = 3
  Changes = 1
  Sessions = {s, t}
  Slots = 1
  Steers = 1
  Rounds = 2
  Messages = {m1, m2}
  Clerks = {c1}
  Waiting = 1
  Turns = 2
  Asks = 1
  Crashes = 1
  Drafts = {d1, d2}
  Reports = {r1}
  Attempts = {x1, x2}
  MaxDrafts = 1
  IssueChanges = 1
  IssueRestarts = 1
  Calls = {k1, k2}
  McpChanges = 2
  Requests = {p, q}
  BoxSessions = {u, v}
  Lines = 2
  Room = 1
  Boxes = 2
  Saves = 1
INVARIANTS RunsEndOrderly
PROPERTIES ServedOnce WriteIsApproved DialogueIsObeyed SubmittedOnce CalledAsShown ExecutedAsConfirmed
CHECK_DEADLOCK FALSE
