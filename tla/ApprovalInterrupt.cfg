SPECIFICATION ApprovalSpec
CONSTANTS
  top = top
  left = left
  right = right
  edit = edit
  question = question
  command = command
  Sessions = {top, left, right}
  Runs = {left, right}
  Owner <- Family
  Calls = {edit, question, command}
  Turn <- Turns
  Permits = 1
  Starts <- Contended
  NoSession = NoSession
INVARIANTS
  InterruptSettles
