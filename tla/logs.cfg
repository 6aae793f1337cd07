CONSTANTS
  Tasks = {t1, t2}
  Httpd = httpd
  Nobody = nobody
  BufferSize = 5
  MaxMessage = 4
  ResponseLimit = 5
  MaxLogged = 16
SPECIFICATION Spec
INVARIANTS LogTypeOK HoldsLatest AnswerConsecutive TruncatedTruly
