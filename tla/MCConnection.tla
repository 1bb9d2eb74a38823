---------------------------- MODULE MCConnection ----------------------------
(* Values of the constants of Connection for model checking. *)
EXTENDS Connection

CONSTANTS a, b, old   \* engines

OneVersion == [e \in {a, b} |-> 4]
\* old speaks another version of the protocol.
TwoVersions == [e \in {a, b, old} |-> IF e = old THEN 3 ELSE 4]

Cfg(ctrl, connects, closes, interval, timeout, idle) ==
  [ctrl_timeout_ms |-> ctrl, connect_retries |-> connects, close_retries |-> closes,
   keepalive_interval_ms |-> interval, keepalive_timeout_ms |-> timeout,
   idle_timeout_ms |-> idle]

\* One retry of everything, keepalives, no idle timeout.
Plain == Cfg(1, 1, 1, 1, 2, 0)
\* No retries, no keepalive, idle timeout; the keepalive timeout is the default.
Bare0 == Cfg(2, 0, 0, 0, 0, 1)
\* Two close retries.
Patient == Cfg(1, 1, 2, 1, 2, 2)
Broken == Cfg(0, 1, 1, 1, 2, 0)

\* Everything may time out after one tick; no keepalives.
Hasty == Cfg(1, 1, 1, 0, 1, 0)

OnlyHasty == {Hasty}
Mixed == {Plain, Bare0}
Contrary == {Bare0, Patient, Broken}
=============================================================================
