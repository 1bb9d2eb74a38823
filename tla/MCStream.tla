------------------------------- MODULE MCStream -------------------------------
(* Instances of Stream for TLC.                                                *)
EXTENDS Stream

Cfg(ctrl, retries, drain, pause, resume, batch) ==
  [ctrl_timeout_ms |-> ctrl, close_retries |-> retries, drain_timeout_ms |-> drain,
   send_pause_threshold |-> pause, send_resume_threshold |-> resume,
   batch_threshold |-> batch]

(* Two retransmissions, batches of three.                                      *)
Batching == Cfg(1, 2, 2, 2, 1, 3)
(* No retransmission, no batching, a longer control timeout.                   *)
Direct == Cfg(2, 0, 1, 1, 1, 1)
(* Refused by kcpmux_stream_config_prepare.                                    *)
Upside == Cfg(1, 1, 1, 1, 2, 2)

Mixed == {Batching, Direct, Upside}
OnlyBatching == {Batching}
=============================================================================
