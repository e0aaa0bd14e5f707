-------------------------- MODULE MCEspHomeDevice --------------------------
(***************************************************************************)
(* EspHomeDevice for TLC: one frame of each kind the receiving loop tells  *)
(* apart, delivered one or two at a time.                                  *)
(***************************************************************************)
EXTENDS EspHomeDevice, Naturals

Plain(m) == [indicator |-> TRUE, first |-> "other", serverName |-> FALSE,
             handshake |-> FALSE, plaintext |-> m]

MCFrame ==
  {Plain(m) : m \in (MsgKind \ {"State", "other"}) \cup {"undecryptable", "short"}}
  \cup {[Plain("undecryptable") EXCEPT !.indicator = FALSE],
        [Plain("undecryptable") EXCEPT !.first = "1"],
        [Plain("undecryptable") EXCEPT !.first = "1", !.serverName = TRUE],
        [Plain("undecryptable") EXCEPT !.first = "0"],
        [Plain("undecryptable") EXCEPT !.first = "0", !.handshake = TRUE]}

MCBatch == UNION {[1..n -> MCFrame] : n \in 1..2}

=============================================================================
