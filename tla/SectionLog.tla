----------------------------- MODULE SectionLog -----------------------------
(***************************************************************************)
(* What the stream archiver promises: a log of sections.  The writer adds  *)
(* elements to the last section and cuts it; a reader forked at the start  *)
(* of a section gets the elements of each finished section in order, then  *)
(* NULL once, and is at the start of the next section.                     *)
(***************************************************************************)
EXTENDS Naturals, Sequences

VARIABLES log,            \* The sections; the last one is still open
          position,       \* [section, index] of the reader
          got             \* What the reader got last

logVars == <<log, position, got>>

Nothing == <<>>           \* NULL

LogInit == log = << <<>> >> /\ position = [section |-> 1, index |-> 0] /\ got = Nothing

AppendElement ==
  /\ log'[Len(log)] # <<>>
  /\ log' = [log EXCEPT ![Len(log)] = Append(@, log'[Len(log)][Len(log'[Len(log)])])]
  /\ UNCHANGED <<position, got>>

EndSection == log' = Append(log, <<>>) /\ UNCHANGED <<position, got>>

Fork ==
  /\ log[Len(log)] = <<>>
  /\ position' = [section |-> Len(log), index |-> 0]
  /\ UNCHANGED <<log, got>>

ReadElement ==
  /\ position.section < Len(log)
  /\ position.index < Len(log[position.section])
  /\ got' = log[position.section][position.index + 1]
  /\ position' = [position EXCEPT !.index = @ + 1]
  /\ UNCHANGED log

ReadEnd ==
  /\ position.section < Len(log)
  /\ position.index = Len(log[position.section])
  /\ got' = Nothing
  /\ position' = [section |-> position.section + 1, index |-> 0]
  /\ UNCHANGED log

LogNext ==
  AppendElement \/ EndSection \/ Fork \/ ReadElement \/ ReadEnd

LogSpec == LogInit /\ [][LogNext]_logVars
=============================================================================
