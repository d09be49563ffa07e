---------------------------- MODULE CutoffWindow ----------------------------
(***************************************************************************)
(* The processing window of an iso20022 corridor: IsInWindow and NextOpen  *)
(* of internal/schema/iso20022.go, and checkCutoffWindow of                *)
(* internal/delivery/forwarder.go with the dead letter entry that Forward  *)
(* makes of its answer.                                                    *)
(*                                                                         *)
(* Time is a day and a minute of that day, in the window's time zone, and  *)
(* all days are equally long.  A window is the minutes open and close, or  *)
(* a configuration that does not parse.                                    *)
(***************************************************************************)
EXTENDS Integers

CONSTANTS minutesPerDay, \* 24 * 60 in the code
          MaxDay         \* the bound on days

ASSUME DayAssumption == minutesPerDay \in Nat \ {0} /\ MaxDay \in Nat

tods == 0..(minutesPerDay - 1)
windows == [open: tods, close: tods]
malformed == [open |-> -1, close |-> -1]
noTime == [day |-> -1, tod |-> 0]
times == [day: Nat, tod: tods]

VARIABLES window,   \* the corridor's entry of CutoffWindows
          now,      \* time.Now(), in the window's time zone
          rejected, \* when Forward last made an entry for the dead letter queue
          promised  \* NextOpenUnix of that entry

cutoffVars == <<window, now, rejected, promised>>

before(s, t) == s.day < t.day \/ (s.day = t.day /\ s.tod < t.tod)

IsInWindow(w, t) ==
  IF w.open <= w.close THEN t.tod >= w.open /\ t.tod < w.close
                       ELSE t.tod >= w.open \/ t.tod < w.close

\* Mutant: tomorrow's opening is at midnight.
nextOpenMidnight(w, t) ==
  IF w.open <= w.close /\ t.tod >= w.open THEN [day |-> t.day + 1, tod |-> 0]
                                         ELSE [day |-> t.day, tod |-> w.open]

NextOpen(w, t) ==
  [day |-> IF w.open <= w.close /\ t.tod >= w.open THEN t.day + 1 ELSE t.day, tod |-> w.open]

CutoffTypeOK ==
  /\ window \in windows \cup {malformed}
  /\ now \in times
  /\ {rejected, promised} \subseteq times \cup {noTime}

CutoffInit ==
  /\ window \in windows \cup {malformed}
  /\ now \in {[day |-> 0, tod |-> m] : m \in tods}
  /\ rejected = noTime
  /\ promised = noTime

Minute ==
  /\ now' = IF now.tod + 1 < minutesPerDay THEN [now EXCEPT !.tod = @ + 1]
                                           ELSE [day |-> now.day + 1, tod |-> 0]
  /\ now'.day <= MaxDay
  /\ UNCHANGED <<window, rejected, promised>>

\* An envelope outside the window goes to the queue, with the next opening unless the
\* window is malformed.  One inside the window goes on to the peers (Gateway).
Reject ==
  /\ window = malformed \/ ~IsInWindow(window, now)
  /\ rejected' = now
  /\ promised' = IF window = malformed THEN noTime ELSE NextOpen(window, now)
  /\ UNCHANGED <<window, now>>

CutoffNext == Minute \/ Reject

CutoffSpec == CutoffInit /\ [][CutoffNext]_cutoffVars
-----------------------------------------------------------------------------
\* The opening that an entry of the queue names is ahead of the rejection, and until
\* then the window stays closed, on the same day or the next, across midnight or not.
ClosedUntilPromised ==
  promised # noTime =>
    /\ before(rejected, promised)
    /\ before(now, promised) => ~IsInWindow(window, now)

\* At the promised minute the window is open, except a window that closes at the minute
\* it opens, which is never open.
OpenWhenPromised ==
  now = promised => IsInWindow(window, now) \/ window.open = window.close

\* The next opening that an entry of the queue names is the next one there is.
PromiseIsKept == ClosedUntilPromised /\ OpenWhenPromised
=============================================================================
