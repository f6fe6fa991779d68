----------------------------- MODULE JobDatabase -----------------------------
(***************************************************************************)
(* What the tabs of a browser may expect of the one database they share.   *)
(*                                                                         *)
(* A job is a single write or a transaction of two.  It lands whole, once, *)
(* behind the earlier jobs of its tab, and the tab hears of it when it has *)
(* landed and not otherwise.  A transaction may be lost with the           *)
(* connection: what its tab goes on to write lands by itself, out of any   *)
(* transaction, and is never reported as done.  All this for as long as    *)
(* the database is sound.                                                  *)
(***************************************************************************)
EXTENDS Naturals

CONSTANTS
    Tab,
    MaxJobs

VARIABLES
    disk,           \* writes that stay: tab, number of its job, name
    ack,            \* writes the tabs were told are done
    lost,           \* tabs in a transaction that is there no more
    sound

vars == <<disk, ack, lost, sound>>

Single(t, j) == {<<t, j, "single">>}
Both(t, j) == {<<t, j, "first">>, <<t, j, "second">>}

Init == disk = {} /\ ack = {} /\ lost = {} /\ sound = TRUE

Land(t, j) ==
    /\ t \notin lost
    /\ \A w \in disk : w[1] = t => w[2] < j
    /\ \E writes \in {Single(t, j), Both(t, j)} :
          disk' = disk \cup writes /\ ack' = ack \cup writes
    /\ UNCHANGED lost

Lose(t) == lost' = lost \cup {t} /\ UNCHANGED <<disk, ack>>

Stray(t, j) ==
    /\ t \in lost
    /\ \A w \in disk : w[1] = t => w[2] <= j
    /\ \E w \in Both(t, j) \ disk : disk' = disk \cup {w}
    /\ UNCHANGED <<ack, lost>>

\* The job of a lost transaction fails.
Fail(t) == t \in lost /\ lost' = lost \ {t} /\ UNCHANGED <<disk, ack>>

Serve ==
    /\ UNCHANGED sound
    /\ \E t \in Tab : \/ Lose(t) \/ Fail(t)
                      \/ \E j \in 1..MaxJobs : Land(t, j) \/ Stray(t, j)

\* Nothing is promised for what happens from here on.
GoWrong == sound' = FALSE

Next == (sound /\ Serve) \/ GoWrong

Spec == Init /\ [][Next]_vars

\* What a tab is told is true: what it was told is done is there, a transaction
\* with both of its writes, and no single write is there that it was not told of.
Honest ==
    sound =>
        /\ ack \subseteq disk
        /\ \A t \in Tab, j \in 1..MaxJobs :
              /\ <<t, j, "first">> \in ack <=> <<t, j, "second">> \in ack
              /\ <<t, j, "single">> \in disk => <<t, j, "single">> \in ack
=============================================================================
