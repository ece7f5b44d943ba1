--------------------------- MODULE ReplicatedMap ---------------------------
(***************************************************************************)
(* What the key-value store promises, without leaders, calls, clocks,      *)
(* crashes and messages.  There is one log, which only grows.  Every       *)
(* replica holds an image of a prefix of it and moves in two ways: it      *)
(* carries out the next entry, where a set, and only a set, may be passed  *)
(* over; or it goes back or forward to an image that a replica once held   *)
(* and saved, or starts again from nothing.  RaftStore implements this.    *)
(***************************************************************************)
EXTENDS Integers, Sequences

CONSTANTS
    Node,           \* the replicas
    Key,            \* keys of the map
    None,           \* no value
    Kept(_),        \* whether a command is about the map
    NoImage         \* the image of the empty log

VARIABLES
    log,        \* the commands, in the order in which all replicas see them
    image,      \* image[n]: the index, the map and the ignored entries of n
    saved       \* the images that replicas have put aside, and NoImage

vars == <<log, image, saved>>

\* The map after command c is carried out on map s.
Execute(s, c) ==
    IF Kept(c) THEN [s EXCEPT ![c.key] = IF c.op = "set" THEN c.val ELSE None]
    ELSE s

-----------------------------------------------------------------------------
\* One more command is in the log.
Extend ==
    /\ Len(log') = Len(log) + 1
    /\ \A i \in 1 .. Len(log) : log'[i] = log[i]
    /\ UNCHANGED <<image, saved>>

\* Replica n takes the next entry: it carries it out, or passes over a set.
Advance(n) ==
    LET i == image[n].idx + 1
        img(s, x) == [idx |-> i, store |-> s, missed |-> x]
    IN  /\ i <= Len(log)
        /\ \/ image' = [image EXCEPT ![n] =
                          img(Execute(@.store, log[i]), @.missed)]
           \/ /\ log[i].op = "set"
              /\ image' = [image EXCEPT ![n] = img(@.store, @.missed \cup {i})]
        /\ UNCHANGED <<log, saved>>

\* Replica n puts its image aside.
Save(n) ==
    /\ saved' = saved \cup {image[n]}
    /\ UNCHANGED <<log, image>>

\* Saved images are given up.
Discard ==
    /\ saved' \subseteq saved
    /\ UNCHANGED <<log, image>>

\* Replica n takes a saved image, its own or another's or that of the empty log.
Load(n) ==
    /\ \E img \in saved : image' = [image EXCEPT ![n] = img]
    /\ saved' \subseteq saved
    /\ UNCHANGED log

-----------------------------------------------------------------------------
Init ==
    /\ log = <<>>
    /\ image = [n \in Node |-> NoImage]
    /\ saved = {NoImage}

Next ==
    \/ Extend
    \/ Discard
    \/ \E n \in Node : Advance(n) \/ Save(n) \/ Load(n)

Spec == Init /\ [][Next]_vars

=============================================================================
