------------------------------ MODULE PartFiles ------------------------------
(***************************************************************************)
(* What the partition manager promises its callers: a partition is an      *)
(* array of bytes of a fixed size, a handle a position in it.  A call      *)
(* that fails may have written a first part of what it was given.          *)
(***************************************************************************)
EXTENDS Integers, Sequences

CONSTANTS Names, SizeOf(_), Handles, Values, Blank

VARIABLES
    files,      \* the bytes of each partition
    pos,        \* for each handle its partition and position, or Closed
    out         \* what the last call on a handle gave

vars == <<files, pos, out>>

Closed == [name |-> "none", offset |-> 0]
Init ==
    /\ files = [n \in Names |-> [k \in 0..SizeOf(n) - 1 |-> Blank]]
    /\ pos = [h \in Handles |-> Closed]
    /\ out = [ok |-> TRUE, bytes |-> <<>>]

Ok(bytes) == out' = [ok |-> TRUE, bytes |-> bytes]
Fails == out' = [ok |-> FALSE, bytes |-> <<>>]
Patched(f, from, n, v) == [k \in DOMAIN f |-> IF k \in from..(from + n - 1) THEN v ELSE f[k]]

Open(h, name) ==
    /\ \/ pos' = [pos EXCEPT ![h] = [name |-> name, offset |-> 0]] /\ Ok(<<>>)
       \/ pos' = [pos EXCEPT ![h] = Closed] /\ Fails
    /\ UNCHANGED files

Close(h) == pos' = [pos EXCEPT ![h] = Closed] /\ Ok(<<>>) /\ UNCHANGED files

Refused == Fails /\ UNCHANGED <<files, pos>>

Room(h, n) == pos[h].offset + n <= SizeOf(pos[h].name)
Advance(h, n) == pos' = [pos EXCEPT ![h].offset = @ + n]

Seek(h, to) ==
    /\ to \in 0..SizeOf(pos[h].name)
    /\ pos' = [pos EXCEPT ![h].offset = to] /\ Ok(<<>>)
    /\ UNCHANGED files

Read(h, n) ==
    /\ Room(h, n) /\ Advance(h, n)
    /\ Ok([k \in 1..n |-> files[pos[h].name][pos[h].offset + k - 1]])
    /\ UNCHANGED files

\* A write that fails moves the position all the same.
Write(h, n, v) ==
    /\ Room(h, n) /\ Advance(h, n)
    /\ \E done \in 0..n :
          /\ files' = [files EXCEPT ![pos[h].name] = Patched(@, pos[h].offset, done, v)]
          /\ IF done = n THEN Ok(<<>>) \/ Fails ELSE Fails

Erase(h) ==
    /\ \E done \in 0..SizeOf(pos[h].name) :
          /\ files' = [files EXCEPT ![pos[h].name] = Patched(@, 0, done, Blank)]
          /\ IF done = SizeOf(pos[h].name) THEN Ok(<<>>) \/ Fails ELSE Fails
    /\ UNCHANGED pos

OpenHandles == {h \in Handles : pos[h] # Closed}
Next ==
    \/ \E h \in Handles, name \in Names : Open(h, name)
    \/ \E h \in Handles : Close(h)
    \/ Refused
    \/ \E h \in OpenHandles :
          \/ \E to \in 0..SizeOf(pos[h].name) : Seek(h, to)
          \/ \E n \in 1..SizeOf(pos[h].name) : Read(h, n) \/ \E v \in Values : Write(h, n, v)
          \/ Erase(h)

Spec == Init /\ [][Next]_vars
=============================================================================
