----------------------------- MODULE UnixFiles -----------------------------
(***************************************************************************)
(* What a file system promises: names lead to files, a file may have many  *)
(* names and be open many times, and it is there, as it was written, until *)
(* it has no name and nobody has it open.  A new file is empty.            *)
(***************************************************************************)
EXTENDS Naturals

CONSTANTS Thread, Name, File, MaxSize, NULL

VARIABLES
    named,      \* name -> file or NULL
    opened,     \* thread -> the file it has open or NULL
    size        \* file -> its size, NULL if there is no such file

Init ==
    /\ named = [n \in Name |-> NULL]
    /\ opened = [t \in Thread |-> NULL]
    /\ size = [f \in File |-> NULL]

(* The files that have no name and are not open are gone.                  *)
Kept == [f \in File |->
    IF f \in {named'[n] : n \in Name} \cup {opened'[t] : t \in Thread}
    THEN size[f] ELSE NULL]

Create(t, n, f) ==
    /\ named[n] = NULL /\ opened[t] = NULL /\ size[f] = NULL
    /\ named' = [named EXCEPT ![n] = f]
    /\ opened' = [opened EXCEPT ![t] = f]
    /\ size' = [size EXCEPT ![f] = 0]

Open(t, n) ==
    /\ named[n] # NULL /\ opened[t] = NULL
    /\ opened' = [opened EXCEPT ![t] = named[n]]
    /\ UNCHANGED <<named, size>>

Close(t) ==
    /\ opened[t] # NULL
    /\ opened' = [opened EXCEPT ![t] = NULL]
    /\ UNCHANGED named
    /\ size' = Kept

Resize(t, s) ==
    /\ opened[t] # NULL
    /\ size' = [size EXCEPT ![opened[t]] = s]
    /\ UNCHANGED <<named, opened>>

Link(t, n) ==
    /\ opened[t] # NULL /\ named[n] = NULL
    /\ named' = [named EXCEPT ![n] = opened[t]]
    /\ UNCHANGED <<opened, size>>

Remove(n) ==
    /\ named[n] # NULL
    /\ named' = [named EXCEPT ![n] = NULL]
    /\ UNCHANGED opened
    /\ size' = Kept

Rename(old, new) ==
    /\ named[old] # NULL /\ named[new] = NULL
    /\ named' = [named EXCEPT ![old] = NULL, ![new] = named[old]]
    /\ UNCHANGED <<opened, size>>

Next ==
    \/ \E t \in Thread, n \in Name :
         Open(t, n) \/ Link(t, n) \/ \E f \in File : Create(t, n, f)
    \/ \E t \in Thread : Close(t) \/ \E s \in 0 .. MaxSize : Resize(t, s)
    \/ \E n, m \in Name : Remove(n) \/ Rename(n, m)

Spec == Init /\ [][Next]_<<named, opened, size>>
=============================================================================
