------------------------------ MODULE TagLease ------------------------------
(***************************************************************************)
(* What the registry of configuration watchers promises, without streams'  *)
(* states, messages or statuses: every tag is a slot that one stream holds  *)
(* at a time, a slot passes from stream to stream only by becoming empty,   *)
(* and a stream that gave its slot up, or was refused one, never gets one  *)
(* again.                                                                  *)
(***************************************************************************)
CONSTANTS Tag, Conn, None

VARIABLES
    owner,    \* owner[t]: the stream that holds tag t
    retired   \* streams that will hold no tag any more

Owners == {owner[t] : t \in Tag} \ {None}

Init ==
    /\ owner = [t \in Tag |-> None]
    /\ retired = {}

Acquire(c, t) ==
    /\ owner[t] = None
    /\ c \notin retired \cup Owners
    /\ owner' = [owner EXCEPT ![t] = c]
    /\ UNCHANGED retired

Release(t) ==
    /\ owner[t] # None
    /\ retired' = retired \cup {owner[t]}
    /\ owner' = [owner EXCEPT ![t] = None]

Refuse(c) ==
    /\ c \notin retired \cup Owners
    /\ retired' = retired \cup {c}
    /\ UNCHANGED owner

(* The process that keeps the slots is gone, and so is every stream. *)
Reset ==
    /\ owner' = [t \in Tag |-> None]
    /\ \E lost \in SUBSET Conn :
        /\ Owners \subseteq lost
        /\ retired' = retired \cup lost

Next ==
    \/ \E c \in Conn : \E t \in Tag : Acquire(c, t)
    \/ \E t \in Tag : Release(t)
    \/ \E c \in Conn : Refuse(c)
    \/ Reset

Spec == Init /\ [][Next]_<<owner, retired>>
=============================================================================
