------------------------------- MODULE MCInbox ------------------------------
(***************************************************************************)
(* A few requests in any mix, with one type that a list may ask for.       *)
(***************************************************************************)
EXTENDS Inbox, TLC

Call(op) ==
    [op |-> op, body |-> "notification", types |-> {}, filter |-> AnyType,
     id |-> NoId]
MCCalls ==
    {[Call("receive") EXCEPT !.body = "not a JSON object"]}
    \cup {[Call("receive") EXCEPT !.types = ts] : ts \in SUBSET Types}
    \cup {[Call("list") EXCEPT !.filter = t] : t \in Types \cup {AnyType}}
    \cup {[Call("ack") EXCEPT !.id = r] : r \in Requests \cup {NoId}}
    \cup {[Call("get") EXCEPT !.id = r] : r \in Requests}
    \cup {Call("stats")}

Symmetry == Permutations(Requests)
=============================================================================
