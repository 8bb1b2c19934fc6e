-------------------------- MODULE DocumentSelector --------------------------
(***************************************************************************)
(* The menu of documents that the search box and the assistant share.  Its *)
(* state is the field `menu` of the panel that holds it: the documents it  *)
(* offers, besides all of them (None).                                     *)
(***************************************************************************)
EXTENDS Server

\* The effect on mount.
SelectorEffect(by) == << Call(by, "DocumentSelector", "GET documents", None, None) >>

Offered == ui.menu \cup {None}

\* A refused request leaves the menu empty, a lost one as it was.  The model's
\* documents are those already read, "ready" or "indexed".
SelectorLoaded(i) ==
    /\ Awaited(i, "DocumentSelector")
    /\ SetState(i, [ui EXCEPT !.menu =
           CASE calls[i].state = "ok"      -> calls[i].data
             [] calls[i].state = "refused" -> {}
             [] OTHER                      -> @])
    /\ Return(i)
    /\ UNCHANGED <<mount, token>>
=============================================================================
