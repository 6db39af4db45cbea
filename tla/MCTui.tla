------------------------------- MODULE MCTui -------------------------------
(***************************************************************************)
(* An instance of Tui for TLC: a subscription with an address, the default     *)
(* one, and what the daemon may show of them.                                *)
(***************************************************************************)
EXTENDS Tui, TLC

CONSTANTS s1, s2, n1, n2, n3, q1, r1, r2

MCSnapshot(subs, nodes1, folded, connected) ==
    [subs |-> subs, nodes |-> (s1 :> nodes1 @@ s2 :> <<n3>>), folded |-> folded,
     connected |-> connected]

MCBlank == MCSnapshot(<<>>, <<>>, {}, None)
MCFirst == MCSnapshot(<<s1, s2>>, <<n1, n2>>, {}, None)

MCSnapshots == {
    MCFirst,
    MCSnapshot(<<s1, s2>>, <<n1, n2>>, {s1}, <<s1, n2>>),
    MCSnapshot(<<s2, s1>>, <<n2>>, {}, <<s1, n2>>),
    MCSnapshot(<<s2>>, <<>>, {}, None)}

\* One filter finds the second subscription and a node of the first.
MCHits == (q1 :> {s2, n2})

MCTabs == <<
    [fields |-> <<[kind |-> "enum", name |-> "autostart", size |-> 2],
                  [kind |-> "multi", name |-> "details", size |-> 2]>>, lists |-> <<>>],
    [fields |-> <<[kind |-> "text", name |-> "url", size |-> 0]>>,
     lists |-> <<"direct", "proxy">>]>>

MCSettings ==
    {[autostart |-> -1, details |-> {}, url |-> 0, direct |-> <<>>, proxy |-> <<"a">>]}

Symmetry == Permutations(Requests)

\* The dialog is used over one state of the list, for one tab at a time and with
\* few rules; requests are under way over few states of the list.
AtTop == snapshot = MCFirst /\ query = None /\ cursor = 0 /\ scroll = 0

FewSettings(now, before) ==
    /\ Len(now.direct) + Len(now.proxy) <= 2
    /\ \/ now.autostart = before.autostart /\ now.details = before.details
       \/ now.url = before.url /\ now.direct = before.direct /\ now.proxy = before.proxy

Bound ==
    /\ dialog # None =>
          /\ AtTop
          /\ FewSettings(dialog.cur, dialog.orig)
          /\ \A r \in Requests : request[r].kind \in {"none", "save"}
    /\ (\E r \in Requests : request[r].kind # "none") =>
          query = None /\ ~typing /\ modal = "none" /\ height = 3 /\ scroll = 0 /\ Len(snapshot.subs) = 2
=============================================================================
