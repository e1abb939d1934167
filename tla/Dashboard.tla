------------------------------ MODULE Dashboard ------------------------------
(***************************************************************************)
(* The browser side of the MQTTBroker Web Interface: what its page shows,  *)
(* as a function of the server sent events it handles.  Additions are      *)
(* applied at once; a removal is applied by a timer, 300 ms after its      *)
(* event, so that the page can animate it.                                 *)
(***************************************************************************)
EXTENDS Naturals, Sequences

\* Things a page shows.
ClientEntry(c) == <<"client", c>>
SubscriptionEntry(c, t) == <<"subscription", c, t>>
RetainedEntry(t) == <<"retained", t>>

Adding == {"client-connected", "client-subscribed", "retained-message-set"}

\* A page: what it shows, and the removals whose timer runs, oldest first.
EmptyPage == [shown |-> {}, pending |-> <<>>]

\* A subscription of an unknown client adds the client, too.
WithOwner(thing) ==
  IF thing[1] = "subscription" THEN {thing, ClientEntry(thing[2])} ELSE {thing}

Handle(page, event, thing) ==
  IF event \in Adding
  THEN [page EXCEPT !.shown = @ \cup WithOwner(thing)]
  ELSE [page EXCEPT !.pending = Append(@, thing)]

\* A client's entry leaves with its subscriptions.
Without(shown, thing) ==
  {s \in shown : ~ \/ s = thing
                   \/ thing[1] = "client" /\ s[1] = "subscription" /\ s[2] = thing[2]}

RemovalExpired(page) ==
  [shown |-> Without(page.shown, Head(page.pending)), pending |-> Tail(page.pending)]
=============================================================================
