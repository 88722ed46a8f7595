-------------------------------- MODULE Offers --------------------------------
(***************************************************************************)
(* Which event types a channel offers.  A proxy consumer keeps the set its *)
(* supplier offers, a supplier admin counts its proxies per type, and the  *)
(* channel counts its admins; what is new or gone at one level is passed   *)
(* on to the next, and from the channel to the clients.  No lock is held   *)
(* from one level to the next, so that two calls may overtake each other.  *)
(* A proxy takes its offers back when its supplier fails and when it is    *)
(* disconnected, an admin when it is destroyed.                            *)
(***************************************************************************)
EXTENDS Naturals, FiniteSets

CONSTANTS
  Types,
  Admins,
  Proxies, Pulling,   \* proxy consumers; those that pull may find that the supplier fails
  AdminOf,            \* proxy -> its admin
  Callers,            \* threads that make calls or pull
  MaxCalls,           \* bound: calls
  None

ASSUME OffersAssumption ==
  /\ IsFiniteSet(Admins) /\ IsFiniteSet(Proxies) /\ IsFiniteSet(Callers)
  /\ Pulling \subseteq Proxies
  /\ AdminOf \in [Proxies -> Admins]
  /\ None \notin Admins \cup Proxies
  /\ MaxCalls \in Nat

VARIABLES
  pxstate, offered,     \* of a proxy: _pxstate and the keys of _evtypes
  astate, counted,      \* of an admin: live, closing, revoked, gone; _evtypes
  direct,               \* admin -> type -> what its client offers at the admin itself
  shut, offers,         \* of the channel: _shutmedown and _evtypes
  told,                 \* the types known to a client that has heard of every change
  call,                 \* caller -> what it is doing, at which step, with which lists
  calls,
  twice, late           \* types of which an offer was taken back twice; made after it was taken back

vars == <<pxstate, offered, astate, counted, direct, shut, offers, told, call, calls, twice, late>>

Counts == [Types -> Nat]
Idle == [op |-> "none", step |-> "idle", proxy |-> None, admin |-> None, add |-> {}, del |-> {}]
TypeOK ==
  /\ pxstate \in [Proxies -> {"Connected", "Exception", "Disconnected", "disposed"}]
  /\ offered \in [Proxies -> SUBSET Types]
  /\ astate \in [Admins -> {"live", "closing", "revoked", "gone"}]
  /\ counted \in [Admins -> Counts] /\ direct \in [Admins -> Counts]
  /\ shut \in BOOLEAN /\ offers \in Counts /\ told \subseteq Types
  /\ call \in [Callers -> [op : {"none", "offer", "fail", "disconnect", "direct", "destroy"},
                           step : {"idle", "alone", "unregister", "admin", "channel", "proxies"},
                           proxy : Proxies \cup {None}, admin : Admins \cup {None},
                           add : SUBSET Types, del : SUBSET Types]]
  /\ calls \in 0..MaxCalls
  /\ twice \subseteq Types /\ late \subseteq Types

Zero == [t \in Types |-> 0]
Init ==
  /\ pxstate = [p \in Proxies |-> "Connected"]
  /\ offered = [p \in Proxies |-> {}]
  /\ astate = [a \in Admins |-> "live"]
  /\ counted = [a \in Admins |-> Zero] /\ direct = [a \in Admins |-> Zero]
  /\ shut = FALSE /\ offers = Zero /\ told = {}
  /\ call = [c \in Callers |-> Idle] /\ calls = 0
  /\ twice = {} /\ late = {}

----------------------------------------------------------------------------
(* Counting: what admins and the channel do with a list of types that are   *)
(* added and then one of types that are deleted                             *)

Added(n, plus) == [t \in Types |-> IF t \in plus THEN n[t] + 1 ELSE n[t]]
CountAll(n, plus, minus) ==
  [t \in Types |-> IF t \in minus THEN 0 ELSE Added(n, plus)[t]]
Count(n, plus, minus) ==
  [t \in Types |-> IF t \in minus /\ Added(n, plus)[t] > 0 THEN Added(n, plus)[t] - 1
                   ELSE Added(n, plus)[t]]
NewlyAdded(n, plus) == {t \in plus : n[t] = 0}
Gone(n, plus, minus) == {t \in minus : Added(n, plus)[t] = 1}
Unknown(n, plus, minus) == {t \in minus : Added(n, plus)[t] = 0}

Begin(c, op, step, p, a, plus, minus) ==
  /\ calls < MaxCalls /\ calls' = calls + 1
  /\ call[c] = Idle
  /\ call' = [call EXCEPT ![c] = [op |-> op, step |-> step, proxy |-> p, admin |-> a,
                                  add |-> plus, del |-> minus]]
Pass(c, step, plus, minus) ==
  call' = [call EXCEPT ![c] = [op |-> @.op, step |-> step, proxy |-> @.proxy, admin |-> @.admin,
                               add |-> plus, del |-> minus]]

----------------------------------------------------------------------------
(* Proxies and admins are called                                            *)

\* offer_change() of a proxy: what it offers already does not count again.
OfferChange(c, p, plus, minus) ==
  LET new == plus \ offered[p]
      old == minus \cap (offered[p] \cup plus)
  IN
  /\ pxstate[p] = "Connected"
  /\ offered' = [offered EXCEPT ![p] = (@ \cup plus) \ minus]
  /\ new \cup old # {}
  /\ Begin(c, "offer", "admin", p, AdminOf[p], new, old)
  /\ UNCHANGED <<pxstate, astate, counted, direct, shut, offers, told, twice, late>>

\* offer_change() of an admin, by a client that deletes what it has added.
OfferDirectly(c, a, t) ==
  /\ \A d \in Callers : ~(call[d].op = "direct" /\ call[d].admin = a)
  /\ \/ Begin(c, "direct", "admin", None, a, {t}, {})
     \/ direct[a][t] > 0 /\ Begin(c, "direct", "admin", None, a, {}, {t})
  /\ UNCHANGED <<pxstate, offered, astate, counted, direct, shut, offers, told, twice, late>>

\* A pull fails: the offers are revoked, by a thread that has bumped the proxy,
\* and the proxy goes on knowing them.
Fail(c, p) ==
  /\ p \in Pulling /\ pxstate[p] = "Connected"
  /\ pxstate' = [pxstate EXCEPT ![p] = "Exception"]
  /\ IF offered[p] = {} THEN UNCHANGED <<call, calls>>
     ELSE Begin(c, "fail", "admin", p, AdminOf[p], {}, offered[p])
  /\ UNCHANGED <<offered, astate, counted, direct, shut, offers, told, twice, late>>

\* Disconnect by the client or by the garbage collector.
Disconnect(c, p) ==
  /\ pxstate[p] \in {"Connected", "Exception"}
  /\ pxstate' = [pxstate EXCEPT ![p] = "Disconnected"]
  /\ twice' = twice \cup (IF pxstate[p] = "Exception" THEN offered[p] ELSE {})
  /\ Begin(c, "disconnect", "alone", p, AdminOf[p], {}, {})
  /\ UNCHANGED <<offered, astate, counted, direct, shut, offers, told, late>>

Bumped(p) == \E c \in Callers : call[c].proxy = p /\ call[c].op = "fail"

\* With no pull left the offers are revoked.
RevokeNothing(c) ==
  /\ call[c].step = "alone" /\ call[c].op = "disconnect" /\ ~Bumped(call[c].proxy)
  /\ Pass(c, "admin", {}, {})
  /\ UNCHANGED <<pxstate, offered, astate, counted, direct, shut, offers, told, calls, twice, late>>
Revoke(c) ==
  /\ call[c].step = "alone" /\ call[c].op = "disconnect" /\ ~Bumped(call[c].proxy)
  /\ Pass(c, "admin", {}, offered[call[c].proxy])
  /\ UNCHANGED <<pxstate, offered, astate, counted, direct, shut, offers, told, calls, twice, late>>

\* A call is over; with that of a disconnect the proxy is disposed of.
Return(c) ==
  /\ call' = [call EXCEPT ![c] = Idle]
  /\ pxstate' = IF call[c].op = "disconnect" THEN [pxstate EXCEPT ![call[c].proxy] = "disposed"]
                ELSE pxstate

\* The admin refuses its clients once it is closing, and its proxies when it is
\* gone.
Refuses(a, op) == astate[a] = "gone" \/ (op = "direct" /\ astate[a] # "live")

\* _propagate_ochange() of the admin.
CountAtAdmin(c) ==
  LET a == call[c].admin
      n == counted[a]
      plus == call[c].add
      minus == call[c].del
      new == NewlyAdded(n, plus)
      old == Gone(n, plus, minus)
  IN
  /\ call[c].step = "admin" /\ ~Refuses(a, call[c].op)
  /\ counted' = [counted EXCEPT ![a] = Count(n, plus, minus)]
  /\ direct' = [direct EXCEPT ![a] = IF call[c].op = "direct" THEN Count(@, plus, minus) ELSE @]
  /\ IF new \cup old = {} THEN Return(c) ELSE Pass(c, "channel", new, old) /\ UNCHANGED pxstate
  /\ twice' = twice \cup (IF astate[a] = "revoked" THEN old ELSE {})
  /\ late' = late \cup (IF astate[a] = "revoked" THEN new ELSE {}) \cup Unknown(n, plus, minus)
  /\ UNCHANGED <<offered, astate, shut, offers, told, calls>>

Refused(c) ==
  /\ call[c].step = "admin" /\ Refuses(call[c].admin, call[c].op)
  /\ Return(c)
  /\ UNCHANGED <<offered, astate, counted, direct, shut, offers, told, calls, twice, late>>

\* propagate_ochange() of the channel; what it inserts into the change pool is
\* what every client hears, in this order.
CountAtChannel(c) ==
  /\ call[c].step = "channel"
  /\ IF shut THEN UNCHANGED <<offers, told, late>>
     ELSE /\ offers' = Count(offers, call[c].add, call[c].del)
          /\ told' = (told \cup NewlyAdded(offers, call[c].add)) \ Gone(offers, call[c].add, call[c].del)
          /\ late' = late \cup Unknown(offers, call[c].add, call[c].del)
  /\ IF call[c].op = "destroy" THEN Pass(c, "proxies", {}, {}) /\ UNCHANGED pxstate ELSE Return(c)
  /\ UNCHANGED <<offered, astate, counted, direct, shut, calls, twice>>

----------------------------------------------------------------------------
(* An admin is destroyed                                                    *)

DestroyAdmin(c, a) ==
  /\ astate[a] = "live"
  /\ astate' = [astate EXCEPT ![a] = "closing"]
  /\ Begin(c, "destroy", "alone", None, a, {}, {})
  /\ UNCHANGED <<pxstate, offered, counted, direct, shut, offers, told, twice, late>>

\* The admin waits until no call is between it and the channel, and gives up its
\* lock to unregister at the channel; its proxies may come in meanwhile.
Unregister(c) ==
  /\ call[c].step = "alone" /\ call[c].op = "destroy"
  /\ \A d \in Callers : ~(call[d].step = "channel" /\ call[d].admin = call[c].admin)
  /\ Pass(c, "unregister", {}, {})
  /\ UNCHANGED <<pxstate, offered, astate, counted, direct, shut, offers, told, calls, twice, late>>

\* With its lock again it revokes what it counts now, whoever is on the way to the
\* channel by then.
RevokeAll(c) ==
  LET a == call[c].admin
      types == {t \in Types : counted[a][t] > 0}
  IN
  /\ call[c].step = "unregister"
  /\ astate' = [astate EXCEPT ![a] = "revoked"]
  /\ Pass(c, IF types = {} THEN "proxies" ELSE "channel", {}, types)
  /\ UNCHANGED <<pxstate, offered, counted, direct, shut, offers, told, calls, twice, late>>

\* One proxy after the other is disconnected, without a revocation; a proxy
\* that is being disconnected already is left to it.
DisposeProxy(c, p) ==
  /\ call[c].step = "proxies" /\ AdminOf[p] = call[c].admin
  /\ pxstate[p] \in {"Connected", "Exception"} /\ ~Bumped(p)
  /\ pxstate' = [pxstate EXCEPT ![p] = "disposed"]
  /\ UNCHANGED <<offered, astate, counted, direct, shut, offers, told, call, calls, twice, late>>

DisposeAdmin(c) ==
  /\ call[c].step = "proxies"
  /\ \A p \in Proxies : AdminOf[p] = call[c].admin => pxstate[p] \in {"Disconnected", "disposed"}
  /\ astate' = [astate EXCEPT ![call[c].admin] = "gone"]
  /\ call' = [call EXCEPT ![c] = Idle]
  /\ UNCHANGED <<pxstate, offered, counted, direct, shut, offers, told, calls, twice, late>>

\* destroy() of the channel, which revokes nothing any more.
Shutdown ==
  /\ ~shut /\ shut' = TRUE
  /\ UNCHANGED <<pxstate, offered, astate, counted, direct, offers, told, call, calls, twice, late>>

Next ==
  \/ Shutdown
  \/ \E c \in Callers :
       \/ Revoke(c) \/ CountAtAdmin(c) \/ Refused(c) \/ CountAtChannel(c)
       \/ Unregister(c) \/ RevokeAll(c) \/ DisposeAdmin(c)
       \/ \E p \in Proxies : Fail(c, p) \/ Disconnect(c, p) \/ DisposeProxy(c, p)
       \/ \E p \in Proxies, plus, minus \in SUBSET Types : OfferChange(c, p, plus, minus)
       \/ \E a \in Admins : DestroyAdmin(c, a) \/ \E t \in Types : OfferDirectly(c, a, t)

Spec == Init /\ [][Next]_vars

----------------------------------------------------------------------------
(* Properties                                                               *)

Quiet == ~shut /\ \A c \in Callers : call[c].step = "idle"
OfferedAt(a) ==
  {t \in Types : /\ astate[a] # "gone"
                 /\ \/ direct[a][t] > 0
                    \/ \E p \in Proxies : /\ AdminOf[p] = a /\ pxstate[p] = "Connected"
                                          /\ t \in offered[p]}

\* However calls of proxies and admins overtake each other between the levels,
\* no type that is offered is missing at the channel, and no client has been
\* told that it is gone, but for types of which the code has taken the same offer
\* back twice: a failure revokes what the disconnect revokes again, and the
\* destruction of an admin what its proxies revoke again.
NoOfferLost ==
  Quiet => \A a \in Admins : OfferedAt(a) \subseteq told \cup twice

\* The clients know what the channel counts, and the channel counts the admins at
\* which a type is offered, but for types taken back twice, or offered by a call
\* that a revocation has overtaken.
OffersExact ==
  /\ told = {t \in Types : offers[t] > 0}
  /\ Quiet => \A t \in Types \ (twice \cup late) :
       offers[t] = Cardinality({a \in Admins : t \in OfferedAt(a)})

================================================================================
