----------------------------- MODULE Subscriptions -----------------------------
(***************************************************************************)
(* Which events reach a proxy: a filter with its constraints and tables of *)
(* event types (Filter_i), the filters and subscriptions of a consumer     *)
(* admin and a proxy supplier, the type map of the channel they keep up to *)
(* date (RDI_TypeMap) and the dispatch of an event through the map.        *)
(*                                                                         *)
(* A filter works out under its own lock what a change of its constraints  *)
(* adds to and takes from the types it asks for, copies its callbacks,     *)
(* releases the lock and tells the callbacks one by one; each of them      *)
(* updates the map under the lock of the channel.  An admin or a proxy     *)
(* that gets or loses a filter holds the channel from beginning to end.    *)
(*                                                                         *)
(* Left out: the expressions of constraints (they are taken to hold for    *)
(* every event whose type the constraint names), destruction of filters    *)
(* and of proxies, a second filter, callbacks of clients.                  *)
(***************************************************************************)
EXTENDS Integers, Sequences, FiniteSets, SequencesExt

CONSTANTS
  Callers,        \* threads that execute calls of clients
  Admin, Proxy,   \* the consumer admin and one proxy of it
  Domains, Names, \* of event types
  TypeLists,      \* the lists of event types constraints are made of
  Requests,       \* the sets of event types clients subscribe to
  MaxListed,      \* bound: constraints one call adds, deletes or modifies
  MaxIds,         \* bound: constraints ever made
  MaxCalls        \* bound: calls of clients

Holders == {Admin, Proxy}
Types   == (Domains \cup {"*"}) \X (Names \cup {"*"})
Events  == (Domains \cup {"other"}) \X (Names \cup {"other"})

ASSUME SubscriptionsAssumption ==
  /\ Admin # Proxy
  /\ TypeLists \subseteq Seq(Types) \ {<<>>}
  /\ Requests \subseteq SUBSET Types
  /\ MaxListed \in Nat \ {0} /\ MaxIds \in Nat \ {0} /\ MaxCalls \in Nat

VARIABLES
  constraints, \* Filter_i::_constraints, a sequence
  all,         \* _flt_all_ev_types: how often each type is named
  dom,         \* _flt_dom_ev_types: the types that dominate the others
  callbacks,   \* _callbacks_i, those who get the changes
  ids,         \* _idcounter, from 0
  filters,     \* the holders whose FAdminHelper has the filter
  rqstypes,    \* _rqstypes of the holders
  tmap,        \* RDI_TypeMap: nodes per holder, filter (or none) and type
  channel,     \* who has the lock of the channel
  lock,        \* holder -> who keeps its lock from one step to the next
  call,        \* what each caller is doing
  calls        \* calls so far

filterVars == <<constraints, all, dom, callbacks, ids>>
vars == <<filterVars, filters, rqstypes, tmap, channel, lock, call, calls>>

None == "none"
Idle == [op |-> "idle"]
Zero == [ty \in Types |-> 0]
Count(S) == [ty \in Types |-> IF ty \in S THEN 1 ELSE 0]
Plus(f, g) == [ty \in Types |-> f[ty] + g[ty]]

\* Op for one element of s after the other.
OneByOne(Op(_, _), w, s) ==
  LET f[n \in 0..Len(s)] == IF n = 0 THEN w ELSE Op(f[n - 1], s[n]) IN f[Len(s)]

(***************************************************************************)
(* The tables of a filter.  A call works on its constraints, its tables    *)
(* and the two lists it will tell, in which a type may occur several       *)
(* times: [cs, all, dom, add, rem].                                        *)
(***************************************************************************)
Dominates(t, u) == t[1] \in {"*", u[1]} /\ t[2] \in {"*", u[2]}
IsDominated(u, D) == \E t \in D : Dominates(t, u)
Wild(t) == t[1] = "*" \/ t[2] = "*"

\* A type named for the first time replaces what it dominates.  deltypes is
\* not emptied between two types of one constraint.
AddType(w, ty) ==
  LET deltypes == Plus(w.deltypes, Count({t \in w.dom : Dominates(ty, t)}))
      counted  == [w.all EXCEPT ![ty] = @ + 1]
  IN  IF w.all[ty] > 0 \/ IsDominated(ty, w.dom)
        THEN [w EXCEPT !.all = counted]
        ELSE [cs |-> w.cs, all |-> counted,
              dom |-> {t \in w.dom : deltypes[t] = 0} \cup {ty},
              add |-> Plus(w.add, Count({ty})), rem |-> Plus(w.rem, deltypes),
              deltypes |-> deltypes, lost |-> w.lost]

UpdateTables(w, types) == OneByOne(AddType, [w EXCEPT !.deltypes = Zero], types)

\* What a constraint that goes named is one less; a type that is lost leaves
\* the types that dominate.
Uncounted(w, ty) == [w EXCEPT !.all = [w.all EXCEPT ![ty] = @ - 1]]
WithoutDominant(w, ty) ==
  [cs |-> w.cs, all |-> w.all, dom |-> w.dom \ {ty}, add |-> w.add, rem |-> w.rem,
   deltypes |-> w.deltypes, lost |-> Append(w.lost, ty)]

DropTypeAtOnce(w, ty) ==
  IF ty \in w.dom THEN WithoutDominant(Uncounted(w, ty), ty) ELSE Uncounted(w, ty)

\* The last constraint that names a type takes it out of the tables.
DropType(w, ty) ==
  IF w.all[ty] = 1 /\ ty \in w.dom
    THEN WithoutDominant(Uncounted(w, ty), ty)
    ELSE Uncounted(w, ty)

\* What a lost type dominated comes to the fore: for "*::*" first all other
\* wildcards, then what they leave undominated; for "*::T" and "D::*"
\* everything of that name or domain, dominated or not.
Uncovered(w, ty) ==
  LET named == {t \in Types : w.all[t] > 0}
      wild  == {t \in named : Wild(t)}
      plain == {t \in named \ wild : ~IsDominated(t, w.dom \cup wild)}
  IN  CASE ty = <<"*", "*">> -> wild \cup plain
        [] ty # <<"*", "*">> /\ ty[1] = "*" -> {t \in named : t[2] = ty[2]}
        [] ty # <<"*", "*">> /\ ty[2] = "*" -> {t \in named : t[1] = ty[1]}
        [] OTHER -> {}
Uncover(w, ty) ==
  LET more == Uncovered(w, ty)
  IN  [cs |-> w.cs, all |-> w.all, dom |-> w.dom \cup more,
       add |-> Plus(w.add, Count(more)), rem |-> Plus(w.rem, Count({ty})),
       deltypes |-> w.deltypes, lost |-> w.lost]

Position(cs, id) == CHOOSE i \in DOMAIN cs : cs[i].id = id

\* _remove_constraint(): the last constraint moves to the place of the removed.
RemoveConstraint(w, id) ==
  LET i   == Position(w.cs, id)
      w1  == OneByOne(DropType, [w EXCEPT !.lost = <<>>], w.cs[i].types)
      w2  == OneByOne(Uncover, w1, w1.lost)
  IN  [w2 EXCEPT !.cs = Front([w.cs EXCEPT ![i] = Last(w.cs)])]

Install(w, c) == [UpdateTables(w, c.types) EXCEPT !.cs = Append(w.cs, c)]
Modify(w, c)  == Install(RemoveConstraint(w, c.id), c)

Work == [cs |-> constraints, all |-> all, dom |-> dom, add |-> Zero, rem |-> Zero,
         deltypes |-> Zero, lost |-> <<>>]

\* notify_subscribers_i(): a type in both lists is taken from both.
Cleaned(f, g) == [ty \in Types |-> IF g[ty] > 0 THEN 0 ELSE f[ty]]

(***************************************************************************)
(* The type map.                                                           *)
(***************************************************************************)
UpdateOfAllNodes(m, h, flt, add, rem) ==
  [m EXCEPT ![h][flt] = [ty \in Types |-> (IF rem[ty] > 0 THEN 0 ELSE m[h][flt][ty]) + add[ty]]]

\* update(): each deletion takes one node if there is one, each addition
\* puts one in front, whether or not there is one already.
Less(n, k) == IF n > k THEN n - k ELSE 0
Update(m, h, flt, add, rem) ==
  [m EXCEPT ![h][flt] = [ty \in Types |-> Less(m[h][flt][ty], rem[ty]) + add[ty]]]

Init ==
  /\ constraints = <<>> /\ all = Zero /\ dom = {} /\ ids = 0
  /\ callbacks = {} /\ filters = {}
  /\ rqstypes = [h \in Holders |-> {}]
  /\ tmap = [h \in Holders |-> [flt \in {"filter", "none"} |-> Zero]]
  /\ channel = None /\ lock = [h \in Holders |-> None]
  /\ call = [t \in Callers |-> Idle] /\ calls = 0

Begin(t) == call[t] = Idle /\ calls < MaxCalls /\ calls' = calls + 1
Free(h) == lock[h] = None

(***************************************************************************)
(* Changes of constraints: everything under the lock of the filter, which  *)
(* is then released for the calls of propagate_schange().                  *)
(***************************************************************************)
Change(t, w) ==
  LET add == Cleaned(w.add, w.rem)
      rem == Cleaned(w.rem, w.add)
  IN  /\ constraints' = w.cs /\ all' = w.all /\ dom' = w.dom
      /\ call' = [call EXCEPT ![t] =
            IF (add = Zero /\ rem = Zero) \/ callbacks = {} THEN Idle
            ELSE [op |-> "notify", to |-> callbacks, add |-> add, rem |-> rem]]
      /\ UNCHANGED <<callbacks, filters, rqstypes, tmap, channel, lock>>

AddConstraints(t) ==
  /\ Begin(t)
  /\ \E n \in 1 .. MaxListed : \E lists \in [1 .. n -> TypeLists] :
       /\ ids + n <= MaxIds
       /\ ids' = ids + n
       /\ Change(t, OneByOne(Install, Work,
                    [i \in 1 .. n |-> [id |-> ids + i, types |-> lists[i]]]))

\* No constraint is named twice: the code would stop at an assertion, or do
\* the second change on top of the first.
ModifyConstraints(t) ==
  LET Ids == {constraints[i].id : i \in DOMAIN constraints}
  IN  /\ Begin(t)
      /\ \E gone, changed \in SUBSET Ids :
           /\ gone \cap changed = {}
           /\ Cardinality(gone) + Cardinality(changed) \in 1 .. MaxListed
           /\ \E dels \in SetToSeqs(gone), mods \in SetToSeqs(changed) :
              \E lists \in [DOMAIN mods -> TypeLists] :
                Change(t, OneByOne(Modify, OneByOne(RemoveConstraint, Work, dels),
                             [i \in DOMAIN mods |-> [id |-> mods[i], types |-> lists[i]]]))
      /\ UNCHANGED ids

RemoveAllConstraints(t) ==
  /\ Begin(t)
  /\ Change(t, OneByOne(RemoveConstraint, Work,
               [i \in DOMAIN constraints |-> constraints[i].id]))
  /\ UNCHANGED ids

\* propagate_schange() of one holder: update_mapping() takes the channel.
Propagate(t, h) ==
  /\ call[t].op = "notify" /\ h \in call[t].to
  /\ channel = None
  /\ tmap' = Update(tmap, h, "filter", call[t].add, call[t].rem)
  /\ call' = [call EXCEPT ![t] = IF call[t].to = {h} THEN Idle
                                    ELSE [op |-> "notify", to |-> call[t].to \ {h},
                                          add |-> call[t].add, rem |-> call[t].rem]]
  /\ UNCHANGED <<filterVars, filters, rqstypes, channel, lock, calls>>

(***************************************************************************)
(* Filters of a holder.  The channel is taken, then the type map, then the *)
(* holder, and all are kept to the end.                                    *)
(***************************************************************************)
TakeChannel(t, h, op) ==
  /\ Begin(t)
  /\ channel = None /\ channel' = t
  /\ call' = [call EXCEPT ![t] = [op |-> op, holder |-> h]]
  /\ UNCHANGED <<filterVars, filters, rqstypes, tmap, lock>>

AddFilter(t, h) == h \notin filters /\ TakeChannel(t, h, "add")
RemoveFilter(t, h) == h \in filters /\ TakeChannel(t, h, "remove")

\* A subscription is cancelled and the callback registered with a copy of
\* the types, which is told when the filter is unlocked.
Attach(t) ==
  LET h == call[t].holder
  IN  /\ call[t].op = "add" /\ Free(h)
      /\ tmap' = Update(tmap, h, "none", Zero, Count(rqstypes[h]))
      /\ rqstypes' = [rqstypes EXCEPT ![h] = {}]
      /\ callbacks' = callbacks \cup {h}
      /\ call' = [call EXCEPT ![t] = [op |-> "attached", holder |-> h,
                                      add |-> Count(dom), rem |-> Zero]]
      /\ lock' = [lock EXCEPT ![h] = t]
      /\ UNCHANGED <<constraints, all, dom, ids, filters, channel, calls>>

Detach(t) ==
  LET h == call[t].holder
  IN  /\ call[t].op = "remove" /\ Free(h)
      /\ callbacks' = callbacks \ {h}
      /\ call' = [call EXCEPT ![t] = [op |-> "detached", holder |-> h,
                                      add |-> Zero, rem |-> Count(dom)]]
      /\ lock' = [lock EXCEPT ![h] = t]
      /\ UNCHANGED <<constraints, all, dom, ids, filters, rqstypes, tmap, channel, calls>>

FinishFilter(t) ==
  LET h == call[t].holder
  IN  /\ call[t].op \in {"attached", "detached"}
      /\ tmap' = Update(tmap, h, "filter", call[t].add, call[t].rem)
      /\ filters' = IF call[t].op = "attached" THEN filters \cup {h} ELSE filters \ {h}
      /\ channel' = None /\ lock' = [lock EXCEPT ![h] = None]
      /\ call' = [call EXCEPT ![t] = Idle]
      /\ UNCHANGED <<filterVars, rqstypes, calls>>

(***************************************************************************)
(* Subscriptions without a filter.                                         *)
(***************************************************************************)
\* Refused if there are filters.  The proxy unlocks itself before it asks for
\* the channel and does not look again; the admin keeps its own lock.
SubscriptionChange(t, h) ==
  /\ Begin(t)
  /\ Free(h)
  /\ h \notin filters
  /\ \E added, deled \in Requests :
       call' = [call EXCEPT ![t] = [op |-> "subscribe", holder |-> h,
                                   added |-> added, deled |-> deled]]
  /\ lock' = IF h = Admin THEN [lock EXCEPT ![h] = t] ELSE lock
  /\ UNCHANGED <<filterVars, filters, rqstypes, tmap, channel>>

\* compute_diff() and update(): the first subscription ignores what it
\* deletes; a type that is both added and deleted stays.
Subscribe(t) ==
  LET h     == call[t].holder
      old   == rqstypes[h]
      added == call[t].added
      toadd == added \ old
      todel == IF old = {} THEN {} ELSE (old \cap call[t].deled) \ added
  IN  /\ call[t].op = "subscribe"
      /\ channel = None
      /\ tmap' = Update(tmap, h, "none", Count(toadd), Count(todel))
      /\ rqstypes' = [rqstypes EXCEPT ![h] = (old \ todel) \cup added]
      /\ lock' = IF h = Admin THEN [lock EXCEPT ![h] = None] ELSE lock
      /\ call' = [call EXCEPT ![t] = Idle]
      /\ UNCHANGED <<filterVars, filters, channel, calls>>

Next ==
  \E t \in Callers :
    \/ AddConstraints(t) \/ ModifyConstraints(t) \/ RemoveAllConstraints(t)
    \/ Attach(t) \/ Detach(t) \/ FinishFilter(t) \/ Subscribe(t)
    \/ \E h \in Holders :
         \/ Propagate(t, h)
         \/ AddFilter(t, h) \/ RemoveFilter(t, h) \/ SubscriptionChange(t, h)

Spec == Init /\ [][Next]_vars

(***************************************************************************)
(* Dispatch of an event through the map, with the lock of the map held.    *)
(***************************************************************************)
HasFilters(h) == rqstypes[h] # {} \/ h \in filters

RdiMatchAnything(e) == TRUE

\* rdi_match(), with expressions that hold.
RdiMatch(e) ==
  \/ constraints = <<>>
  \/ \E i \in DOMAIN constraints : \E ty \in ToSet(constraints[i].types) : Dominates(ty, e)

\* The nodes of a holder lookup() finds that match; a node without a filter does.
Nodes(h, flt, ty) == {<<flt, ty>>} \X (1 .. tmap[h][flt][ty])
Hits(h, e) ==
  Cardinality(UNION {Nodes(h, "none", ty) \cup IF RdiMatch(e) THEN Nodes(h, "filter", ty) ELSE {} :
                       ty \in {u \in Types : Dominates(u, e)}})

\* or: the admin was created with OR_OP.
MatchEvent(e, or) ==
  CASE ~HasFilters(Admin)                       -> "NoFilters"
    [] HasFilters(Admin) /\ Hits(Admin, e) > 0 -> IF or THEN "OrMatch" ELSE "AndMatch"
    [] OTHER                                     -> IF or THEN "OrFailed" ELSE "not matched"

\* dispatch_event(): how often the event is put into the queue of the proxy.
Copies(e, or) ==
  LET astat == MatchEvent(e, or)
  IN  CASE astat = "not matched" -> 0
        [] astat = "OrMatch"     -> 1
        [] astat \notin {"not matched", "OrMatch"} /\ ~HasFilters(Proxy) ->
             IF astat \in {"NoFilters", "AndMatch"} THEN 1 ELSE 0
        [] OTHER                 -> Hits(Proxy, e)

(***************************************************************************)
(* Properties.                                                             *)
(***************************************************************************)
Constraint == [id : Nat, types : Seq(Types)]
Bag == [Types -> Nat]
Calls ==
  [op : {"idle"}]
    \cup [op : {"notify"}, to : SUBSET Holders, add : Bag, rem : Bag]
    \cup [op : {"add", "remove"}, holder : Holders]
    \cup [op : {"attached", "detached"}, holder : Holders, add : Bag, rem : Bag]
    \cup [op : {"subscribe"}, holder : Holders, added : SUBSET Types, deled : SUBSET Types]

TypeOK ==
  /\ constraints \in Seq(Constraint) /\ all \in Bag /\ dom \subseteq Types
  /\ callbacks \subseteq Holders /\ ids \in Nat /\ filters \subseteq Holders
  /\ rqstypes \in [Holders -> SUBSET Types]
  /\ tmap \in [Holders -> [{"filter", "none"} -> Bag]]
  /\ channel \in Callers \cup {None} /\ lock \in [Holders -> Callers \cup {None}]
  /\ call \in [Callers -> Calls] /\ calls \in Nat

\* What a holder asks for by its subscription or its filter's constraints.
Asks(h, e) ==
  \/ IsDominated(e, rqstypes[h])
  \/ h \in filters /\ \E i \in DOMAIN constraints : IsDominated(e, ToSet(constraints[i].types))

\* Both, or with OR_OP either of those that ask for anything in particular.
Accepted(P(_), or) ==
  LET asking == {h \in Holders : HasFilters(h)}
  IN  IF or THEN asking = {} \/ \E h \in asking : P(h)
      ELSE \A h \in asking : P(h)

\* A type is on its way to the map.
Pending == \E t \in Callers : call[t].op = "notify" /\ call[t].add # Zero

\* Calls and lists for which notify_subscribers_i() may drop a type that is in
\* both of its lists, and _add_ev_type() need not empty deltypes between two
\* types: calls change one constraint, and in a list only the last type can
\* replace others.
OneByOneCalls ==
  /\ MaxListed = 1
  /\ \A list \in TypeLists : \A i \in DOMAIN list : Wild(list[i]) => i = Len(list)

\* An event that admin and proxy ask for is put into the queue of the proxy
\* as soon as the map has heard of all added types, whatever changes of filters
\* and subscriptions and of one constraint at a time came before, also while
\* the map has still to hear of types that were given up.  It is claimed only
\* for constraints and calls that stay clear of the two defects above, with
\* which the code loses a type.
ReachesOneByOne ==
  OneByOneCalls /\ channel = None /\ ~Pending =>
    \A e \in Events, or \in BOOLEAN :
      Accepted(LAMBDA h : Asks(h, e), or) => Copies(e, or) > 0

\* While holders ask by their filter, no event reaches the proxy that the
\* filter does not ask for now, although the map may still hold nodes for
\* types it asked for once: the filter looks at its constraints again.  One
\* without constraints matches everything that is still in the map.
OnlyAsked ==
  channel = None /\ (\A h \in Holders : HasFilters(h) => h \in filters) =>
    \A e \in Events, or \in BOOLEAN :
      Copies(e, or) > 0 => Accepted(LAMBDA h : Asks(h, e) \/ constraints = <<>>, or)

\* Where constraints name a type.
Named(C, ty) == UNION {{c} \X {k \in DOMAIN c.types : c.types[k] = ty} : c \in C}

\* The counts are those of the constraints, and whatever a constraint names is
\* dominated by a type the filter tells its holders.
TablesExact ==
  /\ \A ty \in Types : all[ty] = Cardinality(Named(ToSet(constraints), ty))
  /\ \A ty \in Types : all[ty] > 0 => IsDominated(ty, dom)
  /\ \A ty \in dom : all[ty] > 0
================================================================================
