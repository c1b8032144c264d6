-------------------------- MODULE NetworkHierarchy --------------------------
(***************************************************************************)
(* The referral tree as a viewer sees it: a context with the first levels, *)
(* then pages of siblings that are opened one by one, while members join.  *)
(*                                                                         *)
(* Every request is a REPEATABLE READ transaction of its own, so one       *)
(* request reads one state of the tree but two requests do not.  What      *)
(* holds a view together is the moment it was opened, the snapshotAt that  *)
(* every token carries: a row counts when its joined_at is not later.  A   *)
(* row may nevertheless appear late, when a registration that took its     *)
(* timestamp before that moment commits after it.                          *)
(***************************************************************************)
EXTENDS Integers, FiniteSets

CONSTANTS
  N,         \* memberships 1 .. N, numbered in the order of their ids
  PageSize,  \* siblings on a page
  Budget,    \* nodes of a context
  MaxDepth,  \* levels an administrator may ask for
  MaxTier,   \* levels a member may see below itself
  Window,    \* life of a snapshot and of its tokens
  Searches,  \* sets of members a search may be for
  MaxClock   \* bound: ticks of the clock

ASSUME SizeAssumption ==
  /\ N \in Nat
  /\ {PageSize, MaxDepth, MaxTier} \subseteq Nat \ {0}
  /\ Budget \in Nat \ {0, 1}
  /\ Window \in Nat
ASSUME SearchesAssumption == Searches \subseteq SUBSET (1 .. N)

VARIABLES
  clock,
  joined,    \* committed memberships
  stamp,     \* joined_at
  path,      \* a member, its ancestors and the tenant's root
  sponsor,
  view       \* what one viewer has opened, and has seen

tree == <<joined, stamp, path, sponsor>>
vars == <<clock, tree, view>>

Members == 1 .. N
TenantRoot == 0
Start == 0         \* no cursor: from the first sibling on
Closed == [step |-> "closed"]

(***************************************************************************)
(* The tree and its order, (joined_at, id).                                *)
(***************************************************************************)
Before(a, b) == stamp[a] < stamp[b] \/ (stamp[a] = stamp[b] /\ a < b)

\* The first n of a set of members, and the last of one.
Earliest(n, S) == {m \in S : Cardinality({k \in S : Before(k, m)}) < n}
Latest(S) == IF S = {} THEN Start ELSE CHOOSE m \in S : \A k \in S \ {m} : Before(k, m)

Kids(p, S)  == {m \in S : sponsor[m] = p}
Under(X, S) == {m \in S : path[m] \cap X # {}}

\* Levels of m below a.
Tier(m, a) == Cardinality({k \in path[m] : k = a \/ a \in path[k]}) - 1

\* The rows of a database state that count for the view.
AsOf(S) == {m \in S : stamp[m] <= view.at}

Init ==
  /\ clock = 0
  /\ joined = {}
  /\ stamp = [m \in Members |-> 0]
  /\ path = [m \in Members \cup {TenantRoot} |-> {m}]
  /\ sponsor = [m \in Members |-> TenantRoot]
  /\ view = Closed

Tick ==
  /\ clock < MaxClock
  /\ clock' = clock + 1
  /\ UNCHANGED <<tree, view>>

\* The row of a new member; its joined_at may lie in the past, not before its sponsor's.
Insert(m, p, earliest) ==
  /\ m \notin joined
  /\ joined' = joined \cup {m}
  /\ stamp' \in {[stamp EXCEPT ![m] = t] : t \in earliest .. clock}
  /\ path' = [path EXCEPT ![m] = {m} \cup path[p]]
  /\ sponsor' = [sponsor EXCEPT ![m] = p]
  /\ UNCHANGED <<clock, view>>

\* A registration commits below the member that has invited it.
CreateUnder(m, p) ==
  /\ p \in joined
  /\ Insert(m, p, stamp[p])

\* An administrator enters a team leader, who has no sponsor.
CreateRoot(m) == Insert(m, TenantRoot, 0)

(***************************************************************************)
(* The context.                                                            *)
(***************************************************************************)
\* One level: the first page of every parent, cut to what the budget leaves.
Level(parents, left, S) ==
  LET page == IF left < PageSize THEN left ELSE PageSize
  IN Earliest(left, UNION {Earliest(page, Kids(p, S)) : p \in parents})

\* Levels of rows below the anchor, level by level until the budget is spent.
ContextRows(anchor, levels, budget, S) ==
  LET load[t \in 0 .. levels] ==
        IF t = 0 THEN [rows |-> {}, frontier |-> {anchor}]
        ELSE LET above == load[t - 1]
                 next  == Level(above.frontier, budget - Cardinality(above.rows), S)
             IN [rows |-> above.rows \cup next, frontier |-> next]
  IN load[levels].rows

\* Who is in the tiers a member may look at.
MemberTiers(a, S) == {m \in S : Tier(m, a) \in 1 .. MaxTier}

\* What the first reads of a context leave for the later ones: the moment, the state of
\* the database and what was loaded from it.
Reading(kind, anchor, total, rows) ==
  [step |-> "reading", kind |-> kind, at |-> clock, anchor |-> anchor, db |-> joined,
   total |-> total, rows |-> rows]

\* An administrator's context of the tenant or of the branch of a focus, which is itself
\* its first level and the first node of the budget.
OpenAdminContext(anchor, depth) ==
  /\ view = Closed
  /\ anchor \in joined \cup {TenantRoot}
  /\ LET S == {m \in joined : stamp[m] <= clock}
     IN view' = Reading("admin", anchor, Cardinality(Under({anchor}, S)),
                        IF anchor = TenantRoot THEN ContextRows(anchor, depth, Budget, S)
                        ELSE ContextRows(anchor, depth - 1, Budget - 1, S))
  /\ UNCHANGED <<clock, tree>>

\* A member's context: itself and its visible tiers.
OpenMemberContext(self) ==
  /\ view = Closed
  /\ self \in joined
  /\ LET S == {m \in joined : stamp[m] <= clock}
     IN view' = Reading("member", self, Cardinality(MemberTiers(self, S)) + 1,
                        ContextRows(self, MaxTier, Budget - 1, S))
  /\ UNCHANGED <<clock, tree>>

\* Mutant of Snapshot: a READ COMMITTED transaction sees what has been committed since.
Latecomers == joined

\* The later reads of the transaction see the state its first read has seen.
Snapshot == view.db

\* Loaded members, and those of their recruits that were not loaded.
Loaded  == view.rows \cup ({view.anchor} \ {TenantRoot})
Parents == view.rows \cup {view.anchor}
Rest    == {m \in AsOf(Snapshot) \ Parents : sponsor[m] \in Parents}

\* The context that is answered: every parent with recruits left has a token that goes
\* on after the last one loaded.
Answer(total, represented) ==
  [step |-> "open", kind |-> view.kind, at |-> view.at, anchor |-> view.anchor,
   total |-> total, represented |-> represented,
   tokens |-> {[parent |-> p, after |-> Latest(Kids(p, view.rows))] : p \in {sponsor[m] : m \in Rest}},
   seen |-> [m \in Members |-> IF m \in Loaded THEN 1 ELSE 0],
   promised |-> {m \in view.db : stamp[m] <= view.at}, match |-> Members]

\* A cluster stands for the siblings that were not loaded and the branches below them.
\* The members of the whole tenant are counted last.
FinishAdminContext ==
  /\ view.step = "reading" /\ view.kind = "admin"
  /\ view' = Answer(IF view.anchor = TenantRoot THEN Cardinality(AsOf(Snapshot)) ELSE view.total,
                    Cardinality(Loaded) + Cardinality(Under(Rest, AsOf(Snapshot))))
  /\ UNCHANGED <<clock, tree>>

\* A member's clusters stand for siblings alone, below rows above the last tier; the
\* recruits of the member itself that are left have a cursor instead.
FinishMemberContext ==
  /\ view.step = "reading" /\ view.kind = "member"
  /\ view' = Answer(view.total,
                    Cardinality(Loaded)
                      + Cardinality({m \in MemberTiers(view.anchor, Rest) : sponsor[m] \in view.rows}))
  /\ UNCHANGED <<clock, tree>>

\* A list or a search has no context: its first page is a page like the others.  match
\* stands for the names that fit, taken not to change while the pages are read.
OpenFlat(kind, anchor, match) ==
  /\ view = Closed
  /\ view' = [step |-> "open", kind |-> kind, at |-> clock, anchor |-> anchor,
              total |-> 0, represented |-> 0, tokens |-> {[parent |-> anchor, after |-> Start]},
              seen |-> [m \in Members |-> 0],
              promised |-> {m \in joined : stamp[m] <= clock}, match |-> match]
  /\ UNCHANGED <<clock, tree>>

OpenAdminList(anchor) ==
  /\ anchor \in joined \cup {TenantRoot}
  /\ OpenFlat("list", anchor, Members)

OpenAdminSearch(match) == OpenFlat("search", TenantRoot, match)

OpenDirectSearch(self, match) ==
  /\ self \in joined
  /\ OpenFlat("direct", self, match)

(***************************************************************************)
(* Pages.                                                                  *)
(***************************************************************************)
\* Mutant of PastCursor: the page starts at the cursor's own row.
FromCursor(m, c) == c = Start \/ ~Before(m, c)

\* Mutant of PastCursor: the id is left out of the comparison.
LaterThanCursor(m, c) == c = Start \/ stamp[c] < stamp[m]

PastCursor(m, c) == c = Start \/ Before(c, m)

\* Mutant of MayExpand: any member that was shown may be a parent.
AnyParent(p) == TRUE

\* A member may open itself and its tiers above the last one.
MayExpand(p) == view.anchor \in path[p] /\ Tier(p, view.anchor) < MaxTier

\* A token is bound to its parent, and dies with its snapshot.
Verified(t, p) == t.parent = p /\ clock < view.at + Window

\* The page after a token: what it shows, a token for the rest, and one for every branch
\* on it that is answered as expandable.
Page(t, p, siblings, expandable) ==
  LET left == {m \in siblings : PastCursor(m, t.after)}
      page == Earliest(PageSize, left)
      more == IF page = left THEN {} ELSE {[parent |-> p, after |-> Latest(page)]}
      branches == {[parent |-> m, after |-> Start] : m \in page \cap expandable}
  IN /\ view.step = "open"
     /\ t \in view.tokens
     /\ Verified(t, p)
     /\ view' = [view EXCEPT
                   !.tokens = (@ \ {t}) \cup more \cup branches,
                   !.seen   = [m \in Members |-> @[m] + IF m \in page THEN 1 ELSE 0]]
     /\ UNCHANGED <<clock, tree>>

Expandable == {m \in Members : Kids(m, AsOf(joined)) # {}}

\* The recruits of a member, or the members without a sponsor.
NextBranchPage(t, p) ==
  /\ view.step = "open" /\ view.kind = "admin"
  /\ Page(t, p, Kids(p, AsOf(joined)), Expandable)

\* The same for a member, who holds a reference to every node that was shown.
NextMemberPage(t, p) ==
  /\ view.step = "open" /\ view.kind = "member"
  /\ MayExpand(p)
  /\ Page(t, p, Kids(p, AsOf(joined)), Expandable)

NextListPage(t, p) ==
  /\ view.step = "open" /\ view.kind = "list"
  /\ Page(t, p, Under({p}, AsOf(joined)), {})

NextSearchPage(t, p) ==
  /\ view.step = "open" /\ view.kind = "search"
  /\ Page(t, p, AsOf(joined) \cap view.match, {})

NextDirectSearchPage(t, p) ==
  /\ view.step = "open" /\ view.kind = "direct"
  /\ Page(t, p, Kids(p, AsOf(joined)) \cap view.match, {})

\* The viewer leaves the view; its tokens are never used again.
Close ==
  /\ view.step = "open"
  /\ view' = Closed
  /\ UNCHANGED <<clock, tree>>

Next ==
  \/ Tick
  \/ \E m \in Members : CreateRoot(m) \/ \E p \in Members : CreateUnder(m, p)
  \/ \E a \in Members \cup {TenantRoot} :
       \/ \E d \in 1 .. MaxDepth : OpenAdminContext(a, d)
       \/ OpenMemberContext(a)
       \/ OpenAdminList(a)
       \/ \E S \in Searches : OpenDirectSearch(a, S)
  \/ \E S \in Searches : OpenAdminSearch(S)
  \/ FinishAdminContext \/ FinishMemberContext
  \/ view.step = "open" /\ \E t \in view.tokens, p \in Members \cup {TenantRoot} :
       \/ NextBranchPage(t, p) \/ NextMemberPage(t, p)
       \/ NextListPage(t, p) \/ NextSearchPage(t, p) \/ NextDirectSearchPage(t, p)
  \/ Close

Spec == Init /\ [][Next]_vars

(***************************************************************************)
(* Properties.                                                             *)
(***************************************************************************)
\* The branch a viewer has asked for, as deep as the viewer may look.
InScope(m) ==
  /\ view.anchor \in path[m]
  /\ view.kind \in {"admin", "member"} \/ m \in view.match
  /\ view.kind = "member" => m = view.anchor \/ Tier(m, view.anchor) \in 1 .. MaxTier
  /\ view.kind = "direct" => sponsor[m] = view.anchor

\* The counts of a context add up although several statements read them: what an
\* administrator's nodes and clusters stand for is everybody, and a member that is told
\* the same has no page of recruits left that no cluster counts.
ContextIsComplete ==
  view.step = "open" =>
    /\ view.kind = "admin" => view.represented = view.total
    /\ view.kind = "member" /\ view.represented = view.total
         => \A t \in view.tokens : t.parent # view.anchor

\* However many members join between two requests, the pages of a view never show a
\* member twice.
NobodyShownTwice == view.step = "open" => \A m \in Members : view.seen[m] <= 1

\* And nobody is lost: whoever had joined when the view was opened has been shown, or is
\* in a branch that one of the tokens in the viewer's hands still leads to.
NobodyMissing ==
  view.step = "open" =>
    \A m \in view.promised :
      InScope(m) =>
        \/ view.seen[m] > 0
        \/ \E t \in view.tokens : \E a \in path[m] \ {TenantRoot} :
             /\ t.after = Start \/ Before(t.after, a)
             /\ IF view.kind \in {"list", "search"} THEN a = m ELSE sponsor[a] = t.parent

\* A view stays the view of its moment and of its viewer: nobody who joined later is
\* shown, nobody outside the branch, and no member is shown anyone below its last tier.
ShownInScope ==
  view.step = "open" =>
    \A m \in Members : view.seen[m] > 0 => stamp[m] <= view.at /\ InScope(m)
=============================================================================
