---------------------------- MODULE WebTabProofs ----------------------------
(***************************************************************************)
(* What every step of the tab, of the API and of the others keeps: types,  *)
(* who waits for which fetch, and that what the dashboard, the team panel  *)
(* and the administrator's page show belongs to the token in use.          *)
(***************************************************************************)
EXTENDS WebTypeProofs

-----------------------------------------------------------------------------
(* The server's tables and the page. *)

ServerOK ==
    /\ docs \subseteq Docs /\ templates \subseteq Templates
    /\ rows \subseteq Extractions!AnyRow /\ serial \in 0 .. MaxRows
    /\ staff \in Team!Accounts /\ orgs \in [Orgs -> AdminPanel!Settings]

\* The dashboard knows the user of its token.
PagesOK ==
    /\ PagesMatchToken
    /\ InDashboard => user \in Profiles /\ user.user = token.user

TabInv == UiOK(ui) /\ CallsOK /\ Managed /\ ServerOK /\ PagesOK

-----------------------------------------------------------------------------
(* Pages and panels come and go. *)

LEMMA FirstFetch ==
    ASSUME NEW t \in Tokens, NEW by, NEW then, NEW op, NEW arg,
           OpFits(then, op), ArgFits(op, arg), KeptFits(then, arg, None)
    PROVE  IsFetch([by |-> by, then |-> then, op |-> op, arg |-> arg, kept |-> None,
                    as |-> t, state |-> "sent", data |-> None])
  BY DEF IsFetch

\* A fetch that a new component sends.
IsFirst(c, by, view) ==
    /\ IsFetch(c) /\ c.by = by /\ c.then \in Thens(view) \ {"gone"}
    /\ c.then \notin {"handleToggle", "handleQuotaSave"}

FirstThen == [documents |-> "fetchDocs", search |-> "DocumentSelector",
              extract |-> "fetchAll", compare |-> "compare: documents",
              ai |-> "DocumentSelector", team |-> "load"]

\* Each panel sends one request when it is mounted.
LEMMA PanelEffect ==
    ASSUME token \in Tokens, NEW view \in Panels, NEW by
    PROVE  \E c : /\ EffectOf(view, by) = <<c>> /\ IsFirst(c, by, view)
                  /\ c.as = token /\ c.then = FirstThen[view] /\ c.state = "sent"
<1> DEFINE Goal == \E c : /\ EffectOf(view, by) = <<c>> /\ IsFirst(c, by, view)
                          /\ c.as = token /\ c.then = FirstThen[view]
                          /\ c.state = "sent"
<1>1. ASSUME NEW then, NEW op,
             EffectOf(view, by) = << Call(by, then, op, None, None) >>,
             OpFits(then, op), ArgFits(op, None), KeptFits(then, None, None),
             then \in Thens(view), then = FirstThen[view],
             then \notin {"gone", "handleToggle", "handleQuotaSave"}
      PROVE  Goal
  <2> DEFINE c == Call(by, then, op, None, None)
  <2>1. IsFetch(c)
    BY <1>1, FirstFetch DEF Call
  <2>2. /\ c.by = by /\ c.then = then /\ c.as = token /\ c.state = "sent"
    BY DEF Call
  <2> HIDE DEF c
  <2>3. IsFirst(c, by, view)
    BY <1>1, <2>1, <2>2 DEF IsFirst
  <2>4. EffectOf(view, by) = <<c>>
    BY <1>1 DEF c
  <2> QED
    BY <1>1, <2>2, <2>3, <2>4
<1>2. CASE view = "documents"
  <2>1. EffectOf(view, by) = << Call(by, "fetchDocs", "GET documents", None, None) >>
    BY <1>2 DEF EffectOf, List!Effect, List!Call, Call
  <2>2. /\ OpFits("fetchDocs", "GET documents") /\ ArgFits("GET documents", None)
        /\ KeptFits("fetchDocs", None, None)
    BY DEF OpFits, ArgFits, KeptFits
  <2>3. "fetchDocs" \in Thens(view) /\ "fetchDocs" = FirstThen[view]
    BY <1>2 DEF Thens, FirstThen
  <2> QED
    BY <1>1, <2>1, <2>2, <2>3
<1>3. CASE view = "search"
  <2>1. EffectOf(view, by)
          = << Call(by, "DocumentSelector", "GET documents", None, None) >>
    BY <1>3 DEF EffectOf, SearchPanel!Effect, SearchPanel!SelectorEffect,
                SearchPanel!Call, Call
  <2>2. /\ OpFits("DocumentSelector", "GET documents") /\ ArgFits("GET documents", None)
        /\ KeptFits("DocumentSelector", None, None)
    BY DEF OpFits, ArgFits, KeptFits
  <2>3. "DocumentSelector" \in Thens(view) /\ "DocumentSelector" = FirstThen[view]
    BY <1>3 DEF Thens, FirstThen
  <2> QED
    BY <1>1, <2>1, <2>2, <2>3
<1>4. CASE view = "extract"
  <2>1. EffectOf(view, by) = << Call(by, "fetchAll", "GET all", None, None) >>
    BY <1>4 DEF EffectOf, Extractions!Effect, Extractions!Call, Call
  <2>2. /\ OpFits("fetchAll", "GET all") /\ ArgFits("GET all", None)
        /\ KeptFits("fetchAll", None, None)
    BY DEF OpFits, ArgFits, KeptFits, AnyRange
  <2>3. "fetchAll" \in Thens(view) /\ "fetchAll" = FirstThen[view]
    BY <1>4 DEF Thens, FirstThen
  <2> QED
    BY <1>1, <2>1, <2>2, <2>3
<1>5. CASE view = "compare"
  <2>1. EffectOf(view, by)
          = << Call(by, "compare: documents", "GET documents", None, None) >>
    BY <1>5 DEF EffectOf, Comparison!Effect, Comparison!Call, Call
  <2>2. /\ OpFits("compare: documents", "GET documents") /\ ArgFits("GET documents", None)
        /\ KeptFits("compare: documents", None, None)
    BY DEF OpFits, ArgFits, KeptFits
  <2>3. "compare: documents" \in Thens(view) /\ "compare: documents" = FirstThen[view]
    BY <1>5 DEF Thens, FirstThen
  <2> QED
    BY <1>1, <2>1, <2>2, <2>3
<1>6. CASE view = "ai"
  <2>1. EffectOf(view, by)
          = << Call(by, "DocumentSelector", "GET documents", None, None) >>
    BY <1>6 DEF EffectOf, Chat!Effect, Chat!SelectorEffect, Chat!Call, Call
  <2>2. /\ OpFits("DocumentSelector", "GET documents") /\ ArgFits("GET documents", None)
        /\ KeptFits("DocumentSelector", None, None)
    BY DEF OpFits, ArgFits, KeptFits
  <2>3. "DocumentSelector" \in Thens(view) /\ "DocumentSelector" = FirstThen[view]
    BY <1>6 DEF Thens, FirstThen
  <2> QED
    BY <1>1, <2>1, <2>2, <2>3
<1>7. CASE view = "team"
  <2>1. EffectOf(view, by) = << Call(by, "load", "GET users", None, None) >>
    BY <1>7 DEF EffectOf, Team!Effect, Team!Call, Call
  <2>2. /\ OpFits("load", "GET users") /\ ArgFits("GET users", None)
        /\ KeptFits("load", None, None)
    BY DEF OpFits, ArgFits, KeptFits
  <2>3. "load" \in Thens(view) /\ "load" = FirstThen[view]
    BY <1>7 DEF Thens, FirstThen
  <2> QED
    BY <1>1, <2>1, <2>2, <2>3
<1> QED
  BY <1>2, <1>3, <1>4, <1>5, <1>6, <1>7 DEF Panels

LEMMA PanelFresh ==
    ASSUME NEW view \in Panels, NEW profile,
           view = "team" => profile \in Profiles
    PROVE  /\ UiOK(FreshOf(view, profile)) /\ FreshOf(view, profile).view = view
           /\ view = "team" => FreshOf(view, profile).as = profile
<1>1. CASE view = "documents"
  BY <1>1 DEF FreshOf, UiOK, List!Fresh, List!States
<1>2. CASE view = "search"
  BY <1>2 DEF FreshOf, UiOK, SearchPanel!Fresh, SearchPanel!States
<1>3. CASE view = "extract"
  BY <1>3 DEF FreshOf, UiOK, Extractions!Fresh, Extractions!States
<1>4. CASE view = "compare"
  BY <1>4 DEF FreshOf, UiOK, Comparison!Fresh, Comparison!States
<1>5. CASE view = "ai"
  <2>1. << >> \in Seq(Chat!Speakers)
    OBVIOUS
  <2> QED
    BY <1>5, <2>1 DEF FreshOf, UiOK, Chat!Fresh, Chat!States
<1>6. CASE view = "team"
  BY <1>6 DEF FreshOf, UiOK, Team!Fresh, Team!States, Profiles, Team!Accounts,
              Team!Roles, Roles
<1> QED
  BY <1>1, <1>2, <1>3, <1>4, <1>5, <1>6 DEF Panels

\* What InTab says of a tab with this mount, token and view.
Belongs(c, m, t, view) ==
    /\ c.by \in 0 .. m
    /\ c.by = 0 <=> c.then = "gone"
    /\ c.then # "gone" => c.as = t
    /\ c.by = m => c.then \in Thens(view) \cup {"handleLogout"}

LEMMA CallsBelong ==
    ASSUME mount' \in Nat \ {0}, token' \in Tokens, IsSeq(calls'),
           \A k \in DOMAIN calls' :
              IsFetch(calls'[k]) /\ Belongs(calls'[k], mount', token', ui'.view)
    PROVE  CallsOK'
  BY DEF CallsOK, GoodCalls, InTab, Belongs

\* One component takes the place of another: the fetches of the old one are still
\* there, and not its own; the new one has sent c.
LEMMA Mounted ==
    ASSUME CallsOK, mount' = mount + 1, token' = token,
           NEW base, IsSeq(base),
           \A k \in DOMAIN base : \E j \in DOMAIN calls : base[k] = calls[j],
           NEW c, IsFirst(c, mount + 1, ui'.view), c.as = token,
           calls' = base \o <<c>>
    PROVE  /\ CallsOK' /\ Managed'
           /\ \A k \in DOMAIN calls' : calls'[k].by = mount' => calls'[k] = c
<1>1. /\ IsSeq(<<c>>) /\ DOMAIN <<c>> = {1} /\ <<c>>[1] = c
  BY SeqShort, SeqFacts
<1>2. /\ IsSeq(calls')
      /\ \A k \in DOMAIN calls' :
            calls'[k] = IF k \in DOMAIN base THEN base[k] ELSE <<c>>[k - Len(base)]
      /\ \A k \in DOMAIN calls' : k \in DOMAIN base \/ k - Len(base) \in DOMAIN <<c>>
  BY <1>1, SeqJoined
<1>3. \A k \in DOMAIN calls' : calls'[k] = c \/ \E j \in DOMAIN calls : calls'[k] = calls[j]
  BY <1>1, <1>2
<1>4. \A j \in DOMAIN calls : IsFetch(calls[j]) /\ InTab(calls[j])
  BY DEF CallsOK, GoodCalls
<1>5. mount \in Nat \ {0} /\ mount' \in Nat \ {0}
  BY DEF CallsOK
<1>6. \A d : InTab(d) => Belongs(d, mount', token', ui'.view) /\ d.by # mount'
  BY <1>5 DEF InTab, Belongs
<1>7. IsFetch(c) /\ Belongs(c, mount', token', ui'.view)
  BY <1>5 DEF Belongs, IsFirst
<1>8. \A k \in DOMAIN calls' :
         IsFetch(calls'[k]) /\ Belongs(calls'[k], mount', token', ui'.view)
  BY <1>3, <1>4, <1>6, <1>7
<1>9. CallsOK'
  <2>1. token' \in Tokens
    BY DEF CallsOK
  <2> QED
    BY <1>2, <1>5, <1>8, <2>1, CallsBelong
<1>10. \A k \in DOMAIN calls' : calls'[k].by = mount' => calls'[k] = c
  BY <1>3, <1>4, <1>6
<1>11. Managed'
  BY <1>10 DEF Managed, Own, IsFirst
<1> QED
  BY <1>9, <1>10, <1>11

Opening(m, t, then, op) ==
    [by |-> m, then |-> then, op |-> op, arg |-> None, kept |-> None, as |-> t,
     state |-> "sent", data |-> None]

\* What a page sends, if anything, is good.
IsEffect(effect, m, t, view) ==
    /\ IsSeq(effect)
    /\ \A k \in DOMAIN effect :
          /\ IsFetch(effect[k]) /\ Belongs(effect[k], m, t, view)
          /\ effect[k].then \notin {"handleToggle", "handleQuotaSave"}

LEMMA NoEffect ==
    ASSUME NEW m, NEW t, NEW view
    PROVE  IsEffect(<< >>, m, t, view)
  BY SeqShort DEF IsEffect

LEMMA DashboardEffect ==
    ASSUME NEW m \in Nat \ {0}, NEW t \in Tokens
    PROVE  IsEffect(<< Opening(m, t, "dashboard", "GET me") >>, m, t, "dashboard")
<1> DEFINE c == Opening(m, t, "dashboard", "GET me")
<1>1. IsFetch(c)
  BY FirstFetch DEF OpFits, ArgFits, KeptFits, Opening
<1>2. Belongs(c, m, t, "dashboard") /\ c.then = "dashboard"
  BY DEF Belongs, Opening, Thens
<1> HIDE DEF c
<1>3. IsSeq(<<c>>) /\ Len(<<c>>) = 1 /\ <<c>>[1] = c
  BY SeqShort
<1>4. DOMAIN <<c>> = {1}
  BY <1>3, SeqFacts
<1>5. IsEffect(<<c>>, m, t, "dashboard")
  BY <1>1, <1>2, <1>3, <1>4 DEF IsEffect
<1> QED
  BY <1>5 DEF c

LEMMA AdminEffect ==
    ASSUME NEW m \in Nat \ {0}, NEW t \in Tokens
    PROVE  IsEffect(<< Opening(m, t, "admin: getMe", "GET platform-admin/me"),
                       Opening(m, t, "admin: loadOrgs", "GET orgs") >>, m, t, "admin")
<1> DEFINE c == Opening(m, t, "admin: getMe", "GET platform-admin/me")
           d == Opening(m, t, "admin: loadOrgs", "GET orgs")
<1>1. IsFetch(c)
  BY FirstFetch DEF OpFits, ArgFits, KeptFits, Opening
<1>2. Belongs(c, m, t, "admin") /\ c.then = "admin: getMe"
  BY DEF Belongs, Opening, Thens
<1>3. IsFetch(d)
  BY FirstFetch DEF OpFits, ArgFits, KeptFits, Opening
<1>7. Belongs(d, m, t, "admin") /\ d.then = "admin: loadOrgs"
  BY DEF Belongs, Opening, Thens
<1> HIDE DEF c, d
<1>4. /\ IsSeq(<<c, d>>) /\ Len(<<c, d>>) = 2
      /\ <<c, d>>[1] = c /\ <<c, d>>[2] = d
  BY SeqShort
<1>5. DOMAIN <<c, d>> = 1 .. 2
  BY <1>4, SeqFacts
<1>8. \A k \in DOMAIN <<c, d>> : <<c, d>>[k] = c \/ <<c, d>>[k] = d
  <2>1. \A k \in 1 .. 2 : k = 1 \/ k = 2
    OBVIOUS
  <2> QED
    BY <1>4, <1>5, <2>1
<1>6. IsEffect(<<c, d>>, m, t, "admin")
  BY <1>1, <1>2, <1>3, <1>4, <1>7, <1>8 DEF IsEffect
<1> QED
  BY <1>6 DEF c, d

\* A page is loaded: nobody waits for what was sent before.
LEMMA PageLoaded ==
    ASSUME CallsOK, token' \in Tokens,
           NEW view \in {"dashboard", "login", "register", "admin"}, Load(view)
    PROVE  /\ UiOK(ui)' /\ CallsOK' /\ Managed' /\ PagesOK'
<1>1. mount \in Nat \ {0} /\ mount' = mount + 1 /\ mount' \in Nat \ {0}
  BY DEF CallsOK, Load
<1>2. UiOK(ui)' /\ ui'.view = view /\ (view = "admin" => ui'.orgs = None)
  <2>1. CASE view = "admin"
    BY <2>1 DEF Load, FreshOf, UiOK, AdminPanel!Fresh, AdminPanel!States
  <2>2. CASE view # "admin"
    BY <2>2 DEF Load, FreshOf, UiOK, Page
  <2> QED
    BY <2>1, <2>2
<1> DEFINE effect == EffectOf(view, mount)'
<1>3. \/ effect = << >>
      \/ view = "dashboard" /\ effect = << Opening(mount', token', "dashboard", "GET me") >>
      \/ /\ view = "admin"
         /\ effect = << Opening(mount', token', "admin: getMe", "GET platform-admin/me"),
                        Opening(mount', token', "admin: loadOrgs", "GET orgs") >>
  BY DEF EffectOf, Call, AdminPanel!Effect, AdminPanel!Call, Opening
<1>4. IsEffect(effect, mount', token', view)
  <2> HIDE DEF effect
  <2> QED
    BY <1>1, <1>3, NoEffect, DashboardEffect, AdminEffect
<1>5. /\ IsSeq(Abandoned) /\ DOMAIN Abandoned = DOMAIN calls
      /\ \A k \in DOMAIN calls : Abandoned[k] = Orphan(calls[k])
  <2>1. Len(calls) \in Nat /\ DOMAIN calls = 1 .. Len(calls)
    BY SeqFacts DEF CallsOK, GoodCalls
  <2>2. Abandoned \in Seq({Orphan(calls[k]) : k \in DOMAIN calls})
    BY <2>1 DEF Abandoned
  <2> QED
    BY <2>2 DEF Abandoned, IsSeq
<1>6. \A k \in DOMAIN calls :
         /\ IsFetch(Orphan(calls[k])) /\ Belongs(Orphan(calls[k]), mount', token', view)
         /\ Orphan(calls[k]).by = 0
  <2> SUFFICES ASSUME NEW k \in DOMAIN calls
               PROVE  /\ IsFetch(Orphan(calls[k])) /\ Orphan(calls[k]).by = 0
                      /\ Belongs(Orphan(calls[k]), mount', token', view)
    OBVIOUS
  <2>1. IsFetch(calls[k])
    BY DEF CallsOK, GoodCalls
  <2>2. IsFetch(Orphan(calls[k]))
    BY <2>1 DEF IsFetch, Orphan, OpFits, KeptFits
  <2> QED
    BY <1>1, <2>2 DEF Orphan, Belongs
<1>7. /\ IsSeq(calls')
      /\ \A k \in DOMAIN calls' :
            \/ \E j \in DOMAIN calls : calls'[k] = Orphan(calls[j])
            \/ \E j \in DOMAIN effect : calls'[k] = effect[j]
  <2>1. calls' = Abandoned \o effect
    BY DEF Load
  <2> HIDE DEF effect
  <2> QED
    BY <1>4, <1>5, <2>1, SeqJoined DEF IsEffect
<1> HIDE DEF effect
<1>8. \A k \in DOMAIN calls' :
         /\ IsFetch(calls'[k]) /\ Belongs(calls'[k], mount', token', view)
         /\ calls'[k].by = mount' =>
                calls'[k].then \notin {"handleToggle", "handleQuotaSave"}
  BY <1>1, <1>4, <1>6, <1>7 DEF IsEffect
<1>9. CallsOK'
  BY <1>1, <1>2, <1>7, <1>8, CallsBelong
<1>10. Managed'
  BY <1>8 DEF Managed, Own
<1>11. PagesOK'
  BY <1>2 DEF PagesOK, PagesMatchToken, InDashboard, Panels
<1> QED
  BY <1>2, <1>9, <1>10, <1>11
-----------------------------------------------------------------------------
(* What stays when the component does. *)

LEMMA ServerKept ==
    ASSUME ServerOK, UNCHANGED server
    PROVE  ServerOK'
  BY DEF ServerOK, server

LEMMA PagesKept ==
    ASSUME PagesOK, Stays, user' = user,
           ui.view = "team" => ui'.as = ui.as,
           (ui.view = "admin" /\ ui'.orgs # None)
               => ui.orgs # None \/ (token # None /\ token.account = "admin")
    PROVE  PagesOK'
  BY DEF PagesOK, PagesMatchToken, InDashboard, Stays

LEMMA ManagedKept ==
    ASSUME Managed, Stays, ui.view = "admin" => ui'.orgs = ui.orgs,
           \A k \in DOMAIN calls' : calls'[k].by = mount =>
               \/ calls'[k].then \notin {"handleToggle", "handleQuotaSave"}
               \/ \E j \in DOMAIN calls : /\ calls[j].by = mount
                                          /\ calls[j].then = calls'[k].then
    PROVE  Managed'
  BY DEF Managed, Stays, Own

\* A component of its own, for every continuation of a panel: what waited for
\* call i returns, waits for another answer or takes one more part of this one.
Reads(i) ==
    /\ calls[i].op = "GET all" /\ IsOk(i)
    /\ \E data \in Everything : calls' = [calls EXCEPT ![i].data = data]

Goes(i) ==
    \/ Return(i) \/ Reads(i)
    \/ \E then, op, arg, kept : ThenFetch(i, then, op, arg, kept)

LEMMA ContinueGoes ==
    ASSUME CallsOK, NEW i \in DOMAIN calls, ContinuePanel(i)
    PROVE  /\ mount' = mount /\ token' = token
           /\ \/ calls[i].by = mount
              \/ ui' = ui /\ Goes(i)
<1> DEFINE Goal == /\ mount' = mount /\ token' = token
                   /\ \/ calls[i].by = mount
                      \/ ui' = ui /\ Goes(i)
<1>0. ASSUME NEW new, SetState(i, new)
      PROVE  calls[i].by = mount \/ ui' = ui
  BY <1>0 DEF SetState
<1>1. CASE List!Continue(i)
  <2>1. /\ \E new : SetState(i, new)
        /\ mount' = mount /\ token' = token /\ Goes(i)
    BY <1>1, ListShared
       DEF List!Continue, List!FetchDocs, List!BulkActionDone, List!BulkDeleteDone,
           List!DeletedLoaded, Goes
  <2> QED
    BY <1>0, <2>1
<1>2. CASE Viewer!Continue(i)
  <2>1. /\ \E new : SetState(i, new)
        /\ mount' = mount /\ token' = token /\ Goes(i)
    BY <1>2, ViewerShared
       DEF Viewer!Continue, Viewer!Load, Viewer!Exported, Viewer!Answered, Goes
  <2> QED
    BY <1>0, <2>1
<1>3. CASE SearchPanel!Continue(i)
  <2>1. /\ \E new : SetState(i, new)
        /\ mount' = mount /\ token' = token /\ Goes(i)
    BY <1>3, SearchShared
       DEF SearchPanel!Continue, SearchPanel!SelectorLoaded, SearchPanel!Headers,
           SearchPanel!Failed, SearchPanel!Results, Goes
  <2> QED
    BY <1>0, <2>1
<1>4. CASE Chat!Headers(i) \/ Chat!Failed(i) \/ Chat!Answered(i)
  <2>1. /\ \E new : SetState(i, new)
        /\ mount' = mount /\ token' = token /\ Goes(i)
    BY <1>4, ChatShared DEF Chat!Headers, Chat!Failed, Chat!Answered, Goes
  <2> QED
    BY <1>0, <2>1
<1>5. CASE Comparison!Continue(i)
  <2>1. /\ \E new : SetState(i, new)
        /\ mount' = mount /\ token' = token /\ Goes(i)
    BY <1>5, ComparisonShared
       DEF Comparison!Continue, Comparison!DocsLoaded, Comparison!Compared, Goes
  <2> QED
    BY <1>0, <2>1
<1>6. CASE Team!Continue(i)
  <2>1. /\ (\E new : SetState(i, new)) \/ ui' = ui
        /\ mount' = mount /\ token' = token /\ Goes(i)
    BY <1>6, TeamShared
       DEF Team!Continue, Team!Load, Team!Created, Team!CreatedLoaded, Team!Patched, Goes
  <2> QED
    BY <1>0, <2>1
<1>7. CASE AdminPanel!Continue(i)
  <2>1. /\ (\E new : SetState(i, new)) \/ ui' = ui
        /\ mount' = mount /\ token' = token /\ Goes(i)
    BY <1>7, AdminShared
       DEF AdminPanel!Continue, AdminPanel!OrgsLoaded, AdminPanel!AdminKnown,
           AdminPanel!Toggled, AdminPanel!QuotaSaved, AdminPanel!DocumentsShown, Goes
  <2> QED
    BY <1>0, <2>1
<1>8. CASE Extractions!Continue(i)
  <2>1. CASE Extractions!LoopEnds(i)
    <3>1. /\ SetState(i, [ui EXCEPT !.filter = None])
          /\ mount' = mount /\ token' = token
      BY <2>1, ExtractionsShared DEF Extractions!LoopEnds
    <3>2. CASE calls[i].by = mount
      BY <3>1, <3>2
    <3>3. CASE calls[i].by # mount
      <4>1. ui' = ui
        BY <3>1, <3>3 DEF SetState
      <4> DEFINE own == Call(calls[i].by, "handleExtract: fetchAll", "GET all",
                             calls[i].kept.filter, Extractions!After(i))
      <4>2. calls' = [calls EXCEPT ![i] = own] \o << >>
        BY <2>1, <4>1 DEF Extractions!LoopEnds, Extractions!Call, Call
      <4>3. PICK S : [calls EXCEPT ![i] = own] \in Seq(S)
        BY SeqReplaced DEF CallsOK, GoodCalls, IsSeq
      <4> HIDE DEF own
      <4>4. calls' = [calls EXCEPT ![i] = own]
        BY <4>2, <4>3, ConcatEmptySeq
      <4>5. ThenFetch(i, "handleExtract: fetchAll", "GET all", calls[i].kept.filter,
                      Extractions!After(i))
        BY <4>4 DEF ThenFetch, own
      <4> QED
        BY <3>1, <4>1, <4>5 DEF Goes
    <3> QED
      BY <3>2, <3>3
  <2>2. CASE Extractions!ReadOn(i)
    <3>1. /\ \E new : SetState(i, new)
          /\ mount' = mount /\ token' = token /\ Reads(i)
      BY <2>2, ReadOnReads DEF Reads
    <3> QED
      BY <1>0, <3>1 DEF Goes
  <2>3. CASE ~Extractions!LoopEnds(i) /\ ~Extractions!ReadOn(i)
    <3>1. /\ (\E new : SetState(i, new)) \/ ui' = ui
          /\ mount' = mount /\ token' = token /\ Goes(i)
      BY <1>8, <2>3, ExtractionsShared
         DEF Extractions!Continue, Extractions!FetchAllDone, Extractions!NextDoc,
             Extractions!RunDone, Extractions!BulkDeleted, Extractions!BulkDeleteDone,
             Extractions!ExtractionDeleted, Extractions!TemplateDeleted,
             Extractions!ExportDone, Extractions!FormSaved, Goes
    <3> QED
      BY <1>0, <3>1
  <2> QED
    BY <2>1, <2>2, <2>3
<1> QED
  BY <1>1, <1>2, <1>3, <1>4, <1>5, <1>6, <1>7, <1>8 DEF ContinuePanel

\* What is somebody else's goes on without touching the fetches of the mounted
\* component.
LEMMA ForeignGoes ==
    ASSUME CallsOK, NEW i \in DOMAIN calls, calls[i].by # mount, Goes(i)
    PROVE  \A k \in DOMAIN calls' : calls'[k].by = mount =>
               \E j \in DOMAIN calls \ {i} : calls'[k] = calls[j]
<1>1. CASE Return(i)
  BY <1>1, ReturnLeaves
<1>2. ASSUME NEW then, NEW op, NEW arg, NEW kept, ThenFetch(i, then, op, arg, kept)
      PROVE  \A k \in DOMAIN calls' : calls'[k].by = mount =>
                 \E j \in DOMAIN calls \ {i} : calls'[k] = calls[j]
  <2> DEFINE c == Call(calls[i].by, then, op, arg, kept)
  <2>1. c.by # mount
    BY DEF Call
  <2>2. calls' = [calls EXCEPT ![i] = c]
    BY <1>2 DEF ThenFetch
  <2> HIDE DEF c
  <2>3. /\ DOMAIN calls' = DOMAIN calls
        /\ \A k \in DOMAIN calls : calls'[k] = IF k = i THEN c ELSE calls[k]
    BY <2>2, SeqReplaced DEF CallsOK, GoodCalls
  <2> QED
    BY <2>1, <2>3
<1>3. CASE Reads(i)
  <2>1. PICK data : calls' = [calls EXCEPT ![i].data = data]
    BY <1>3 DEF Reads
  <2>2. /\ DOMAIN calls' = DOMAIN calls /\ calls'[i].by = calls[i].by
        /\ \A k \in DOMAIN calls \ {i} : calls'[k] = calls[k]
    BY <2>1 DEF CallsOK, GoodCalls, IsFetch
  <2> QED
    BY <2>2
<1> QED
  BY <1>1, <1>2, <1>3 DEF Goes

LEMMA ContinuePanelOK ==
    ASSUME TabInv, NEW i \in DOMAIN calls, ContinuePanel(i),
           UNCHANGED <<server, user, budget>>
    PROVE  TabInv'
<1>1. UiOK(ui) /\ CallsOK /\ Managed /\ PagesOK /\ ServerOK' /\ user' = user
  BY ServerKept DEF TabInv
<1>2. UiOK(ui)' /\ CallsOK' /\ Stays
  <2>1. CASE \/ List!Continue(i) \/ Viewer!Continue(i) \/ SearchPanel!Continue(i)
             \/ Chat!Headers(i) \/ Chat!Failed(i) \/ Chat!Answered(i)
             \/ Comparison!Continue(i) \/ Extractions!Continue(i)
    BY <1>1, <2>1, ListContinue, ViewerContinue, SearchContinue, ChatContinue,
       ComparisonContinue, ExtractionsContinue
  <2>2. CASE Team!Continue(i) \/ AdminPanel!Continue(i)
    BY <1>1, <2>2, TeamContinue, AdminContinue
  <2> QED
    BY <2>1, <2>2 DEF ContinuePanel
<1>3. CASE calls[i].by # mount
  <2>1. ui' = ui /\ Goes(i)
    BY <1>1, <1>3, ContinueGoes
  <2>2. Managed'
    BY <1>1, <1>2, <1>3, <2>1, ForeignGoes, ManagedKept
  <2>3. PagesOK'
    BY <1>1, <1>2, <2>1, PagesKept
  <2> QED
    BY <1>1, <1>2, <2>2, <2>3 DEF TabInv
<1>4. CASE calls[i].by = mount
  <2>0. calls[i].then \in Thens(ui.view) \cup {"handleLogout"}
    BY <1>1, <1>4 DEF CallsOK, GoodCalls, InTab
  <2>1. CASE Team!Continue(i)
    <3>1. ui.view = "team"
      <4>1. calls[i].then \in {"load", "handleCreate", "handleCreate: load", "patchUser"}
        BY <2>1 DEF Team!Continue, Team!Load, Team!Created, Team!CreatedLoaded,
                    Team!Patched, Team!Awaited
      <4> QED
        BY <2>0, <4>1 DEF Thens
    <3>2. ui'.as = ui.as
      BY <1>1, <2>1, TeamContinue
    <3>3. PagesOK'
      BY <1>1, <1>2, <3>1, <3>2, PagesKept
    <3>4. Managed'
      BY <1>2, <3>1 DEF Managed, Stays
    <3> QED
      BY <1>1, <1>2, <3>3, <3>4 DEF TabInv
  <2>2. CASE AdminPanel!Continue(i)
    <3>1. ui.view = "admin"
      <4>1. calls[i].then \in {"admin: getMe", "admin: loadOrgs", "handleToggle",
                               "handleQuotaSave", "toggleDocuments"}
        BY <2>2 DEF AdminPanel!Continue, AdminPanel!OrgsLoaded, AdminPanel!AdminKnown,
                    AdminPanel!Toggled, AdminPanel!QuotaSaved,
                    AdminPanel!DocumentsShown, AdminPanel!Awaited
      <4> QED
        BY <2>0, <4>1 DEF Thens
    <3>2. /\ Managed'
          /\ ui'.orgs # None
                => ui.orgs # None \/ (token # None /\ token.account = "admin")
      BY <1>1, <2>2, <3>1, AdminContinue
    <3>3. PagesOK'
      BY <1>1, <1>2, <3>1, <3>2, PagesKept
    <3> QED
      BY <1>1, <1>2, <3>2, <3>3 DEF TabInv
  <2>3. CASE \/ List!Continue(i) \/ Viewer!Continue(i) \/ SearchPanel!Continue(i)
             \/ Chat!Headers(i) \/ Chat!Failed(i) \/ Chat!Answered(i)
             \/ Comparison!Continue(i) \/ Extractions!Continue(i)
    <3>1. calls[i].then \notin Thens("team") \cup Thens("admin") \cup {"handleLogout"}
      <4>1. CASE List!Continue(i)
        BY <4>1 DEF List!Continue, List!FetchDocs, List!BulkActionDone,
                    List!BulkDeleteDone, List!DeletedLoaded, List!Awaited, Thens
      <4>2. CASE Viewer!Continue(i)
        BY <4>2 DEF Viewer!Continue, Viewer!Load, Viewer!Exported, Viewer!Answered,
                    Viewer!Awaited, Thens
      <4>3. CASE SearchPanel!Continue(i)
        BY <4>3 DEF SearchPanel!Continue, SearchPanel!SelectorLoaded,
                    SearchPanel!Headers, SearchPanel!Failed, SearchPanel!Results,
                    SearchPanel!Awaited, Thens
      <4>4. CASE Chat!Headers(i) \/ Chat!Failed(i) \/ Chat!Answered(i)
        BY <4>4 DEF Chat!Headers, Chat!Failed, Chat!Answered, Chat!Awaited, Thens
      <4>5. CASE Comparison!Continue(i)
        BY <4>5 DEF Comparison!Continue, Comparison!DocsLoaded, Comparison!Compared,
                    Comparison!Awaited, Thens
      <4>6. CASE Extractions!Continue(i)
        <5>1. calls[i].then \in
                {"fetchAll", "handleExtract", "handleExtract: fetchAll", "bulk-delete",
                 "bulk-delete: fetchAll", "delete extraction", "delete template",
                 "handleExport", "TemplateForm"}
          BY <4>6
             DEF Extractions!Continue, Extractions!ReadOn, Extractions!FetchAllDone,
                 Extractions!NextDoc, Extractions!LoopEnds, Extractions!RunDone, Extractions!BulkDeleted,
                 Extractions!BulkDeleteDone, Extractions!ExtractionDeleted,
                 Extractions!TemplateDeleted, Extractions!ExportDone,
                 Extractions!FormSaved, Extractions!Awaited
        <5> QED
          BY <5>1 DEF Thens
      <4> QED
        BY <2>3, <4>1, <4>2, <4>3, <4>4, <4>5, <4>6
    <3>2. ui.view \notin {"team", "admin"}
      BY <2>0, <3>1
    <3>3. Managed' /\ PagesOK'
      BY <1>1, <1>2, <3>2, PagesKept DEF Managed, Stays
    <3> QED
      BY <1>1, <1>2, <3>3 DEF TabInv
  <2> QED
    BY <2>1, <2>2, <2>3 DEF ContinuePanel
<1> QED
  BY <1>3, <1>4

LEMMA ClickPanelOK ==
    ASSUME TabInv, ClickPanel
    PROVE  TabInv'
<1>1. /\ UiOK(ui) /\ CallsOK /\ Managed /\ PagesOK /\ ServerOK' /\ user' = user
  BY ServerKept DEF TabInv, ClickPanel
<1>2. ASSUME UiOK(ui)', CallsOK', Stays, ui.view \notin {"team", "admin"}
      PROVE  TabInv'
  <2>1. Managed' /\ PagesOK'
    BY <1>1, <1>2, PagesKept DEF Managed, Stays
  <2> QED
    BY <1>1, <1>2, <2>1 DEF TabInv
<1>3. CASE List!Click
  <2>1. ui.view = "documents"
    BY <1>3 DEF List!Click, List!ToggleSelect, List!ToggleAll, List!Refresh, List!Shown,
           List!HandleBulkDownload, List!HandleBulkExport, List!HandleBulkDelete,
           List!BulkAction, List!Offers
  <2> QED
    BY <1>1, <1>2, <1>3, <2>1, ListClick
<1>4. CASE Viewer!Click
  <2>1. ui.view = "viewer"
    BY <1>4 DEF Viewer!Click, Viewer!ShowTab, Viewer!SetMode, Viewer!HandleExport,
           Viewer!TypeQuestion, Viewer!HandleAsk, Viewer!CanAsk, Viewer!Shown
  <2> QED
    BY <1>1, <1>2, <1>4, <2>1, ViewerClick
<1>5. CASE SearchPanel!Click
  <2>1. ui.view = "search"
    BY <1>5 DEF SearchPanel!Click, SearchPanel!SelectDocument, SearchPanel!HandleSearch,
           SearchPanel!CanSearch, SearchPanel!ToggleExpand, SearchPanel!HitsShown,
           SearchPanel!Shown
  <2> QED
    BY <1>1, <1>2, <1>5, <2>1, SearchClick
<1>6. CASE Chat!Click
  <2>1. ui.view = "ai"
    BY <1>6 DEF Chat!Click, Chat!HandleSubmit, Chat!HandleSummarize,
           Chat!SelectDocument, Chat!CanSend, Chat!CanSummarize, Chat!Shown
  <2> QED
    BY <1>1, <1>2, <1>6, <2>1, ChatClick
<1>7. CASE Comparison!Click
  <2>1. ui.view = "compare"
    BY <1>7 DEF Comparison!Click, Comparison!SelectA, Comparison!SelectB,
           Comparison!HandleCompare, Comparison!CanCompare, Comparison!Shown
  <2> QED
    BY <1>1, <1>2, <1>7, <2>1, ComparisonClick
<1>8. CASE Extractions!ClickForm
  <2>1. ui.view = "extract"
    BY <1>8
       DEF Extractions!ClickForm, Extractions!NewTemplate, Extractions!CancelForm,
           Extractions!SubmitForm, Extractions!EditTemplate, Extractions!CardShown,
           Extractions!HandleDeleteTemplate, Extractions!FillForm, Extractions!Shown
  <2> QED
    BY <1>1, <1>2, <1>8, <2>1, ExtractionsFormClick
<1>9. CASE Extractions!ClickRun
  <2>1. ui.view = "extract"
    BY <1>9
       DEF Extractions!ClickRun, Extractions!SelectTemplate, Extractions!ToggleDoc,
           Extractions!DocShown, Extractions!ToggleAllDocs, Extractions!HandleExtract,
           Extractions!CanExtract, Extractions!Shown
  <2> QED
    BY <1>1, <1>2, <1>9, <2>1, ExtractionsRunClick
<1>10. CASE Extractions!ClickResults
  <2>1. ui.view = "extract"
    BY <1>10
       DEF Extractions!ClickResults, Extractions!SetFilter, Extractions!ToggleExtraction,
           Extractions!RowShown, Extractions!HandleDeleteExtraction,
           Extractions!ToggleAllExtractions, Extractions!HandleBulkDelete,
           Extractions!CanBulkDelete, Extractions!HandleExport, Extractions!CanExport,
           Extractions!Shown
  <2> QED
    BY <1>1, <1>2, <1>10, <2>1, ExtractionsResultsClick
<1>11. CASE Team!Click
  <2>1. ui.view = "team"
    BY <1>11 DEF Team!Click, Team!FillIn, Team!HandleCreate, Team!PatchUser, Team!Shown
  <2>2. UiOK(ui)' /\ CallsOK' /\ Stays /\ ui'.as = ui.as
    BY <1>1, <1>11, TeamClick
  <2>3. Managed' /\ PagesOK'
    BY <1>1, <2>1, <2>2, PagesKept DEF Managed, Stays
  <2> QED
    BY <1>1, <2>2, <2>3 DEF TabInv
<1>12. CASE AdminPanel!Click
  <2>1. ui.view = "admin"
    BY <1>12
       DEF AdminPanel!Click, AdminPanel!HandleToggle, AdminPanel!TypeQuota,
           AdminPanel!HandleQuotaSave, AdminPanel!ToggleDocuments, AdminPanel!Shown
  <2>2. /\ UiOK(ui)' /\ CallsOK' /\ Stays
        /\ ui.orgs # None /\ ui'.orgs \in [Orgs -> AdminPanel!Settings]
    BY <1>1, <1>12, AdminClick
  <2>3. Managed' /\ PagesOK'
    BY <1>1, <2>1, <2>2, PagesKept DEF Managed
  <2> QED
    BY <1>1, <2>2, <2>3 DEF TabInv
<1> QED
  BY <1>3, <1>4, <1>5, <1>6, <1>7, <1>8, <1>9, <1>10, <1>11, <1>12 DEF ClickPanel

-----------------------------------------------------------------------------
(* The pages. *)

LEMMA LoadOK ==
    ASSUME TabInv, token' \in Tokens, UNCHANGED server,
           NEW view \in {"dashboard", "login", "register", "admin"}, Load(view)
    PROVE  TabInv'
  BY PageLoaded, ServerKept DEF TabInv

\* A fetch of the mounted component by one of its own handlers, on a page other
\* than the administrator's and the team's, or that changes nothing on the page.
LEMMA PageStep ==
    ASSUME TabInv, UNCHANGED <<server, user>>, UiOK(ui)', CallsOK', Stays,
           ui' = ui \/ ui.view \in {"login", "register"},
           \A k \in DOMAIN calls' : calls'[k].by = mount =>
               \/ calls'[k].then \notin {"handleToggle", "handleQuotaSave"}
               \/ \E j \in DOMAIN calls : /\ calls[j].by = mount
                                          /\ calls[j].then = calls'[k].then
    PROVE  TabInv'
<1>1. ServerOK' /\ Managed /\ PagesOK /\ user' = user
  BY ServerKept DEF TabInv
<1>2. Managed'
  BY <1>1, ManagedKept
<1>3. PagesOK'
  BY <1>1, PagesKept
<1> QED
  BY <1>1, <1>2, <1>3 DEF TabInv

LEMMA FetchAdds ==
    ASSUME CallsOK, NEW then, NEW op, NEW arg, NEW kept, Fetch(then, op, arg, kept)
    PROVE  \A k \in DOMAIN calls' : \/ calls'[k].then = then
                                    \/ \E j \in DOMAIN calls : calls'[k] = calls[j]
<1> DEFINE c == Call(mount, then, op, arg, kept)
<1>1. calls' = calls \o <<c>>
  BY FetchAppends
<1>2. c.then = then
  BY DEF Call
<1> HIDE DEF c
<1>3. IsSeq(<<c>>) /\ Len(<<c>>) = 1 /\ <<c>>[1] = c
  BY SeqShort
<1>4. DOMAIN <<c>> = {1}
  BY <1>3, SeqFacts
<1>5. IsSeq(calls)
  BY DEF CallsOK, GoodCalls
<1> QED
  BY <1>1, <1>2, <1>3, <1>4, <1>5, SeqJoined

LEMMA SubmitOK == ASSUME TabInv, Submit PROVE TabInv'
<1>1. /\ CallsOK /\ UiOK(ui) /\ ui.view \in {"login", "register"}
      /\ mount' = mount /\ token' = token
      /\ ui' = [ui EXCEPT !.loading = TRUE, !.error = FALSE]
      /\ UNCHANGED <<server, user>>
  BY DEF TabInv, Submit, CanSubmit
<1>2. UiOK(ui)' /\ ui'.view = ui.view
  BY <1>1 DEF UiOK
<1>3. Stays
  BY <1>1, <1>2 DEF Stays
<1>4. PICK op \in {"POST login", "POST register"} : Fetch("handleSubmit", op, None, None)
  BY DEF Submit
<1>5. CallsOK'
  <2>1. /\ OpFits("handleSubmit", op) /\ ArgFits(op, None)
        /\ KeptFits("handleSubmit", None, None)
    BY <1>4 DEF OpFits, ArgFits, KeptFits
  <2>2. "handleSubmit" \in Thens(ui.view)
    BY <1>1 DEF Thens
  <2> QED
    BY <1>1, <1>3, <1>4, <2>1, <2>2, Fetched
<1>6. \A k \in DOMAIN calls' : \/ calls'[k].then = "handleSubmit"
                               \/ \E j \in DOMAIN calls : calls'[k] = calls[j]
  BY <1>1, <1>4, FetchAdds
<1> QED
  BY <1>1, <1>2, <1>3, <1>5, <1>6, PageStep

LEMMA HandleLogoutOK == ASSUME TabInv, HandleLogout PROVE TabInv'
<1>1. /\ CallsOK /\ UiOK(ui) /\ ui' = ui /\ mount' = mount /\ token' = token
      /\ UNCHANGED <<server, user>>
      /\ Fetch("handleLogout", "POST logout", None, None)
  BY DEF TabInv, HandleLogout
<1>2. UiOK(ui)' /\ Stays
  BY <1>1 DEF Stays
<1>3. CallsOK'
  <2>1. /\ OpFits("handleLogout", "POST logout") /\ ArgFits("POST logout", None)
        /\ KeptFits("handleLogout", None, None)
    BY DEF OpFits, ArgFits, KeptFits
  <2> QED
    BY <1>1, <1>2, <2>1, Fetched
<1>4. \A k \in DOMAIN calls' : \/ calls'[k].then = "handleLogout"
                               \/ \E j \in DOMAIN calls : calls'[k] = calls[j]
  BY <1>1, FetchAdds
<1> QED
  BY <1>1, <1>2, <1>3, <1>4, PageStep

\* A wait ends without a trace on the page, or on a form.
LEMMA ReturnOK ==
    ASSUME TabInv, NEW i \in DOMAIN calls, Return(i), mount' = mount, token' = token,
           UNCHANGED <<server, user>>, UiOK(ui)', ui'.view = ui.view,
           ui' = ui \/ ui.view \in {"login", "register"}
    PROVE  TabInv'
<1>1. Stays /\ CallsOK
  BY DEF Stays, TabInv
<1>2. CallsOK'
  BY <1>1, CallRemoved
<1>3. \A k \in DOMAIN calls' : \E j \in DOMAIN calls \ {i} : calls'[k] = calls[j]
  BY <1>1, ReturnLeaves
<1> QED
  BY <1>1, <1>2, <1>3, PageStep

LEMMA SignInFailedOK ==
    ASSUME TabInv, NEW i \in DOMAIN calls, SignInFailed(i) PROVE TabInv'
<1> DEFINE new == [ui EXCEPT !.loading = FALSE, !.error = TRUE]
<1>1. /\ CallsOK /\ UiOK(ui) /\ mount' = mount /\ token' = token
      /\ UNCHANGED <<server, user>> /\ Return(i) /\ SetState(i, new)
      /\ calls[i].then = "handleSubmit"
  BY DEF TabInv, SignInFailed, Awaited
<1>2. calls[i].by = mount => ui.view \in {"login", "register"}
  BY <1>1 DEF CallsOK, GoodCalls, InTab, Thens
<1>3. calls[i].by = mount => UiOK(new) /\ new.view = ui.view
  BY <1>1, <1>2 DEF UiOK
<1>4. UiOK(ui)' /\ ui'.view = ui.view
  BY <1>1, <1>3, SetStateOK DEF Stays
<1>5. ui' = ui \/ ui.view \in {"login", "register"}
  BY <1>1, <1>2 DEF SetState
<1> QED
  BY <1>1, <1>4, <1>5, ReturnOK

LEMMA ForgetOK ==
    ASSUME TabInv, NEW i \in DOMAIN calls, Forget(i) PROVE TabInv'
<1>1. /\ mount' = mount /\ token' = token /\ ui' = ui /\ UiOK(ui)
      /\ UNCHANGED <<server, user>> /\ Return(i)
  BY DEF TabInv, Forget
<1>2. UiOK(ui)'
  BY <1>1
<1> QED
  BY <1>1, <1>2, ReturnOK

LEMMA KnownOK ==
    ASSUME TabInv, NEW i \in DOMAIN calls, Known(i) PROVE TabInv'
<1>1. /\ CallsOK /\ mount' = mount + 1 /\ token' = token /\ UNCHANGED server
      /\ calls[i].then = "dashboard" /\ calls[i].state = "ok"
      /\ ui' = List!Fresh /\ ServerOK'
      /\ user' = [user |-> calls[i].as.user, role |-> calls[i].data]
      /\ calls' = Without(calls, i) \o List!Effect(mount')
  BY ServerKept DEF TabInv, Known, Awaited, IsOk
<1>2. IsFetch(calls[i]) /\ InTab(calls[i])
  BY <1>1 DEF CallsOK, GoodCalls
<1>3. /\ calls[i].as = token /\ token # None /\ token.account = "user"
      /\ calls[i].data \in Roles /\ token \in Tokens
  BY <1>1, <1>2 DEF IsFetch, OpFits, AnswerFits, InTab
<1>4. token.user \in Users
  BY <1>3 DEF Tokens, AdminToken
<1>5. user' \in Profiles /\ user'.user = token'.user
  BY <1>1, <1>3, <1>4 DEF Profiles
<1>6. UiOK(ui)' /\ ui'.view = "documents"
  BY <1>1 DEF UiOK, List!Fresh, List!States
<1>7. PagesOK'
  BY <1>1, <1>3, <1>5, <1>6 DEF PagesOK, PagesMatchToken, InDashboard
<1> DEFINE c == Call(mount + 1, "fetchDocs", "GET documents", None, None)
<1>8. List!Effect(mount') = <<c>>
  BY <1>1 DEF List!Effect, List!Call, Call
<1>9. c.as = token /\ IsFirst(c, mount + 1, ui'.view)
  <2>1. IsFetch(c)
    BY <1>3, FirstFetch DEF OpFits, ArgFits, KeptFits, Call
  <2> QED
    BY <1>6, <2>1 DEF IsFirst, Thens, Call
<1> HIDE DEF c
<1>10. IsSeq(Without(calls, i)) /\
       \A k \in DOMAIN Without(calls, i) : \E j \in DOMAIN calls :
          Without(calls, i)[k] = calls[j]
  <2>1. IsSeq(calls) /\ Len(calls) \in Nat /\ DOMAIN calls = 1 .. Len(calls)
    BY <1>1, SeqFacts DEF CallsOK, GoodCalls
  <2>2. /\ IsSeq(Without(calls, i)) /\ DOMAIN Without(calls, i) = 1 .. Len(calls) - 1
        /\ \A k \in DOMAIN Without(calls, i) :
              Without(calls, i)[k] = IF k < i THEN calls[k] ELSE calls[k + 1]
    BY <2>1, SeqRemoved
  <2>3. \A k \in DOMAIN Without(calls, i) : k \in DOMAIN calls /\ k + 1 \in DOMAIN calls
    BY <2>1, <2>2
  <2> QED
    BY <2>2, <2>3
<1>11. CallsOK' /\ Managed'
  <2>1. calls' = Without(calls, i) \o <<c>>
    BY <1>1, <1>8
  <2> QED
    BY <1>1, <1>9, <1>10, <2>1, Mounted
<1> QED
  BY <1>1, <1>6, <1>7, <1>11 DEF TabInv

LEMMA MountOK ==
    ASSUME TabInv, InDashboard, NEW new, NEW c, Mount(new, <<c>>), UiOK(new),
           new.view \in Panels \cup {"viewer"},
           new.view = "team" => new.as = user,
           IsFirst(c, mount + 1, new.view), c.as = token
    PROVE  TabInv'
<1>1. /\ CallsOK /\ PagesOK /\ mount' = mount + 1 /\ ui' = new /\ token' = token
      /\ user' = user /\ UNCHANGED server /\ calls' = calls \o <<c>> /\ ServerOK'
      /\ UiOK(ui)'
  BY ServerKept DEF TabInv, Mount
<1>2. CallsOK' /\ Managed'
  <2>1. IsSeq(calls) /\ \A k \in DOMAIN calls : \E j \in DOMAIN calls : calls[k] = calls[j]
    BY <1>1 DEF CallsOK, GoodCalls
  <2>2. IsFirst(c, mount + 1, ui'.view)
    BY <1>1
  <2> QED
    BY <1>1, <2>1, <2>2, Mounted
<1>3. PagesOK'
  <2>1. token # None /\ token.account = "user" /\ user \in Profiles
        /\ user.user = token.user
    BY <1>1 DEF PagesOK, PagesMatchToken
  <2> QED
    BY <1>1, <2>1 DEF PagesOK, PagesMatchToken, InDashboard, Panels
<1> QED
  BY <1>1, <1>2, <1>3 DEF TabInv

LEMMA GoToOK ==
    ASSUME TabInv, NEW view \in Panels, GoTo(view) PROVE TabInv'
<1>1. /\ InDashboard /\ token \in Tokens /\ user \in Profiles
      /\ Mount(FreshOf(view, user), EffectOf(view, mount + 1))
  BY DEF TabInv, CallsOK, PagesOK, GoTo
<1>2. PICK c : /\ EffectOf(view, mount + 1) = <<c>>
               /\ IsFirst(c, mount + 1, view) /\ c.as = token
  BY <1>1, PanelEffect
<1>3. /\ UiOK(FreshOf(view, user)) /\ FreshOf(view, user).view = view
      /\ view = "team" => FreshOf(view, user).as = user
  BY <1>1, PanelFresh
<1> QED
  BY <1>1, <1>2, <1>3, MountOK

LEMMA SelectRowOK ==
    ASSUME TabInv, NEW d \in Docs, SelectRow(d) PROVE TabInv'
<1> DEFINE c == Call(mount + 1, "viewer", "GET document", d, None)
<1>1. InDashboard /\ token \in Tokens /\ Mount(Viewer!Fresh(d), <<c>>)
  BY DEF TabInv, CallsOK, SelectRow, InDashboard, Panels, Viewer!Effect, Viewer!Call, Call
<1>2. UiOK(Viewer!Fresh(d)) /\ Viewer!Fresh(d).view = "viewer"
  BY DEF UiOK, Viewer!Fresh, Viewer!States
<1>3. IsFetch(c)
  BY <1>1, FirstFetch DEF OpFits, ArgFits, KeptFits, Call
<1>4. c.as = token /\ IsFirst(c, mount + 1, "viewer")
  BY <1>3 DEF IsFirst, Thens, Call
<1> HIDE DEF c
<1> QED
  BY <1>1, <1>2, <1>4, MountOK

\* The redirects, signing in and logging out.
LEMMA RedirectOK ==
    ASSUME TabInv,
           \/ Home \/ FollowLink \/ NoToken
           \/ \E i \in DOMAIN calls : SignedIn(i) \/ Unknown(i) \/ LoggedOut(i)
    PROVE  TabInv'
<1>1. token \in Tokens /\ None \in Tokens /\ UNCHANGED server
  BY DEF TabInv, CallsOK, Tokens, Home, FollowLink, NoToken, SignedIn, Unknown, LoggedOut
<1>2. CASE Home \/ FollowLink \/ NoToken \/ \E i \in DOMAIN calls : Unknown(i)
  <2>1. /\ token' = token
        /\ \E view \in {"dashboard", "login", "register", "admin"} : Load(view)
    BY <1>2 DEF Home, FollowLink, NoToken, Unknown
  <2> QED
    BY <1>1, <2>1, LoadOK
<1>3. CASE \E i \in DOMAIN calls : LoggedOut(i)
  BY <1>1, <1>3, LoadOK DEF LoggedOut
<1>4. ASSUME NEW i \in DOMAIN calls, SignedIn(i)
      PROVE  TabInv'
  <2>1. calls[i].then = "handleSubmit" /\ calls[i].state = "ok"
        /\ token' = calls[i].data
    BY <1>4 DEF SignedIn, Awaited, IsOk
  <2>2. calls[i].data \in Tokens
    BY <2>1 DEF TabInv, CallsOK, GoodCalls, IsFetch, OpFits, AnswerFits
  <2> QED
    BY <1>1, <1>4, <2>1, <2>2, LoadOK DEF SignedIn
<1> QED
  BY <1>2, <1>3, <1>4

-----------------------------------------------------------------------------
(* The answers. *)

LEMMA ReplyLeaves ==
    ASSUME CallsOK, NEW i \in DOMAIN calls, NEW state, NEW data, Reply(i, state, data)
    PROVE  /\ DOMAIN calls' = DOMAIN calls
           /\ \A k \in DOMAIN calls :
                 /\ calls'[k].by = calls[k].by /\ calls'[k].then = calls[k].then
                 /\ calls'[k].op = calls[k].op /\ calls'[k].arg = calls[k].arg
                 /\ calls'[k].kept = calls[k].kept /\ calls'[k].as = calls[k].as
<1> DEFINE c == [calls[i] EXCEPT !.state = state, !.data = data]
<1>1. calls' = [calls EXCEPT ![i] = c]
  BY DEF Reply
<1>2. calls[i] = [by |-> calls[i].by, then |-> calls[i].then, op |-> calls[i].op,
                  arg |-> calls[i].arg, kept |-> calls[i].kept, as |-> calls[i].as,
                  state |-> calls[i].state, data |-> calls[i].data]
  BY DEF CallsOK, GoodCalls, IsFetch
<1>3. /\ c.by = calls[i].by /\ c.then = calls[i].then /\ c.op = calls[i].op
      /\ c.arg = calls[i].arg /\ c.kept = calls[i].kept /\ c.as = calls[i].as
  BY <1>2
<1> HIDE DEF c
<1>4. /\ DOMAIN calls' = DOMAIN calls
      /\ \A k \in DOMAIN calls : calls'[k] = IF k = i THEN c ELSE calls[k]
  BY <1>1, SeqReplaced DEF CallsOK, GoodCalls
<1> QED
  BY <1>3, <1>4

LEMMA ReplyOK ==
    ASSUME TabInv, NEW i \in DOMAIN calls, NEW state, NEW data,
           state \in {"ok", "refused", "lost"},
           IF state = "ok" THEN AnswerFits(calls[i].op, calls[i].arg, calls[i].as, data)
           ELSE data = None,
           Reply(i, state, data), user' = user, ServerOK'
    PROVE  TabInv'
<1>1. CallsOK /\ UiOK(ui) /\ Managed /\ PagesOK
  BY DEF TabInv
<1>2. ui' = ui /\ Stays
  BY DEF Reply, Stays
<1>3. UiOK(ui)'
  BY <1>1, <1>2
<1>4. CallsOK'
  BY <1>1, Replied
<1>5. \A k \in DOMAIN calls' : \E j \in DOMAIN calls :
         calls[j].by = calls'[k].by /\ calls[j].then = calls'[k].then
  BY <1>1, ReplyLeaves
<1>6. Managed'
  BY <1>1, <1>2, <1>5, ManagedKept
<1>7. PagesOK'
  BY <1>1, <1>2, PagesKept
<1> QED
  BY <1>3, <1>4, <1>6, <1>7 DEF TabInv

LEMMA AnswerOK ==
    ASSUME TabInv, NEW i \in DOMAIN calls, NEW op, NEW data, calls[i].op = op,
           AnswerFits(op, calls[i].arg, calls[i].as, data),
           Reply(i, "ok", data), user' = user, ServerOK'
    PROVE  TabInv'
<1>1. AnswerFits(calls[i].op, calls[i].arg, calls[i].as, data)
  OBVIOUS
<1>2. \A state : state = "ok" /\ Reply(i, state, data) => TabInv'
  BY <1>1, ReplyOK
<1> QED
  BY <1>2

LEMMA ReadOK ==
    ASSUME TabInv, NEW i \in DOMAIN calls, NEW op, NEW found, NEW data,
           Read(i, op, found, data), user' = user,
           (calls[i].op = op /\ Permitted(i, "user") /\ found)
               => AnswerFits(op, calls[i].arg, calls[i].as, data)
    PROVE  TabInv'
<1>1. /\ UNCHANGED server /\ ServerOK' /\ calls[i].op = op
  BY ServerKept DEF TabInv, Read, Sent
<1>2. CASE Permitted(i, "user") /\ found
  BY <1>1, <1>2, ReplyOK DEF Read
<1>3. CASE ~(Permitted(i, "user") /\ found)
  BY <1>1, <1>3, ReplyOK DEF Read
<1> QED
  BY <1>2, <1>3

\* What a fetch asks for, for the actions below.
LEMMA Asks ==
    ASSUME TabInv, NEW i \in DOMAIN calls
    PROVE  /\ ArgFits(calls[i].op, calls[i].arg) /\ calls[i].as \in Tokens
           /\ Permitted(i, "user") => calls[i].as.user \in Users
  BY DEF TabInv, CallsOK, GoodCalls, IsFetch, Permitted, Tokens, AdminToken

LEMMA ServeDocumentsOK ==
    ASSUME TabInv, NEW i \in DOMAIN calls, ServeDocuments(i), user' = user
    PROVE  TabInv'
<1>1. ServerOK /\ ArgFits(calls[i].op, calls[i].arg)
  BY Asks DEF TabInv
<1>2. CASE ListDocuments(i)
  <2>1. AnswerFits("GET documents", calls[i].arg, calls[i].as, docs)
    BY <1>1 DEF AnswerFits, ServerOK
  <2> QED
    BY <1>2, <2>1, ReadOK DEF ListDocuments
<1>3. CASE GetDocument(i)
  <2>1. PICK preview \in BOOLEAN :
           Read(i, "GET document", calls[i].arg \in docs,
                [doc |-> calls[i].arg, preview |-> preview])
    BY <1>3 DEF GetDocument
  <2>2. AnswerFits("GET document", calls[i].arg, calls[i].as,
                   [doc |-> calls[i].arg, preview |-> preview])
    BY DEF AnswerFits
  <2> QED
    BY <2>1, <2>2, ReadOK
<1>4. CASE ReadDocuments(i)
  <2>1. AnswerFits("POST documents/bulk", calls[i].arg, calls[i].as, calls[i].arg)
    BY DEF AnswerFits
  <2> QED
    BY <1>4, <2>1, ReadOK DEF ReadDocuments
<1>5. CASE BulkDelete(i)
  <2>1. /\ calls[i].op = "POST documents/bulk/delete" /\ Reply(i, "ok", None)
        /\ docs' = docs \ calls[i].arg
        /\ UNCHANGED <<templates, rows, serial, staff, orgs>>
    BY <1>5 DEF BulkDelete, Write, Sent
  <2>2. ServerOK'
    BY <1>1, <2>1 DEF ServerOK
  <2>3. AnswerFits("POST documents/bulk/delete", calls[i].arg, calls[i].as, None)
    BY DEF AnswerFits
  <2> QED
    BY <2>1, <2>2, <2>3, AnswerOK
<1>6. CASE Compare(i)
  <2>1. AnswerFits("POST compare", calls[i].arg, calls[i].as, calls[i].arg)
    BY DEF AnswerFits
  <2> QED
    BY <1>6, <2>1, ReadOK DEF Compare
<1>7. CASE Answer(i)
  <2>1. AnswerFits("POST ai", calls[i].arg, calls[i].as, calls[i].arg)
    BY DEF AnswerFits
  <2> QED
    BY <1>7, <2>1, ReadOK DEF Answer
<1>8. CASE Search(i)
  <2>1. PICK hits \in SUBSET {d \in docs : calls[i].arg \in {d, None}} :
           Read(i, "GET search", TRUE, [scope |-> calls[i].arg, hits |-> hits])
    BY <1>8 DEF Search
  <2>2. hits \in SUBSET Docs
    BY <1>1 DEF ServerOK
  <2> DEFINE found == [scope |-> calls[i].arg, hits |-> hits]
  <2>3. calls[i].op = "GET search" =>
           AnswerFits("GET search", calls[i].arg, calls[i].as, found)
    BY <1>1, <2>2 DEF AnswerFits, ArgFits, Found
  <2>4. Read(i, "GET search", TRUE, found)
    BY <2>1
  <2> HIDE DEF found
  <2> QED
    BY <2>3, <2>4, ReadOK
<1>9. CASE Body(i)
  <2>1. /\ calls[i].op = "body" /\ Reply(i, "ok", calls[i].arg) /\ ServerOK'
    BY <1>1, <1>9, ServerKept DEF Body, Sent
  <2>2. AnswerFits("body", calls[i].arg, calls[i].as, calls[i].arg)
    BY DEF AnswerFits
  <2> QED
    BY <2>1, <2>2, AnswerOK
<1> QED
  BY <1>2, <1>3, <1>4, <1>5, <1>6, <1>7, <1>8, <1>9 DEF ServeDocuments

LEMMA ServeExtractionsOK ==
    ASSUME TabInv, NEW i \in DOMAIN calls, ServeExtractions(i), user' = user
    PROVE  TabInv'
<1>1. ServerOK /\ ArgFits(calls[i].op, calls[i].arg)
  BY Asks DEF TabInv
<1>2. CASE ReadAll(i)
  <2>1. PICK bad \in {{}, {"rows"}, {"all"}, Listings} :
           Reply(i, "ok", [templates |-> templates, rows |-> InRange(rows, calls[i].arg),
                           all |-> rows, docs |-> docs, refused |-> bad,
                           part |-> "templates"])
    BY <1>2 DEF ReadAll
  <2>2. calls[i].op = "GET all" /\ ServerOK'
    BY <1>1, <1>2, ServerKept DEF ReadAll, Sent
  <2>3. InRange(rows, calls[i].arg) \subseteq Extractions!AnyRow
    BY <1>1 DEF InRange, ServerOK
  <2>4. bad \in SUBSET Listings
    BY <2>1 DEF Listings
  <2> DEFINE found == [templates |-> templates, rows |-> InRange(rows, calls[i].arg),
                       all |-> rows, docs |-> docs, refused |-> bad,
                       part |-> "templates"]
  <2>5. AnswerFits("GET all", calls[i].arg, calls[i].as, found)
    BY <1>1, <2>3, <2>4 DEF AnswerFits, Everything, ServerOK, Listings
  <2>6. Reply(i, "ok", found)
    BY <2>1
  <2> HIDE DEF found
  <2> QED
    BY <2>2, <2>5, <2>6, AnswerOK
<1>3. CASE RunExtraction(i)
  <2> DEFINE new == Row(serial + 1, calls[i].arg.doc, calls[i].arg.template, "today")
  <2>1. /\ calls[i].op = "POST extract" /\ Reply(i, "ok", new.id) /\ serial < MaxRows
        /\ rows' = rows \cup {new} /\ serial' = new.id
        /\ UNCHANGED <<docs, templates, staff, orgs>>
    BY <1>3 DEF RunExtraction, Write, Sent
  <2>2. new.id = serial + 1
    BY DEF Row
  <2>3. serial + 1 \in 1 .. MaxRows
    <3>1. serial \in 0 .. MaxRows /\ serial < MaxRows
      BY <1>1, <2>1 DEF ServerOK
    <3> QED
      BY <3>1, ServerAssumption
  <2>4. new \in Extractions!AnyRow
    BY <1>1, <2>1, <2>3 DEF ArgFits, Row, Extractions!AnyRow
  <2> HIDE DEF new
  <2> DEFINE id == new.id
  <2>5. id \in 1 .. MaxRows /\ serial' = id /\ Reply(i, "ok", id)
    BY <2>1, <2>2, <2>3
  <2> HIDE DEF id
  <2>6. serial' \in 0 .. MaxRows
    BY <2>5, ServerAssumption
  <2>7. ServerOK'
    BY <1>1, <2>1, <2>4, <2>6 DEF ServerOK
  <2>8. AnswerFits("POST extract", calls[i].arg, calls[i].as, id)
    BY <2>5 DEF AnswerFits
  <2> QED
    BY <2>1, <2>5, <2>7, <2>8, AnswerOK
<1>4. CASE DeleteRows(i)
  <2>1. /\ calls[i].op = "DELETE extractions" /\ Reply(i, "ok", None)
        /\ rows' = {r \in rows : r.id \notin calls[i].arg}
        /\ UNCHANGED <<docs, templates, serial, staff, orgs>>
    BY <1>4 DEF DeleteRows, Write, Sent
  <2>2. ServerOK'
    BY <1>1, <2>1 DEF ServerOK
  <2>3. AnswerFits("DELETE extractions", calls[i].arg, calls[i].as, None)
    BY DEF AnswerFits
  <2> QED
    BY <2>1, <2>2, <2>3, AnswerOK
<1>5. CASE ExportRows(i)
  <2>1. AnswerFits("GET extractions/export", calls[i].arg, calls[i].as, calls[i].arg)
    BY DEF AnswerFits
  <2> QED
    BY <1>5, <2>1, ReadOK DEF ExportRows
<1>6. CASE CreateTemplate(i)
  <2>1. PICK t \in Templates \ templates :
           Write(i, "POST template", TRUE, t) /\ templates' = templates \cup {t}
    BY <1>6 DEF CreateTemplate
  <2>2. /\ calls[i].op = "POST template" /\ Reply(i, "ok", t)
        /\ UNCHANGED <<docs, rows, serial, staff, orgs>>
    BY <1>6, <2>1 DEF CreateTemplate, Write, Sent
  <2>3. ServerOK'
    BY <1>1, <2>1, <2>2 DEF ServerOK
  <2>4. AnswerFits("POST template", calls[i].arg, calls[i].as, t)
    BY DEF AnswerFits
  <2> QED
    BY <2>2, <2>3, <2>4, AnswerOK
<1>7. CASE UpdateTemplate(i)
  <2>1. AnswerFits("PATCH template", calls[i].arg, calls[i].as, calls[i].arg)
    BY DEF AnswerFits
  <2> QED
    BY <1>7, <2>1, ReadOK DEF UpdateTemplate
<1>8. CASE DeleteTemplate(i)
  <2>1. /\ calls[i].op = "DELETE template" /\ Reply(i, "ok", None)
        /\ templates' = templates \ {calls[i].arg}
        /\ UNCHANGED <<docs, rows, serial, staff, orgs>>
    BY <1>8 DEF DeleteTemplate, Write, Sent
  <2>2. ServerOK'
    BY <1>1, <2>1 DEF ServerOK
  <2>3. AnswerFits("DELETE template", calls[i].arg, calls[i].as, None)
    BY DEF AnswerFits
  <2> QED
    BY <2>1, <2>2, <2>3, AnswerOK
<1> QED
  BY <1>2, <1>3, <1>4, <1>5, <1>6, <1>7, <1>8 DEF ServeExtractions

\* The account of one user changes.
LEMMA StaffSet ==
    ASSUME ServerOK, NEW u \in Users, NEW role \in Roles, NEW active \in BOOLEAN,
           staff' = [staff EXCEPT ![u] = [role |-> role, active |-> active]],
           UNCHANGED <<docs, templates, rows, serial, orgs>>
    PROVE  ServerOK'
<1> DEFINE account == [role |-> role, active |-> active]
<1>1. account \in {None} \cup [role : Roles, active : BOOLEAN]
  OBVIOUS
<1>2. staff' = [staff EXCEPT ![u] = account]
  OBVIOUS
<1> HIDE DEF account
<1>3. staff' \in Team!Accounts
  BY <1>1, <1>2 DEF ServerOK, Team!Accounts, Team!Roles, Roles
<1> QED
  BY <1>3 DEF ServerOK

LEMMA ChangedOK ==
    ASSUME ServerOK, NEW u \in Users, staff[u] # None, NEW change \in Changes
    PROVE  /\ Changed(staff[u], change).role \in Roles
           /\ Changed(staff[u], change).active \in BOOLEAN
           /\ Changed(staff[u], change) = [role |-> Changed(staff[u], change).role,
                                           active |-> Changed(staff[u], change).active]
<1>1. staff[u].role \in Roles /\ staff[u].active \in BOOLEAN
  BY DEF ServerOK, Team!Accounts, Team!Roles, Roles
<1>2. /\ change.role \in {None} \cup Roles
      /\ change.active \in {None} \cup BOOLEAN
  BY DEF Changes
<1>3. Changed(staff[u], change).role \in Roles
  BY <1>1, <1>2 DEF Changed
<1>4. Changed(staff[u], change).active \in BOOLEAN
  BY <1>1, <1>2 DEF Changed
<1>5. Changed(staff[u], change) = [role |-> Changed(staff[u], change).role,
                                   active |-> Changed(staff[u], change).active]
  BY DEF Changed
<1> QED
  BY <1>3, <1>4, <1>5

LEMMA ServeAccountsOK ==
    ASSUME TabInv, NEW i \in DOMAIN calls, ServeAccounts(i), user' = user
    PROVE  TabInv'
<1>1. /\ ServerOK /\ ArgFits(calls[i].op, calls[i].arg) /\ calls[i].as \in Tokens
      /\ Permitted(i, "user") => calls[i].as.user \in Users
  BY Asks DEF TabInv
<1>2. CASE ListUsers(i)
  <2>1. AnswerFits("GET users", calls[i].arg, calls[i].as, staff)
    BY <1>1 DEF AnswerFits, ServerOK
  <2> QED
    BY <1>2, <2>1, ReadOK DEF ListUsers
<1>3. CASE CreateUser(i)
  <2>1. /\ calls[i].op = "POST user" /\ Reply(i, "ok", None)
        /\ staff' = [staff EXCEPT ![calls[i].arg.user] =
                        [role |-> calls[i].arg.role, active |-> TRUE]]
        /\ UNCHANGED <<docs, templates, rows, serial, orgs>>
    BY <1>3 DEF CreateUser, Write, Sent
  <2>2. calls[i].arg.user \in Users /\ calls[i].arg.role \in Roles
    BY <1>1, <2>1 DEF ArgFits
  <2>3. ServerOK'
    BY <1>1, <2>1, <2>2, StaffSet
  <2>4. AnswerFits("POST user", calls[i].arg, calls[i].as, None)
    BY DEF AnswerFits
  <2> QED
    BY <2>1, <2>3, <2>4, AnswerOK
<1>4. CASE UpdateUser(i)
  <2> DEFINE u == calls[i].arg.user  change == calls[i].arg.change
  <2>1. /\ calls[i].op = "PATCH user" /\ Reply(i, "ok", None)
        /\ staff[u] # None
        /\ staff' = [staff EXCEPT ![u] = Changed(@, change)]
        /\ UNCHANGED <<docs, templates, rows, serial, orgs>>
    BY <1>4 DEF UpdateUser, Write, Sent, MayUpdate
  <2>2. u \in Users /\ change \in Changes
    BY <1>1, <2>1 DEF ArgFits
  <2> HIDE DEF u, change
  <2> DEFINE role == Changed(staff[u], change).role
             active == Changed(staff[u], change).active
  <2>5. /\ role \in Roles /\ active \in BOOLEAN
        /\ Changed(staff[u], change) = [role |-> role, active |-> active]
    BY <1>1, <2>1, <2>2, ChangedOK
  <2>6. staff' = [staff EXCEPT ![u] = [role |-> role, active |-> active]]
    BY <2>1, <2>5
  <2> HIDE DEF role, active
  <2>3. ServerOK'
    BY <1>1, <2>1, <2>2, <2>5, <2>6, StaffSet
  <2>4. AnswerFits("PATCH user", calls[i].arg, calls[i].as, None)
    BY DEF AnswerFits
  <2> QED
    BY <2>1, <2>3, <2>4, AnswerOK
<1>5. CASE GetMe(i)
  <2>1. (Permitted(i, "user") /\ staff[calls[i].as.user] # None)
           => AnswerFits("GET me", calls[i].arg, calls[i].as, staff[calls[i].as.user].role)
    <3>1. ASSUME Permitted(i, "user"), staff[calls[i].as.user] # None
          PROVE  staff[calls[i].as.user].role \in Roles
      BY <1>1, <3>1 DEF ServerOK, Team!Accounts, Team!Roles, Roles
    <3> QED
      BY <3>1 DEF AnswerFits, Permitted
  <2> QED
    BY <1>5, <2>1, ReadOK DEF GetMe
<1>6. CASE Login(i)
  <2>1. PICK t \in {AdminToken} \cup
                   {UserToken(u) : u \in {v \in Users : staff[v] # None /\ staff[v].active}} :
           Reply(i, "ok", t)
    BY <1>6 DEF Login
  <2>2. calls[i].op = "POST login" /\ ServerOK'
    BY <1>1, <1>6, ServerKept DEF Login, Sent
  <2>3. t \in Tokens
    <3>1. ASSUME NEW u \in Users, staff[u] # None
          PROVE  UserToken(u) \in Tokens
      <4>1. staff[u].role \in Roles
        BY <1>1, <3>1 DEF ServerOK, Team!Accounts, Team!Roles, Roles
      <4> QED
        BY <4>1 DEF UserToken, Tokens
    <3> QED
      BY <3>1 DEF Tokens
  <2>4. AnswerFits("POST login", calls[i].arg, calls[i].as, t)
    BY <2>3 DEF AnswerFits
  <2> QED
    BY <2>1, <2>2, <2>4, AnswerOK
<1>7. CASE Register(i)
  <2>1. PICK u \in Users :
           /\ staff' = [staff EXCEPT ![u] = [role |-> "owner", active |-> TRUE]]
           /\ Reply(i, "ok", [account |-> "user", user |-> u, role |-> "owner"])
    BY <1>7 DEF Register
  <2>2. calls[i].op = "POST register" /\ UNCHANGED <<docs, templates, rows, serial, orgs>>
    BY <1>7 DEF Register, Sent
  <2>3. ServerOK'
    <3>1. "owner" \in Roles /\ TRUE \in BOOLEAN
      BY DEF Roles
    <3> QED
      BY <1>1, <2>1, <2>2, <3>1, StaffSet
  <2>4. [account |-> "user", user |-> u, role |-> "owner"] \in Tokens
    BY DEF Tokens, Roles
  <2>5. AnswerFits("POST register", calls[i].arg, calls[i].as,
                   [account |-> "user", user |-> u, role |-> "owner"])
    BY <2>4 DEF AnswerFits
  <2> QED
    BY <2>1, <2>2, <2>3, <2>5, AnswerOK
<1>8. CASE Logout(i)
  <2>1. calls[i].op = "POST logout" /\ Reply(i, "ok", None) /\ ServerOK'
    BY <1>1, <1>8, ServerKept DEF Logout, Sent
  <2>2. AnswerFits("POST logout", calls[i].arg, calls[i].as, None)
    BY DEF AnswerFits
  <2> QED
    BY <2>1, <2>2, AnswerOK
<1> QED
  BY <1>2, <1>3, <1>4, <1>5, <1>6, <1>7, <1>8 DEF ServeAccounts

LEMMA AdminReadOK ==
    ASSUME TabInv, NEW i \in DOMAIN calls, NEW op, NEW data,
           AdminRead(i, op, data), user' = user,
           (calls[i].as # None /\ calls[i].as.account = "admin")
               => AnswerFits(op, calls[i].arg, calls[i].as, data)
    PROVE  TabInv'
<1>1. UNCHANGED server /\ ServerOK' /\ calls[i].op = op
  BY ServerKept DEF TabInv, AdminRead, Sent
<1>2. CASE Permitted(i, "admin")
  BY <1>1, <1>2, ReplyOK DEF AdminRead, Permitted
<1>3. CASE ~Permitted(i, "admin")
  BY <1>1, <1>3, ReplyOK DEF AdminRead
<1> QED
  BY <1>2, <1>3

LEMMA SettingSet ==
    ASSUME NEW settings \in AdminPanel!Settings, NEW f, NEW v,
           \/ f \in AdminPanel!TOGGLE_FIELDS /\ v \in BOOLEAN
           \/ f = "quota" /\ v \in Quotas
    PROVE  [settings EXCEPT ![f] = v] \in AdminPanel!Settings
<1>1. CASE f = "suspended" /\ v \in BOOLEAN
  BY <1>1 DEF AdminPanel!Settings
<1>2. CASE f = "extraction" /\ v \in BOOLEAN
  BY <1>2 DEF AdminPanel!Settings
<1>3. CASE f = "quota" /\ v \in Quotas
  BY <1>3 DEF AdminPanel!Settings
<1> QED
  BY <1>1, <1>2, <1>3 DEF AdminPanel!TOGGLE_FIELDS

LEMMA ServeAdminOK ==
    ASSUME TabInv, NEW i \in DOMAIN calls, ServeAdmin(i), user' = user
    PROVE  TabInv'
<1>1. ServerOK /\ ArgFits(calls[i].op, calls[i].arg)
  BY Asks DEF TabInv
<1>2. CASE GetAdmin(i)
  <2>1. AnswerFits("GET platform-admin/me", calls[i].arg, calls[i].as, None)
    BY DEF AnswerFits
  <2> QED
    BY <1>2, <2>1, AdminReadOK DEF GetAdmin
<1>3. CASE ListOrgs(i)
  <2>1. (calls[i].as # None /\ calls[i].as.account = "admin")
           => AnswerFits("GET orgs", calls[i].arg, calls[i].as, orgs)
    BY <1>1 DEF AnswerFits, ServerOK
  <2> QED
    BY <1>3, <2>1, AdminReadOK DEF ListOrgs
<1>4. CASE ListOrgDocuments(i)
  <2>1. AnswerFits("GET org documents", calls[i].arg, calls[i].as, calls[i].arg)
    BY DEF AnswerFits
  <2> QED
    BY <1>4, <2>1, AdminReadOK DEF ListOrgDocuments
<1>5. CASE UpdateOrganization(i)
  <2> DEFINE o == calls[i].arg.org  f == calls[i].arg.field  v == calls[i].arg.value
             settings == [orgs[o] EXCEPT ![f] = v]
  <2>1. /\ calls[i].op = "PATCH org" /\ Permitted(i, "admin")
        /\ orgs' = [orgs EXCEPT ![o] = settings] /\ Reply(i, "ok", orgs'[o])
        /\ UNCHANGED <<docs, templates, rows, serial, staff>>
    BY <1>5 DEF UpdateOrganization, Sent
  <2>2. /\ o \in Orgs
        /\ \/ f \in AdminPanel!TOGGLE_FIELDS /\ v \in BOOLEAN
           \/ f = "quota" /\ v \in Quotas
    BY <1>1, <2>1 DEF ArgFits
  <2>3. orgs[o] \in AdminPanel!Settings
    BY <1>1, <2>2 DEF ServerOK
  <2>4. settings \in AdminPanel!Settings
    <3> HIDE DEF o, f, v
    <3> QED
      BY <2>2, <2>3, SettingSet
  <2> HIDE DEF o, settings
  <2>5. orgs' \in [Orgs -> AdminPanel!Settings] /\ orgs'[o] = settings
    BY <1>1, <2>1, <2>2, <2>4 DEF ServerOK
  <2>6. ServerOK'
    BY <1>1, <2>1, <2>5 DEF ServerOK
  <2>7. AnswerFits("PATCH org", calls[i].arg, calls[i].as, orgs'[o])
    BY <2>1, <2>4, <2>5 DEF AnswerFits, Permitted
  <2> QED
    BY <2>1, <2>6, <2>7, AnswerOK
<1> QED
  BY <1>2, <1>3, <1>4, <1>5 DEF ServeAdmin

LEMMA RespondOK ==
    ASSUME TabInv, NEW i \in DOMAIN calls, Respond(i) PROVE TabInv'
<1>1. user' = user
  BY DEF Respond
<1>2. CASE ServeDocuments(i) \/ ServeExtractions(i) \/ ServeAccounts(i) \/ ServeAdmin(i)
  BY <1>1, <1>2, ServeDocumentsOK, ServeExtractionsOK, ServeAccountsOK, ServeAdminOK
<1>3. CASE (Refuse(i) \/ Lose(i)) /\ UNCHANGED server
  <2>1. ServerOK'
    BY <1>3, ServerKept DEF TabInv
  <2> QED
    BY <1>1, <1>3, <2>1, ReplyOK DEF Refuse, Lose
<1> QED
  BY <1>2, <1>3 DEF Respond
-----------------------------------------------------------------------------
(* Elsewhere, and from the start. *)

LEMMA UploadEndsOK ==
    ASSUME TabInv, UploadEnds, UNCHANGED <<ui, mount, token, user>>
    PROVE  TabInv'
<1>1. CallsOK /\ UiOK(ui) /\ UiOK(ui)' /\ Stays /\ ServerOK
  BY DEF TabInv, Stays
<1>2. PICK d \in Docs : docs' = docs \cup {d}
  BY DEF UploadEnds
<1>3. ServerOK'
  BY <1>1, <1>2 DEF ServerOK, UploadEnds
<1>4. CASE ui.view = "documents"
  <2>1. PagesOK'
    BY <1>1, PagesKept DEF TabInv
  <2>2. Managed'
    BY <1>1, <1>4 DEF Managed, Stays
  <2> DEFINE c == Call(mount, "fetchDocs", "GET documents", None, None)
  <2>3. IsFetch(c)
    BY <1>1, SentIsFetch DEF OpFits, ArgFits, KeptFits
  <2>4. InTab(c)
    BY <1>1, <1>4 DEF InTab, Call, CallsOK, Thens
  <2>5. calls' = calls \o <<c>>
    BY <1>4 DEF UploadEnds, List!Effect, List!Call, Call
  <2> HIDE DEF c
  <2>6. GoodCalls(calls')
    BY <1>1, <2>3, <2>4, <2>5, GoodOne, GoodJoined DEF CallsOK
  <2>7. CallsOK'
    BY <1>1, <2>6, CallsNext
  <2> QED
    BY <1>1, <1>3, <2>1, <2>2, <2>7 DEF TabInv
<1>5. CASE ui.view # "documents"
  <2>1. calls' = calls
    BY <1>5 DEF UploadEnds
  <2>2. CallsOK'
    BY <1>1, <2>1, CallsKept
  <2>3. Managed' /\ PagesOK'
    BY <1>1, <2>1, ManagedKept, PagesKept DEF TabInv
  <2> QED
    BY <1>1, <1>3, <2>2, <2>3 DEF TabInv
<1> QED
  BY <1>4, <1>5

LEMMA ElsewhereOK == ASSUME TabInv, Elsewhere PROVE TabInv'
<1>1. /\ CallsOK /\ ServerOK /\ Managed /\ PagesOK
      /\ UNCHANGED <<ui, mount, token, user>>
  BY DEF TabInv, Elsewhere
<1>2. CASE UploadEnds
  BY <1>1, <1>2, UploadEndsOK
<1>3. ASSUME calls' = calls, ServerOK'
      PROVE  TabInv'
  <2>1. UiOK(ui)' /\ Stays
    BY <1>1 DEF TabInv, Stays
  <2>2. CallsOK'
    BY <1>1, <1>3, <2>1, CallsKept
  <2>3. Managed' /\ PagesOK'
    BY <1>1, <1>3, <2>1, ManagedKept, PagesKept
  <2> QED
    BY <1>3, <2>1, <2>2, <2>3 DEF TabInv
<1>4. CASE OthersDelete
  <2>1. /\ docs' \subseteq docs /\ rows' \subseteq rows /\ calls' = calls
        /\ UNCHANGED <<templates, serial, staff, orgs>>
    BY <1>4 DEF OthersDelete
  <2> QED
    BY <1>1, <1>3, <2>1 DEF ServerOK
<1>5. CASE OthersManage
  <2>1. PICK u \in Users, change \in Changes :
           staff[u] # None /\ staff' = [staff EXCEPT ![u] = Changed(@, change)]
    BY <1>5 DEF OthersManage, Changes
  <2>2. calls' = calls /\ UNCHANGED <<docs, templates, rows, serial, orgs>>
    BY <1>5 DEF OthersManage
  <2> DEFINE role == Changed(staff[u], change).role
             active == Changed(staff[u], change).active
  <2>3. /\ role \in Roles /\ active \in BOOLEAN
        /\ Changed(staff[u], change) = [role |-> role, active |-> active]
    BY <1>1, <2>1, ChangedOK
  <2>4. staff' = [staff EXCEPT ![u] = [role |-> role, active |-> active]]
    BY <2>1, <2>3
  <2> HIDE DEF role, active
  <2>5. ServerOK'
    BY <1>1, <2>2, <2>3, <2>4, StaffSet
  <2> QED
    BY <1>3, <2>2, <2>5
<1> QED
  BY <1>2, <1>4, <1>5 DEF Elsewhere

\* The requests of the page or panel a tour starts on.
LEMMA TourEffect ==
    ASSUME NEW m \in Nat \ {0}, token \in Tokens, ui.view \in Panels => token # None
    PROVE  IsEffect(EffectOf(ui.view, m), m, token, ui.view)
<1>1. CASE ui.view \in Panels
  <2>1. PICK c : EffectOf(ui.view, m) = <<c>> /\ IsFirst(c, m, ui.view) /\ c.as = token
    BY <1>1, PanelEffect
  <2>2. IsSeq(<<c>>) /\ Len(<<c>>) = 1 /\ <<c>>[1] = c
    BY SeqShort
  <2>3. DOMAIN <<c>> = {1}
    BY <2>2, SeqFacts
  <2>4. Belongs(c, m, token, ui.view)
    BY <2>1 DEF Belongs, IsFirst
  <2> QED
    BY <2>1, <2>2, <2>3, <2>4 DEF IsEffect, IsFirst
<1>2. CASE ui.view = "admin" /\ token # None
  <2>1. EffectOf(ui.view, m) = << Opening(m, token, "admin: getMe", "GET platform-admin/me"),
                                  Opening(m, token, "admin: loadOrgs", "GET orgs") >>
    BY <1>2 DEF EffectOf, AdminPanel!Effect, AdminPanel!Call, Opening
  <2>2. IsEffect(<< Opening(m, token, "admin: getMe", "GET platform-admin/me"),
                    Opening(m, token, "admin: loadOrgs", "GET orgs") >>, m, token, "admin")
    BY AdminEffect
  <2> QED
    BY <1>2, <2>1, <2>2
<1>3. CASE ui.view = "dashboard" /\ token # None
  <2>1. EffectOf(ui.view, m) = << Opening(m, token, "dashboard", "GET me") >>
    BY <1>3 DEF EffectOf, Call, Opening
  <2>2. IsEffect(<< Opening(m, token, "dashboard", "GET me") >>, m, token, "dashboard")
    BY DashboardEffect
  <2> QED
    BY <1>3, <2>1, <2>2
<1>4. CASE /\ ui.view \notin Panels
           /\ ~(ui.view = "admin" /\ token # None)
           /\ ~(ui.view = "dashboard" /\ token # None)
  <2>1. EffectOf(ui.view, m) = << >>
    BY <1>4 DEF EffectOf, Panels
  <2> QED
    BY <2>1, NoEffect
<1> QED
  BY <1>1, <1>2, <1>3, <1>4

LEMMA TabInit == Init => TabInv
<1> SUFFICES ASSUME Init PROVE TabInv
  OBVIOUS
<1>1. PICK t \in Tours :
         /\ token = t.token /\ user = t.user /\ mount = 1 /\ ui = t.ui
         /\ calls = IF t.settled THEN << >> ELSE EffectOf(t.ui.view, 1)
         /\ docs = t.docs /\ templates = t.templates /\ rows = t.rows
         /\ serial = Cardinality(t.rows) /\ staff = t.staff /\ orgs = t.orgs
  BY DEF Init
<1>2. IsTour(t)
  BY TourAssumption
<1>3. ServerOK
  <2>1. Cardinality(t.rows) \in Nat
    BY <1>2, FS_CardinalityType DEF IsTour
  <2>2. serial \in 0 .. MaxRows
    <3>1. serial \in Nat /\ serial <= MaxRows
      BY <1>1, <1>2, <2>1 DEF IsTour
    <3> QED
      BY <3>1, ServerAssumption
  <2> QED
    BY <1>1, <1>2, <2>2 DEF ServerOK, IsTour
<1>4. UiOK(ui) /\ token \in Tokens
  BY <1>1, <1>2 DEF IsTour
<1>5. PagesOK
  BY <1>1, <1>2 DEF IsTour, PagesOK, PagesMatchToken, InDashboard, Panels
<1>6. IsEffect(calls, mount, token, ui.view)
  <2>1. CASE t.settled
    BY <1>1, <2>1, NoEffect
  <2>2. CASE ~t.settled
    <3>1. ui.view \in Panels => token # None
      BY <1>5 DEF PagesOK, PagesMatchToken, InDashboard
    <3>2. mount \in Nat \ {0} /\ calls = EffectOf(ui.view, mount)
      BY <1>1, <2>2
    <3> QED
      BY <1>4, <3>1, <3>2, TourEffect
  <2> QED
    BY <2>1, <2>2
<1>7. CallsOK
  BY <1>1, <1>4, <1>6 DEF IsEffect, CallsOK, GoodCalls, InTab, Belongs
<1>8. Managed
  BY <1>6 DEF IsEffect, Managed, Own
<1> QED
  BY <1>3, <1>4, <1>5, <1>7, <1>8 DEF TabInv

LEMMA TabNext == TabInv /\ [Next]_vars => TabInv'
<1> SUFFICES ASSUME TabInv, [Next]_vars PROVE TabInv'
  OBVIOUS
<1>1. CASE UNCHANGED vars
  <2>1. /\ UNCHANGED <<ui, mount, calls, token, user>> /\ UNCHANGED server
    BY <1>1 DEF vars, client
  <2>2. ServerOK' /\ Stays /\ UiOK(ui)'
    BY <2>1, ServerKept DEF TabInv, Stays
  <2>3. CallsOK'
    BY <2>1, <2>2, CallsKept DEF TabInv
  <2>4. Managed' /\ PagesOK'
    BY <2>1, <2>2, ManagedKept, PagesKept DEF TabInv
  <2> QED
    BY <2>2, <2>3, <2>4 DEF TabInv
<1>2. CASE Home \/ FollowLink \/ NoToken
  BY <1>2, RedirectOK
<1>3. CASE Submit
  BY <1>3, SubmitOK
<1>4. CASE HandleLogout
  BY <1>4, HandleLogoutOK
<1>5. CASE \E view \in Panels : GoTo(view)
  BY <1>5, GoToOK
<1>6. CASE \E d \in Docs : SelectRow(d)
  BY <1>6, SelectRowOK
<1>7. CASE ClickPanel
  BY <1>7, ClickPanelOK
<1>8. CASE \E i \in DOMAIN calls : Respond(i)
  BY <1>8, RespondOK
<1>9. ASSUME NEW i \in DOMAIN calls, Continue(i)
      PROVE  TabInv'
  <2>1. CASE SignedIn(i) \/ Unknown(i) \/ LoggedOut(i)
    BY <2>1, RedirectOK
  <2>2. CASE SignInFailed(i)
    BY <2>2, SignInFailedOK
  <2>3. CASE Known(i)
    BY <2>3, KnownOK
  <2>4. CASE ContinuePanel(i)
    BY <2>4, ContinuePanelOK DEF ContinuePanel
  <2>5. CASE Forget(i)
    BY <2>5, ForgetOK
  <2> QED
    BY <1>9, <2>1, <2>2, <2>3, <2>4, <2>5 DEF Continue
<1>10. CASE Elsewhere
  BY <1>10, ElsewhereOK
<1> QED
  BY <1>1, <1>2, <1>3, <1>4, <1>5, <1>6, <1>7, <1>8, <1>9, <1>10 DEF Next

\* The invariant the properties below are read off.
THEOREM TabAlways == Spec => []TabInv
<1>1. Init => TabInv
  BY TabInit
<1>2. TabInv /\ [Next]_vars => TabInv'
  BY TabNext
<1> QED
  BY <1>1, <1>2, PTL DEF Spec

\* The dashboard is shown to a user's token, the team panel to the user it was
\* opened for, the organizations to a platform administrator, for every set of
\* users and tours, whatever is lost or refused.
THEOREM ShownToItsToken == Spec => []PagesMatchToken
<1>1. TabInv => PagesMatchToken
  BY DEF TabInv, PagesOK
<1> QED
  BY <1>1, TabAlways, PTL

\* What the team panel offers for a row that is up to date is what the API
\* allows: the two tables of assignable roles, one on each side, agree.
THEOREM OffersAreAllowed == Spec => []OfferedIsAllowed
<1>1. TabInv => OfferedIsAllowed
  <2> SUFFICES ASSUME TabInv, ui.view = "team", token.role = ui.as.role,
                      NEW u \in Users, ui.users[u] = staff[u],
                      NEW change \in Team!Offered(u)
               PROVE  Team!MayUpdate(token.user, token.role, u, change)
    BY DEF OfferedIsAllowed, Team!OfferedIsAllowed
  <2>1. ui \in Team!States /\ ui.as.user = token.user
    BY Typed DEF TabInv, PagesOK, PagesMatchToken
  <2>2. ui.as.role \in Roles
    BY <2>1 DEF Team!States, Team!Roles, Roles
  <2>3. Team!Manageable(u)
    BY DEF Team!Offered
  <2>4. Team!Assignable = Team!ASSIGNABLE_ROLES[token.role]
    BY <2>2 DEF Team!Assignable, Team!ASSIGNABLE, Team!ASSIGNABLE_ROLES, Team!Roles, Roles
  <2>5. /\ staff[u] # None /\ u # token.user
        /\ staff[u].role # "owner" /\ staff[u].role \in Team!Assignable
    BY <2>1, <2>3 DEF Team!Manageable
  <2>6. change.role \in Team!Assignable \cup {None}
    BY <2>3 DEF Team!Offered
  <2> QED
    BY <2>4, <2>5, <2>6 DEF Team!MayUpdate
<1> QED
  BY <1>1, TabAlways, PTL
=============================================================================
