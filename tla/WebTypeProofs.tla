---------------------------- MODULE WebTypeProofs ----------------------------
(***************************************************************************)
(* Types of the tab, of its fetches and of the server's tables, for every  *)
(* set of documents, users and tours: what waits for an answer is code of  *)
(* the mounted panel that asked for it, or of one that is gone.            *)
(***************************************************************************)
EXTENDS WebApp, SequenceTheorems, FiniteSetTheorems, TLAPS

-----------------------------------------------------------------------------
(* Sequences. *)

IsSeq(s) == \E S : s \in Seq(S)

\* What a sequence is.
LEMMA SeqFacts ==
    ASSUME NEW s, IsSeq(s)
    PROVE  Len(s) \in Nat /\ DOMAIN s = 1 .. Len(s)
  BY LenProperties DEF IsSeq

LEMMA SeqReplaced ==
    ASSUME NEW s, IsSeq(s), NEW i \in DOMAIN s, NEW c
    PROVE  /\ IsSeq([s EXCEPT ![i] = c])
           /\ Len([s EXCEPT ![i] = c]) = Len(s)
           /\ DOMAIN [s EXCEPT ![i] = c] = DOMAIN s
           /\ \A k \in DOMAIN s : [s EXCEPT ![i] = c][k] = IF k = i THEN c ELSE s[k]
<1>1. PICK S : s \in Seq(S)
  BY DEF IsSeq
<1>2. s \in Seq(S \cup {c})
  BY <1>1, SeqMonotonic
<1>3. i \in 1 .. Len(s)
  BY SeqFacts
<1>4. /\ [s EXCEPT ![i] = c] \in Seq(S \cup {c})
      /\ Len([s EXCEPT ![i] = c]) = Len(s)
  BY <1>2, <1>3, ExceptSeq
<1> QED
  BY <1>4 DEF IsSeq

LEMMA SeqJoined ==
    ASSUME NEW s, NEW t, IsSeq(s), IsSeq(t)
    PROVE  /\ IsSeq(s \o t)
           /\ Len(s \o t) = Len(s) + Len(t)
           /\ \A k \in DOMAIN (s \o t) :
                 (s \o t)[k] = IF k \in DOMAIN s THEN s[k] ELSE t[k - Len(s)]
           /\ \A k \in DOMAIN (s \o t) : k \in DOMAIN s \/ k - Len(s) \in DOMAIN t
           /\ \A k \in DOMAIN s : k \in DOMAIN (s \o t)
           /\ \A k \in DOMAIN t : k + Len(s) \in DOMAIN (s \o t)
<1>1. PICK S : s \in Seq(S)
  BY DEF IsSeq
<1>2. PICK T : t \in Seq(T)
  BY DEF IsSeq
<1>3. s \in Seq(S \cup T) /\ t \in Seq(S \cup T)
  BY <1>1, <1>2, SeqMonotonic
<1>4. /\ s \o t \in Seq(S \cup T)
      /\ Len(s \o t) = Len(s) + Len(t)
      /\ \A i \in 1 .. Len(s) + Len(t) :
            (s \o t)[i] = IF i <= Len(s) THEN s[i] ELSE t[i - Len(s)]
  BY <1>3, ConcatProperties
<1>5. IsSeq(s \o t)
  BY <1>4 DEF IsSeq
<1>6. /\ Len(s) \in Nat /\ DOMAIN s = 1 .. Len(s)
      /\ Len(t) \in Nat /\ DOMAIN t = 1 .. Len(t)
      /\ DOMAIN (s \o t) = 1 .. Len(s) + Len(t)
  BY <1>4, <1>5, SeqFacts
<1> QED
  BY <1>4, <1>5, <1>6

LEMMA SeqRemoved ==
    ASSUME NEW s, IsSeq(s), NEW i \in DOMAIN s
    PROVE  /\ IsSeq(Without(s, i))
           /\ Len(Without(s, i)) = Len(s) - 1
           /\ DOMAIN Without(s, i) = 1 .. Len(s) - 1
           /\ \A k \in DOMAIN Without(s, i) :
                 Without(s, i)[k] = IF k < i THEN s[k] ELSE s[k + 1]
<1>1. PICK S : s \in Seq(S)
  BY DEF IsSeq
<1>2. Len(s) \in Nat /\ DOMAIN s = 1 .. Len(s) /\ i \in 1 .. Len(s)
  BY SeqFacts
<1>3. \A k \in 1 .. Len(s) : s[k] \in S
  BY <1>1, ElementOfSeq
<1>4. /\ Without(s, i) \in [1 .. Len(s) - 1 -> S]
      /\ \A k \in 1 .. Len(s) - 1 :
            Without(s, i)[k] = IF k < i THEN s[k] ELSE s[k + 1]
  BY <1>2, <1>3 DEF Without
<1>5. Without(s, i) \in Seq(S) /\ Len(Without(s, i)) = Len(s) - 1
  <2>1. Len(s) - 1 \in Nat
    BY <1>2
  <2>2. Without(s, i) \in Seq(S)
    BY <1>4, <2>1, SeqDef
  <2>3. DOMAIN Without(s, i) = 1 .. Len(s) - 1
    BY DEF Without
  <2> QED
    BY <2>1, <2>2, <2>3, LenProperties
<1> QED
  BY <1>4, <1>5 DEF IsSeq

LEMMA SeqShort ==
    /\ IsSeq(<< >>) /\ Len(<< >>) = 0
    /\ \A c : IsSeq(<<c>>) /\ Len(<<c>>) = 1 /\ <<c>>[1] = c
    /\ \A c, d : IsSeq(<<c, d>>) /\ Len(<<c, d>>) = 2 /\ <<c, d>>[1] = c /\ <<c, d>>[2] = d
<1>1. IsSeq(<< >>)
  <2>1. << >> \in Seq({})
    OBVIOUS
  <2> QED
    BY <2>1 DEF IsSeq
<1>2. \A c : <<c>> \in Seq({c})
  OBVIOUS
<1>3. \A c, d : <<c, d>> \in Seq({c, d})
  OBVIOUS
<1> QED
  BY <1>1, <1>2, <1>3 DEF IsSeq
-----------------------------------------------------------------------------
(* Fetches. *)

AnyRange == Ranges \cup {None}

\* The endpoint each piece of waiting code has called.
OpFits(then, op) ==
    /\ then \in {"fetchDocs", "delete: fetchDocs", "compare: documents",
                 "DocumentSelector"} => op = "GET documents"
    /\ then = "viewer" => op = "GET document"
    /\ then \in {"download", "export", "DocExportButton"} => op = "POST documents/bulk"
    /\ then = "delete" => op = "POST documents/bulk/delete"
    /\ then \in {"DocAiPanel", "AiChat"} => op = "POST ai"
    /\ then = "SearchBox" => op = "GET search"
    /\ then \in {"SearchBox: body", "AiChat: body"} => op = "body"
    /\ then = "handleCompare" => op = "POST compare"
    /\ then \in {"fetchAll", "handleExtract: fetchAll", "bulk-delete: fetchAll"}
          => op = "GET all"
    /\ then = "handleExtract" => op = "POST extract"
    /\ then \in {"bulk-delete", "delete extraction"} => op = "DELETE extractions"
    /\ then = "delete template" => op = "DELETE template"
    /\ then = "TemplateForm" => op \in {"POST template", "PATCH template"}
    /\ then \in {"load", "handleCreate: load"} => op = "GET users"
    /\ then = "patchUser" => op = "PATCH user"
    /\ then = "handleSubmit" => op \in {"POST login", "POST register"}
    /\ then = "dashboard" => op = "GET me"
    /\ then = "admin: loadOrgs" => op = "GET orgs"
    /\ then \in {"handleToggle", "handleQuotaSave"} => op = "PATCH org"
    /\ then = "toggleDocuments" => op = "GET org documents"

Questions == [doc : Docs \cup {None}, what : {"ask", "summarize"}]
Found     == [scope : Docs \cup {None}, hits : SUBSET Docs]
Changes   == [role : {None} \cup Roles, active : {None} \cup BOOLEAN]

ArgFits(op, arg) ==
    /\ op \in {"POST documents/bulk", "POST documents/bulk/delete", "POST compare"}
          => arg \in SUBSET Docs
    /\ op = "GET document" => arg \in Docs
    /\ op = "POST ai" => arg \in Questions
    /\ op = "GET search" => arg \in Docs \cup {None}
    /\ op = "GET all" => arg \in AnyRange
    /\ op = "POST extract" => arg \in [doc : Docs, template : Templates]
    /\ op = "DELETE extractions" => arg \in SUBSET (1 .. MaxRows)
    /\ op \in {"PATCH template", "DELETE template"} => arg \in Templates
    /\ op = "POST user" => arg \in [user : Users, role : Roles]
    /\ op = "PATCH user" => arg \in [user : Users, change : Changes]
    /\ op = "GET org documents" => arg \in Orgs
    /\ op = "PATCH org" =>
          arg \in [org : Orgs, field : AdminPanel!TOGGLE_FIELDS, value : BOOLEAN]
                  \cup [org : Orgs, field : {"quota"}, value : Quotas]

\* What a run remembers between two documents.
Runs == [todo : SUBSET Docs, made : SUBSET (1 .. MaxRows), failed : BOOLEAN,
         filter : AnyRange]

KeptFits(then, arg, kept) ==
    /\ then \in {"handleExtract", "handleExtract: fetchAll"} => kept \in Runs
    /\ then \in {"bulk-delete", "delete extraction"} => kept \in AnyRange
    /\ then = "delete template" =>
          kept \in [filter : AnyRange, template : Templates \cup {None}]
    /\ then = "TemplateForm" => kept \in [filter : AnyRange, no : Nat]
    /\ then = "SearchBox: body" => arg \in Found

Everything == [templates : SUBSET Templates, rows : SUBSET Extractions!AnyRow,
               all : SUBSET Extractions!AnyRow, docs : SUBSET Docs,
               refused : SUBSET Listings, part : Listings]

\* What a good answer holds.
AnswerFits(op, arg, as, data) ==
    /\ op = "GET documents" => data \in SUBSET Docs
    /\ op = "GET document" => data \in [doc : {arg}, preview : BOOLEAN]
    /\ op \in {"POST documents/bulk", "POST compare", "POST ai", "body",
               "GET org documents"} => data = arg
    /\ op = "GET search" => data \in Found
    /\ op = "GET all" => data \in Everything
    /\ op = "POST extract" => data \in 1 .. MaxRows
    /\ op = "GET users" => data \in Team!Accounts
    /\ op = "GET me" => as # None /\ as.account = "user" /\ data \in Roles
    /\ op \in {"POST login", "POST register"} => data \in Tokens
    /\ op = "GET orgs" => /\ as # None /\ as.account = "admin"
                          /\ data \in [Orgs -> AdminPanel!Settings]
    /\ op = "PATCH org" => /\ as # None /\ as.account = "admin"
                           /\ data \in AdminPanel!Settings

IsFetch(c) ==
    /\ c = [by |-> c.by, then |-> c.then, op |-> c.op, arg |-> c.arg,
            kept |-> c.kept, as |-> c.as, state |-> c.state, data |-> c.data]
    /\ OpFits(c.then, c.op) /\ ArgFits(c.op, c.arg) /\ KeptFits(c.then, c.arg, c.kept)
    /\ c.as \in Tokens
    /\ c.state \in {"sent", "ok", "refused", "lost"}
    /\ IF c.state = "ok" THEN AnswerFits(c.op, c.arg, c.as, c.data) ELSE c.data = None

\* The code of each page and panel that waits for answers.
Thens(view) ==
    CASE view \in {"login", "register"} -> {"handleSubmit"}
      [] view = "dashboard" -> {"dashboard"}
      [] view = "documents" ->
             {"fetchDocs", "download", "export", "delete", "delete: fetchDocs"}
      [] view = "viewer"    -> {"viewer", "DocExportButton", "DocAiPanel"}
      [] view = "search"    -> {"DocumentSelector", "SearchBox", "SearchBox: body"}
      [] view = "extract"   ->
             {"fetchAll", "handleExtract", "handleExtract: fetchAll", "bulk-delete",
              "bulk-delete: fetchAll", "delete extraction", "delete template",
              "handleExport", "TemplateForm"}
      [] view = "compare"   -> {"compare: documents", "handleCompare"}
      [] view = "ai"        -> {"DocumentSelector", "AiChat", "AiChat: body"}
      [] view = "team"      -> {"load", "handleCreate", "handleCreate: load", "patchUser"}
      [] view = "admin"     -> {"admin: getMe", "admin: loadOrgs", "handleToggle",
                                "handleQuotaSave", "toggleDocuments"}
      [] OTHER              -> {}

\* A fetch that somebody waits for was sent with the token of this tab; what the
\* mounted component waits for is waited for by its own code, or by logging out.
InTab(c) ==
    /\ c.by \in 0 .. mount
    /\ c.by = 0 <=> c.then = "gone"
    /\ c.then # "gone" => c.as = token
    /\ c.by = mount => c.then \in Thens(ui.view) \cup {"handleLogout"}

GoodCalls(s) ==
    IsSeq(s) /\ \A k \in DOMAIN s : IsFetch(s[k]) /\ InTab(s[k])

CallsOK == mount \in Nat \ {0} /\ token \in Tokens /\ GoodCalls(calls)

\* The component stays.
Stays == mount' = mount /\ token' = token /\ ui'.view = ui.view

LEMMA CallsNext ==
    ASSUME CallsOK, Stays, GoodCalls(calls')
    PROVE  CallsOK'
<1>1. /\ IsSeq(calls')
      /\ \A k \in DOMAIN calls' : IsFetch(calls'[k]) /\ InTab(calls'[k])
  BY DEF GoodCalls
<1>2. \A k \in DOMAIN calls' : IsFetch(calls[k])' /\ InTab(calls[k])'
  BY <1>1 DEF Stays, InTab
<1> QED
  BY <1>1, <1>2 DEF CallsOK, GoodCalls, Stays

LEMMA GoodReplaced ==
    ASSUME NEW s, GoodCalls(s), NEW i \in DOMAIN s, NEW c, IsFetch(c), InTab(c)
    PROVE  GoodCalls([s EXCEPT ![i] = c])
  BY SeqReplaced DEF GoodCalls

LEMMA GoodRemoved ==
    ASSUME NEW s, GoodCalls(s), NEW i \in DOMAIN s
    PROVE  GoodCalls(Without(s, i))
<1>1. /\ IsSeq(Without(s, i)) /\ DOMAIN Without(s, i) = 1 .. Len(s) - 1
      /\ \A k \in DOMAIN Without(s, i) :
            Without(s, i)[k] = IF k < i THEN s[k] ELSE s[k + 1]
  BY SeqRemoved DEF GoodCalls
<1>2. Len(s) \in Nat /\ DOMAIN s = 1 .. Len(s)
  BY SeqFacts DEF GoodCalls
<1>3. \A k \in DOMAIN Without(s, i) : k \in DOMAIN s /\ k + 1 \in DOMAIN s
  BY <1>1, <1>2
<1> QED
  BY <1>1, <1>3 DEF GoodCalls

LEMMA GoodJoined ==
    ASSUME NEW s, NEW t, GoodCalls(s), GoodCalls(t)
    PROVE  GoodCalls(s \o t)
<1>1. /\ IsSeq(s \o t)
      /\ \A k \in DOMAIN (s \o t) :
            (s \o t)[k] = IF k \in DOMAIN s THEN s[k] ELSE t[k - Len(s)]
      /\ \A k \in DOMAIN (s \o t) : k \in DOMAIN s \/ k - Len(s) \in DOMAIN t
  BY SeqJoined DEF GoodCalls
<1> QED
  BY <1>1 DEF GoodCalls

LEMMA GoodOne ==
    ASSUME NEW c, IsFetch(c), InTab(c)
    PROVE  GoodCalls(<<c>>)
<1>1. IsSeq(<<c>>) /\ Len(<<c>>) = 1 /\ <<c>>[1] = c
  BY SeqShort
<1>2. DOMAIN <<c>> = {1}
  BY <1>1, SeqFacts
<1> QED
  BY <1>1, <1>2 DEF GoodCalls

LEMMA CallRemoved ==
    ASSUME CallsOK, Stays, NEW i \in DOMAIN calls, Return(i)
    PROVE  CallsOK'
  BY GoodRemoved, CallsNext DEF CallsOK, Return

LEMMA SentIsFetch ==
    ASSUME CallsOK, NEW by, NEW then, NEW op, NEW arg, NEW kept,
           OpFits(then, op), ArgFits(op, arg), KeptFits(then, arg, kept)
    PROVE  IsFetch(Call(by, then, op, arg, kept))
  BY DEF CallsOK, IsFetch, Call

LEMMA FetchAppends ==
    ASSUME CallsOK, NEW then, NEW op, NEW arg, NEW kept, Fetch(then, op, arg, kept)
    PROVE  calls' = calls \o <<Call(mount, then, op, arg, kept)>>
<1> DEFINE c == Call(mount, then, op, arg, kept)
<1>1. PICK S : calls \in Seq(S)
  BY DEF CallsOK, GoodCalls, IsSeq
<1>2. calls \in Seq(S \cup {c})
  BY <1>1, SeqMonotonic
<1>3. Append(calls, c) = calls \o <<c>>
  BY <1>2, AppendIsConcat
<1> QED
  BY <1>3 DEF Fetch

LEMMA Fetched ==
    ASSUME CallsOK, Stays, NEW then, NEW op, NEW arg, NEW kept,
           OpFits(then, op), ArgFits(op, arg), KeptFits(then, arg, kept),
           then \in Thens(ui.view) \cup {"handleLogout"}, then # "gone",
           Fetch(then, op, arg, kept)
    PROVE  CallsOK'
<1> DEFINE c == Call(mount, then, op, arg, kept)
<1>1. IsFetch(c)
  BY SentIsFetch
<1>2. InTab(c)
  BY DEF InTab, Call, CallsOK
<1> HIDE DEF c
<1>3. GoodCalls(calls \o <<c>>)
  BY <1>1, <1>2, GoodOne, GoodJoined DEF CallsOK
<1>4. calls' = calls \o <<c>>
  BY FetchAppends DEF c
<1> QED
  BY <1>3, <1>4, CallsNext

LEMMA ThenFetched ==
    ASSUME CallsOK, Stays, NEW i \in DOMAIN calls,
           NEW then, NEW op, NEW arg, NEW kept,
           OpFits(then, op), ArgFits(op, arg), KeptFits(then, arg, kept),
           calls[i].then # "gone", then # "gone",
           calls[i].by = mount => then \in Thens(ui.view),
           ThenFetch(i, then, op, arg, kept)
    PROVE  CallsOK'
<1> DEFINE c == Call(calls[i].by, then, op, arg, kept)
<1>1. IsFetch(c)
  BY SentIsFetch
<1>2. InTab(calls[i])
  BY DEF CallsOK, GoodCalls
<1>3. InTab(c)
  BY <1>2 DEF InTab, Call
<1> HIDE DEF c
<1>4. calls' = [calls EXCEPT ![i] = c]
  BY DEF c, ThenFetch
<1>5. GoodCalls(calls')
  BY <1>1, <1>3, <1>4, GoodReplaced DEF CallsOK
<1> QED
  BY <1>5, CallsNext

LEMMA Replied ==
    ASSUME CallsOK, NEW i \in DOMAIN calls, NEW state, NEW data,
           state \in {"ok", "refused", "lost"},
           IF state = "ok" THEN AnswerFits(calls[i].op, calls[i].arg, calls[i].as, data)
           ELSE data = None,
           Reply(i, state, data)
    PROVE  CallsOK'
<1> DEFINE c == [calls[i] EXCEPT !.state = state, !.data = data]
<1>1. IsFetch(calls[i]) /\ InTab(calls[i])
  BY DEF CallsOK, GoodCalls
<1>2. c \in [by : {calls[i].by}, then : {calls[i].then}, op : {calls[i].op},
             arg : {calls[i].arg}, kept : {calls[i].kept}, as : {calls[i].as},
             state : {state}, data : {data}]
  <2>1. calls[i] = [by |-> calls[i].by, then |-> calls[i].then, op |-> calls[i].op,
                    arg |-> calls[i].arg, kept |-> calls[i].kept, as |-> calls[i].as,
                    state |-> calls[i].state, data |-> calls[i].data]
    BY <1>1 DEF IsFetch
  <2>2. calls[i] \in
          [by : {calls[i].by}, then : {calls[i].then}, op : {calls[i].op},
           arg : {calls[i].arg}, kept : {calls[i].kept}, as : {calls[i].as},
           state : {calls[i].state}, data : {calls[i].data}]
    BY <2>1
  <2> QED
    BY <2>2
<1> HIDE DEF c
<1>3. IsFetch(c) /\ InTab(c)
  BY <1>1, <1>2 DEF IsFetch, InTab
<1>4. Stays
  BY DEF Reply, Stays
<1>5. calls' = [calls EXCEPT ![i] = c]
  BY DEF Reply, c
<1>6. GoodCalls(calls')
  BY <1>3, <1>5, GoodReplaced DEF CallsOK
<1> QED
  BY <1>4, <1>6, CallsNext

\* The answer of a fetch that succeeded is taken in part.
LEMMA Reread ==
    ASSUME CallsOK, Stays, NEW i \in DOMAIN calls, NEW data, IsOk(i),
           AnswerFits(calls[i].op, calls[i].arg, calls[i].as, data),
           calls' = [calls EXCEPT ![i].data = data]
    PROVE  CallsOK'
<1> DEFINE c == [calls[i] EXCEPT !.data = data]
<1>1. IsFetch(calls[i]) /\ InTab(calls[i])
  BY DEF CallsOK, GoodCalls
<1>2. c \in [by : {calls[i].by}, then : {calls[i].then}, op : {calls[i].op},
             arg : {calls[i].arg}, kept : {calls[i].kept}, as : {calls[i].as},
             state : {"ok"}, data : {data}]
  <2>1. calls[i] = [by |-> calls[i].by, then |-> calls[i].then, op |-> calls[i].op,
                    arg |-> calls[i].arg, kept |-> calls[i].kept, as |-> calls[i].as,
                    state |-> calls[i].state, data |-> calls[i].data]
    BY <1>1 DEF IsFetch
  <2>2. calls[i] \in
          [by : {calls[i].by}, then : {calls[i].then}, op : {calls[i].op},
           arg : {calls[i].arg}, kept : {calls[i].kept}, as : {calls[i].as},
           state : {"ok"}, data : {calls[i].data}]
    BY <2>1 DEF IsOk
  <2> QED
    BY <2>2
<1>3. calls' = [calls EXCEPT ![i] = c]
  OBVIOUS
<1> HIDE DEF c
<1>4. IsFetch(c) /\ InTab(c)
  BY <1>1, <1>2 DEF IsFetch, InTab
<1>5. GoodCalls([calls EXCEPT ![i] = c])
  BY <1>4, GoodReplaced DEF CallsOK
<1> QED
  BY <1>3, <1>5, CallsNext
-----------------------------------------------------------------------------
(* The mounted component. *)

\* The state of a component has its component's type, and no other.
LEMMA Typed ==
    ASSUME NEW u
    PROVE  /\ u \in List!States <=> UiOK(u) /\ u.view = "documents"
           /\ u \in Viewer!States <=> UiOK(u) /\ u.view = "viewer"
           /\ u \in SearchPanel!States <=> UiOK(u) /\ u.view = "search"
           /\ u \in Extractions!States <=> UiOK(u) /\ u.view = "extract"
           /\ u \in Comparison!States <=> UiOK(u) /\ u.view = "compare"
           /\ u \in Chat!States <=> UiOK(u) /\ u.view = "ai"
           /\ u \in Team!States <=> UiOK(u) /\ u.view = "team"
           /\ u \in AdminPanel!States <=> UiOK(u) /\ u.view = "admin"
  BY DEF UiOK, List!States, Viewer!States, SearchPanel!States, Extractions!States,
         Comparison!States, Chat!States, Team!States, AdminPanel!States

LEMMA SetStateOK ==
    ASSUME UiOK(ui), NEW i, NEW new, SetState(i, new), mount' = mount, token' = token,
           calls[i].by = mount => UiOK(new) /\ new.view = ui.view
    PROVE  UiOK(ui)' /\ Stays
  BY DEF SetState, Stays

LEMMA CallsKept ==
    ASSUME CallsOK, Stays, calls' = calls
    PROVE  CallsOK'
  BY CallsNext DEF CallsOK

LEMMA ListShared ==
    /\ \A i : List!Return(i) <=> Return(i)
    /\ \A i, new : List!SetState(i, new) <=> SetState(i, new)
    /\ \A then, op, arg, kept :
          List!Fetch(then, op, arg, kept) <=> Fetch(then, op, arg, kept)
    /\ \A i, then, op, arg, kept :
          List!ThenFetch(i, then, op, arg, kept) <=> ThenFetch(i, then, op, arg, kept)
    /\ \A i, then : List!Awaited(i, then) <=> Awaited(i, then)
    /\ \A i : List!IsOk(i) <=> IsOk(i)
  BY DEF List!Return, Return, List!SetState, SetState, List!Fetch, Fetch,
         List!ThenFetch, ThenFetch, List!Call, Call, List!Awaited, Awaited,
         List!IsOk, IsOk, List!Without, Without

LEMMA ViewerShared ==
    /\ \A i : Viewer!Return(i) <=> Return(i)
    /\ \A i, new : Viewer!SetState(i, new) <=> SetState(i, new)
    /\ \A then, op, arg, kept :
          Viewer!Fetch(then, op, arg, kept) <=> Fetch(then, op, arg, kept)
    /\ \A i, then, op, arg, kept :
          Viewer!ThenFetch(i, then, op, arg, kept) <=> ThenFetch(i, then, op, arg, kept)
    /\ \A i, then : Viewer!Awaited(i, then) <=> Awaited(i, then)
    /\ \A i : Viewer!IsOk(i) <=> IsOk(i)
  BY DEF Viewer!Return, Return, Viewer!SetState, SetState, Viewer!Fetch, Fetch,
         Viewer!ThenFetch, ThenFetch, Viewer!Call, Call, Viewer!Awaited, Awaited,
         Viewer!IsOk, IsOk, Viewer!Without, Without

LEMMA SearchShared ==
    /\ \A i : SearchPanel!Return(i) <=> Return(i)
    /\ \A i, new : SearchPanel!SetState(i, new) <=> SetState(i, new)
    /\ \A then, op, arg, kept :
          SearchPanel!Fetch(then, op, arg, kept) <=> Fetch(then, op, arg, kept)
    /\ \A i, then, op, arg, kept :
          SearchPanel!ThenFetch(i, then, op, arg, kept) <=> ThenFetch(i, then, op, arg, kept)
    /\ \A i, then : SearchPanel!Awaited(i, then) <=> Awaited(i, then)
    /\ \A i : SearchPanel!IsOk(i) <=> IsOk(i)
  BY DEF SearchPanel!Return, Return, SearchPanel!SetState, SetState, SearchPanel!Fetch, Fetch,
         SearchPanel!ThenFetch, ThenFetch, SearchPanel!Call, Call, SearchPanel!Awaited, Awaited,
         SearchPanel!IsOk, IsOk, SearchPanel!Without, Without

LEMMA ChatShared ==
    /\ \A i : Chat!Return(i) <=> Return(i)
    /\ \A i, new : Chat!SetState(i, new) <=> SetState(i, new)
    /\ \A then, op, arg, kept :
          Chat!Fetch(then, op, arg, kept) <=> Fetch(then, op, arg, kept)
    /\ \A i, then, op, arg, kept :
          Chat!ThenFetch(i, then, op, arg, kept) <=> ThenFetch(i, then, op, arg, kept)
    /\ \A i, then : Chat!Awaited(i, then) <=> Awaited(i, then)
    /\ \A i : Chat!IsOk(i) <=> IsOk(i)
  BY DEF Chat!Return, Return, Chat!SetState, SetState, Chat!Fetch, Fetch,
         Chat!ThenFetch, ThenFetch, Chat!Call, Call, Chat!Awaited, Awaited,
         Chat!IsOk, IsOk, Chat!Without, Without

LEMMA ComparisonShared ==
    /\ \A i : Comparison!Return(i) <=> Return(i)
    /\ \A i, new : Comparison!SetState(i, new) <=> SetState(i, new)
    /\ \A then, op, arg, kept :
          Comparison!Fetch(then, op, arg, kept) <=> Fetch(then, op, arg, kept)
    /\ \A i, then, op, arg, kept :
          Comparison!ThenFetch(i, then, op, arg, kept) <=> ThenFetch(i, then, op, arg, kept)
    /\ \A i, then : Comparison!Awaited(i, then) <=> Awaited(i, then)
    /\ \A i : Comparison!IsOk(i) <=> IsOk(i)
  BY DEF Comparison!Return, Return, Comparison!SetState, SetState, Comparison!Fetch, Fetch,
         Comparison!ThenFetch, ThenFetch, Comparison!Call, Call, Comparison!Awaited, Awaited,
         Comparison!IsOk, IsOk, Comparison!Without, Without

LEMMA ExtractionsShared ==
    /\ \A i : Extractions!Return(i) <=> Return(i)
    /\ \A i, new : Extractions!SetState(i, new) <=> SetState(i, new)
    /\ \A then, op, arg, kept :
          Extractions!Fetch(then, op, arg, kept) <=> Fetch(then, op, arg, kept)
    /\ \A i, then, op, arg, kept :
          Extractions!ThenFetch(i, then, op, arg, kept) <=> ThenFetch(i, then, op, arg, kept)
    /\ \A i, then : Extractions!Awaited(i, then) <=> Awaited(i, then)
    /\ \A i : Extractions!IsOk(i) <=> IsOk(i)
  BY DEF Extractions!Return, Return, Extractions!SetState, SetState, Extractions!Fetch, Fetch,
         Extractions!ThenFetch, ThenFetch, Extractions!Call, Call, Extractions!Awaited, Awaited,
         Extractions!IsOk, IsOk, Extractions!Without, Without

LEMMA TeamShared ==
    /\ \A i : Team!Return(i) <=> Return(i)
    /\ \A i, new : Team!SetState(i, new) <=> SetState(i, new)
    /\ \A then, op, arg, kept :
          Team!Fetch(then, op, arg, kept) <=> Fetch(then, op, arg, kept)
    /\ \A i, then, op, arg, kept :
          Team!ThenFetch(i, then, op, arg, kept) <=> ThenFetch(i, then, op, arg, kept)
    /\ \A i, then : Team!Awaited(i, then) <=> Awaited(i, then)
    /\ \A i : Team!IsOk(i) <=> IsOk(i)
  BY DEF Team!Return, Return, Team!SetState, SetState, Team!Fetch, Fetch,
         Team!ThenFetch, ThenFetch, Team!Call, Call, Team!Awaited, Awaited,
         Team!IsOk, IsOk, Team!Without, Without

LEMMA AdminShared ==
    /\ \A i : AdminPanel!Return(i) <=> Return(i)
    /\ \A i, new : AdminPanel!SetState(i, new) <=> SetState(i, new)
    /\ \A then, op, arg, kept :
          AdminPanel!Fetch(then, op, arg, kept) <=> Fetch(then, op, arg, kept)
    /\ \A i, then, op, arg, kept :
          AdminPanel!ThenFetch(i, then, op, arg, kept) <=> ThenFetch(i, then, op, arg, kept)
    /\ \A i, then : AdminPanel!Awaited(i, then) <=> Awaited(i, then)
    /\ \A i : AdminPanel!IsOk(i) <=> IsOk(i)
  BY DEF AdminPanel!Return, Return, AdminPanel!SetState, SetState, AdminPanel!Fetch, Fetch,
         AdminPanel!ThenFetch, ThenFetch, AdminPanel!Call, Call, AdminPanel!Awaited, Awaited,
         AdminPanel!IsOk, IsOk, AdminPanel!Without, Without

LEMMA ListClick ==
    ASSUME UiOK(ui), CallsOK, List!Click
    PROVE  UiOK(ui)' /\ CallsOK' /\ Stays
<1>1. ui.view = "documents" /\ ui \in List!States
  <2>1. ui.view = "documents"
    BY DEF List!Click, List!ToggleSelect, List!ToggleAll, List!Refresh, List!Shown,
           List!HandleBulkDownload, List!HandleBulkExport, List!HandleBulkDelete,
           List!BulkAction, List!Offers
  <2> QED
    BY <2>1, Typed
<1>2. CASE (\E d \in Docs : List!ToggleSelect(d)) \/ List!ToggleAll
  <2>1. ui' \in List!States /\ mount' = mount /\ token' = token /\ calls' = calls
    BY <1>1, <1>2 DEF List!ToggleSelect, List!ToggleAll, List!States, List!Toggle
  <2>2. UiOK(ui)' /\ Stays
    BY <1>1, <2>1, Typed DEF Stays
  <2> QED
    BY <2>1, <2>2, CallsKept
<1>3. CASE List!Refresh
  <2>1. Stays /\ ui' = ui
    BY <1>3 DEF List!Refresh, Stays
  <2>2. Fetch("fetchDocs", "GET documents", None, None)
    BY <1>3, ListShared DEF List!Refresh
  <2>3. CallsOK'
    BY <1>1, <2>1, <2>2, Fetched DEF OpFits, ArgFits, KeptFits, Thens
  <2> QED
    BY <2>1, <2>3
<1>4. ASSUME NEW action \in {"download", "export", "delete"},
             NEW op \in {"POST documents/bulk", "POST documents/bulk/delete"},
             action = "delete" <=> op = "POST documents/bulk/delete",
             List!BulkAction(action, op)
      PROVE  UiOK(ui)' /\ CallsOK' /\ Stays
  <2>1. ui' \in List!States /\ mount' = mount /\ token' = token
    BY <1>1, <1>4 DEF List!BulkAction, List!States
  <2>2. UiOK(ui)' /\ Stays
    BY <1>1, <2>1, Typed DEF Stays
  <2>3. Fetch(action, op, ui.selected, None) /\ ui.selected \in SUBSET Docs
    BY <1>1, <1>4, ListShared DEF List!BulkAction, List!States
  <2>4. CallsOK'
    BY <1>1, <1>4, <2>2, <2>3, Fetched DEF OpFits, ArgFits, KeptFits, Thens
  <2> QED
    BY <2>2, <2>4
<1>5. CASE List!HandleBulkDownload \/ List!HandleBulkExport \/ List!HandleBulkDelete
  BY <1>4, <1>5 DEF List!HandleBulkDownload, List!HandleBulkExport, List!HandleBulkDelete
<1> QED
  BY <1>2, <1>3, <1>5 DEF List!Click

LEMMA ListContinue ==
    ASSUME UiOK(ui), CallsOK, NEW i \in DOMAIN calls, List!Continue(i)
    PROVE  UiOK(ui)' /\ CallsOK' /\ Stays
<1>1. IsFetch(calls[i]) /\ InTab(calls[i])
  BY DEF CallsOK, GoodCalls
<1>2. calls[i].by = mount => ui.view = "documents" /\ ui \in List!States
  <2>1. calls[i].then \in {"fetchDocs", "download", "export", "delete",
                           "delete: fetchDocs"}
    BY DEF List!Awaited, List!Continue, List!FetchDocs, List!BulkActionDone,
           List!BulkDeleteDone, List!DeletedLoaded
  <2> QED
    BY <1>1, <2>1, Typed DEF InTab, Thens
<1>3. ASSUME IsOk(i), calls[i].then \in {"fetchDocs", "delete: fetchDocs"}
      PROVE  calls[i].data \in SUBSET Docs
  BY <1>1, <1>3 DEF IsFetch, OpFits, AnswerFits, IsOk
<1>4. CASE List!FetchDocs(i)
  <2>1. calls[i].by = mount => List!Loaded(i) \in List!States
    BY <1>2, <1>3, <1>4, ListShared
       DEF List!FetchDocs, List!Loaded, List!States, Awaited
  <2>2. UiOK(ui)' /\ Stays
    BY <1>2, <1>4, <2>1, Typed, SetStateOK, ListShared DEF List!FetchDocs
  <2> QED
    BY <1>4, <2>2, CallRemoved, ListShared DEF List!FetchDocs
<1>5. CASE List!BulkActionDone(i)
  <2>1. calls[i].by = mount => [ui EXCEPT !.action = None] \in List!States
    BY <1>2 DEF List!States
  <2>2. UiOK(ui)' /\ Stays
    BY <1>2, <1>5, <2>1, Typed, SetStateOK, ListShared DEF List!BulkActionDone
  <2> QED
    BY <1>5, <2>2, CallRemoved, ListShared DEF List!BulkActionDone
<1>6. CASE List!BulkDeleteDone(i)
  <2>1. calls[i].by = mount => /\ [ui EXCEPT !.action = None] \in List!States
                               /\ [ui EXCEPT !.selected = {}] \in List!States
    BY <1>2 DEF List!States
  <2>2. UiOK(ui)' /\ Stays
    BY <1>2, <1>6, <2>1, Typed, SetStateOK, ListShared DEF List!BulkDeleteDone
  <2>3. CASE IsOk(i)
    <3>1. ThenFetch(i, "delete: fetchDocs", "GET documents", None, None)
      BY <1>6, <2>3, ListShared DEF List!BulkDeleteDone
    <3> QED
      BY <1>2, <1>6, <2>2, <3>1, ThenFetched, ListShared
         DEF OpFits, ArgFits, KeptFits, Thens, List!BulkDeleteDone, Awaited
  <2>4. CASE ~IsOk(i)
    BY <1>6, <2>2, <2>4, CallRemoved, ListShared DEF List!BulkDeleteDone
  <2> QED
    BY <2>3, <2>4
<1>7. CASE List!DeletedLoaded(i)
  <2>1. calls[i].by = mount => [List!Loaded(i) EXCEPT !.action = None] \in List!States
    BY <1>2, <1>3, <1>7, ListShared
       DEF List!DeletedLoaded, List!Loaded, List!States, Awaited
  <2>2. UiOK(ui)' /\ Stays
    BY <1>2, <1>7, <2>1, Typed, SetStateOK, ListShared DEF List!DeletedLoaded
  <2> QED
    BY <1>7, <2>2, CallRemoved, ListShared DEF List!DeletedLoaded
<1> QED
  BY <1>4, <1>5, <1>6, <1>7 DEF List!Continue

LEMMA ViewerClick ==
    ASSUME UiOK(ui), CallsOK, Viewer!Click
    PROVE  UiOK(ui)' /\ CallsOK' /\ Stays
<1>1. ui.view = "viewer" /\ ui \in Viewer!States
  <2>1. ui.view = "viewer"
    BY DEF Viewer!Click, Viewer!ShowTab, Viewer!SetMode, Viewer!HandleExport,
           Viewer!TypeQuestion, Viewer!HandleAsk, Viewer!CanAsk, Viewer!Shown
  <2> QED
    BY <2>1, Typed
<1>2. CASE \/ \E t \in {"preview", "text"} : Viewer!ShowTab(t)
           \/ \E m \in {"ask", "summarize"} : Viewer!SetMode(m)
           \/ Viewer!TypeQuestion
  <2>1. ui' \in Viewer!States /\ mount' = mount /\ token' = token /\ calls' = calls
    BY <1>1, <1>2 DEF Viewer!ShowTab, Viewer!SetMode, Viewer!TypeQuestion, Viewer!States
  <2>2. UiOK(ui)' /\ Stays
    BY <1>1, <2>1, Typed DEF Stays
  <2> QED
    BY <2>1, <2>2, CallsKept
<1>3. CASE Viewer!HandleExport
  <2>1. ui' \in Viewer!States /\ mount' = mount /\ token' = token /\ ui.doc \in Docs
    BY <1>1, <1>3 DEF Viewer!HandleExport, Viewer!States
  <2>2. UiOK(ui)' /\ Stays
    BY <1>1, <2>1, Typed DEF Stays
  <2>3. Fetch("DocExportButton", "POST documents/bulk", {ui.doc}, None)
    BY <1>3, ViewerShared DEF Viewer!HandleExport
  <2>4. CallsOK'
    BY <1>1, <2>1, <2>2, <2>3, Fetched DEF OpFits, ArgFits, KeptFits, Thens
  <2> QED
    BY <2>2, <2>4
<1>4. CASE Viewer!HandleAsk
  <2>1. ui' \in Viewer!States /\ mount' = mount /\ token' = token
    BY <1>1, <1>4 DEF Viewer!HandleAsk, Viewer!States
  <2>2. UiOK(ui)' /\ Stays
    BY <1>1, <2>1, Typed DEF Stays
  <2>3. Fetch("DocAiPanel", "POST ai", [doc |-> ui.doc, what |-> ui.mode], None)
    BY <1>4, ViewerShared DEF Viewer!HandleAsk
  <2>4. [doc |-> ui.doc, what |-> ui.mode] \in Questions
    BY <1>1 DEF Questions, Viewer!States
  <2>5. CallsOK'
    BY <1>1, <2>2, <2>3, <2>4, Fetched DEF OpFits, ArgFits, KeptFits, Thens
  <2> QED
    BY <2>2, <2>5
<1> QED
  BY <1>2, <1>3, <1>4 DEF Viewer!Click

LEMMA ViewerContinue ==
    ASSUME UiOK(ui), CallsOK, NEW i \in DOMAIN calls, Viewer!Continue(i)
    PROVE  UiOK(ui)' /\ CallsOK' /\ Stays
<1>1. IsFetch(calls[i]) /\ InTab(calls[i])
  BY DEF CallsOK, GoodCalls
<1>2. calls[i].by = mount => ui.view = "viewer" /\ ui \in Viewer!States
  <2>1. calls[i].then \in {"viewer", "DocExportButton", "DocAiPanel"}
    BY DEF Viewer!Awaited, Viewer!Continue, Viewer!Load, Viewer!Exported, Viewer!Answered
  <2> QED
    BY <1>1, <2>1, Typed DEF InTab, Thens
<1>3. CASE Viewer!Load(i)
  <2>1. IsOk(i) => calls[i].data \in [doc : Docs \cup {None}, preview : BOOLEAN]
    <3>1. Awaited(i, "viewer")
      BY <1>3, ViewerShared DEF Viewer!Load
    <3> QED
      BY <1>1, <3>1 DEF IsFetch, OpFits, ArgFits, AnswerFits, IsOk, Awaited
  <2>2. Viewer!Detail(i) \in [doc : Docs \cup {None}, preview : BOOLEAN]
    BY <2>1, ViewerShared DEF Viewer!Detail
  <2>3. calls[i].by = mount =>
          [ui EXCEPT !.detail = IF calls[i].state = "lost" THEN @ ELSE Viewer!Detail(i),
                     !.loading = FALSE] \in Viewer!States
    BY <1>2, <2>2 DEF Viewer!States
  <2>4. UiOK(ui)' /\ Stays
    BY <1>2, <1>3, <2>3, Typed, SetStateOK, ViewerShared DEF Viewer!Load
  <2> QED
    BY <1>3, <2>4, CallRemoved, ViewerShared DEF Viewer!Load
<1>4. CASE Viewer!Exported(i)
  <2>1. calls[i].by = mount => [ui EXCEPT !.exporting = FALSE] \in Viewer!States
    BY <1>2 DEF Viewer!States
  <2>2. UiOK(ui)' /\ Stays
    BY <1>2, <1>4, <2>1, Typed, SetStateOK, ViewerShared DEF Viewer!Exported
  <2> QED
    BY <1>4, <2>2, CallRemoved, ViewerShared DEF Viewer!Exported
<1>5. CASE Viewer!Answered(i)
  <2> DEFINE answer == IF IsOk(i) THEN calls[i].data ELSE [doc |-> None, what |-> "failure"]
  <2>1. answer \in [doc : Docs \cup {None}, what : {"ask", "summarize", "failure"}]
    <3>1. Awaited(i, "DocAiPanel")
      BY <1>5, ViewerShared DEF Viewer!Answered
    <3>2. IsOk(i) => calls[i].data \in Questions
      BY <1>1, <3>1 DEF IsFetch, OpFits, ArgFits, AnswerFits, IsOk, Awaited
    <3> QED
      BY <3>2 DEF Questions
  <2>2. SetState(i, [ui EXCEPT !.answer = answer, !.asking = FALSE])
    BY <1>5, ViewerShared DEF Viewer!Answered
  <2> HIDE DEF answer
  <2>3. calls[i].by = mount =>
          [ui EXCEPT !.answer = answer, !.asking = FALSE] \in Viewer!States
    BY <1>2, <2>1 DEF Viewer!States
  <2>4. UiOK(ui)' /\ Stays
    BY <1>2, <1>5, <2>2, <2>3, Typed, SetStateOK DEF Viewer!Answered
  <2> QED
    BY <1>5, <2>4, CallRemoved, ViewerShared DEF Viewer!Answered
<1> QED
  BY <1>3, <1>4, <1>5 DEF Viewer!Continue

LEMMA SearchClick ==
    ASSUME UiOK(ui), CallsOK, SearchPanel!Click
    PROVE  UiOK(ui)' /\ CallsOK' /\ Stays
<1>1. ui.view = "search" /\ ui \in SearchPanel!States
  <2>1. ui.view = "search"
    BY DEF SearchPanel!Click, SearchPanel!SelectDocument, SearchPanel!HandleSearch,
           SearchPanel!ToggleExpand, SearchPanel!CanSearch, SearchPanel!HitsShown,
           SearchPanel!Shown
  <2> QED
    BY <2>1, Typed
<1>2. CASE \/ \E d \in Docs \cup {None} : SearchPanel!SelectDocument(d)
           \/ \E h \in Docs : SearchPanel!ToggleExpand(h)
  <2>1. ui' \in SearchPanel!States /\ mount' = mount /\ token' = token /\ calls' = calls
    BY <1>1, <1>2 DEF SearchPanel!SelectDocument, SearchPanel!ToggleExpand,
                      SearchPanel!States, SearchPanel!Toggle
  <2>2. UiOK(ui)' /\ Stays
    BY <1>1, <2>1, Typed DEF Stays
  <2> QED
    BY <2>1, <2>2, CallsKept
<1>3. CASE SearchPanel!HandleSearch
  <2>1. ui' \in SearchPanel!States /\ mount' = mount /\ token' = token
    BY <1>1, <1>3 DEF SearchPanel!HandleSearch, SearchPanel!States
  <2>2. UiOK(ui)' /\ Stays
    BY <1>1, <2>1, Typed DEF Stays
  <2>3. Fetch("SearchBox", "GET search", ui.docFilter, None)
    BY <1>3, SearchShared DEF SearchPanel!HandleSearch
  <2>4. ui.docFilter \in Docs \cup {None}
    BY <1>1 DEF SearchPanel!States
  <2>5. CallsOK'
    BY <1>1, <2>2, <2>3, <2>4, Fetched DEF OpFits, ArgFits, KeptFits, Thens
  <2> QED
    BY <2>2, <2>5
<1> QED
  BY <1>2, <1>3 DEF SearchPanel!Click

\* The menu of documents of either panel.
LEMMA MenuTyped ==
    ASSUME UiOK(ui), CallsOK, NEW i \in DOMAIN calls, Awaited(i, "DocumentSelector"),
           calls[i].by = mount
    PROVE  LET new == [ui EXCEPT !.menu =
                         CASE calls[i].state = "ok"      -> calls[i].data
                           [] calls[i].state = "refused" -> {}
                           [] OTHER                      -> @]
           IN  UiOK(new) /\ new.view = ui.view
<1>1. IsFetch(calls[i]) /\ InTab(calls[i])
  BY DEF CallsOK, GoodCalls
<1>2. ui \in SearchPanel!States \/ ui \in Chat!States
  <2>1. ui.view \in {"search", "ai"}
    BY <1>1 DEF InTab, Thens, Awaited
  <2> QED
    BY <2>1, Typed
<1>3. calls[i].state = "ok" => calls[i].data \in SUBSET Docs
  BY <1>1 DEF IsFetch, OpFits, AnswerFits, Awaited
<1> DEFINE menu == CASE calls[i].state = "ok"      -> calls[i].data
                     [] calls[i].state = "refused" -> {}
                     [] OTHER                      -> ui.menu
<1>4. menu \in SUBSET Docs
  BY <1>2, <1>3 DEF SearchPanel!States, Chat!States
<1> HIDE DEF menu
<1>5. \/ [ui EXCEPT !.menu = menu] \in SearchPanel!States /\ ui \in SearchPanel!States
      \/ [ui EXCEPT !.menu = menu] \in Chat!States /\ ui \in Chat!States
  BY <1>2, <1>4 DEF SearchPanel!States, Chat!States
<1>6. UiOK([ui EXCEPT !.menu = menu]) /\ [ui EXCEPT !.menu = menu].view = ui.view
  BY <1>5, Typed
<1> QED
  BY <1>6 DEF menu

LEMMA SearchContinue ==
    ASSUME UiOK(ui), CallsOK, NEW i \in DOMAIN calls, SearchPanel!Continue(i)
    PROVE  UiOK(ui)' /\ CallsOK' /\ Stays
<1>1. IsFetch(calls[i]) /\ InTab(calls[i])
  BY DEF CallsOK, GoodCalls
<1>2. ASSUME calls[i].then \in {"SearchBox", "SearchBox: body"}, calls[i].by = mount
      PROVE  ui.view = "search" /\ ui \in SearchPanel!States
  BY <1>1, <1>2, Typed DEF InTab, Thens
<1>3. CASE SearchPanel!SelectorLoaded(i)
  <2>1. UiOK(ui)' /\ Stays
    BY <1>3, MenuTyped, SetStateOK, SearchShared DEF SearchPanel!SelectorLoaded
  <2> QED
    BY <1>3, <2>1, CallRemoved, SearchShared DEF SearchPanel!SelectorLoaded
<1>4. CASE SearchPanel!Headers(i)
  <2>1. Awaited(i, "SearchBox") /\ IsOk(i)
    BY <1>4, SearchShared DEF SearchPanel!Headers
  <2>2. calls[i].by = mount => [ui EXCEPT !.loading = FALSE] \in SearchPanel!States
    BY <1>2, <2>1 DEF SearchPanel!States, Awaited
  <2>3. UiOK(ui)' /\ Stays
    BY <1>2, <1>4, <2>1, <2>2, Typed, SetStateOK, SearchShared
       DEF SearchPanel!Headers, Awaited
  <2>4. ThenFetch(i, "SearchBox: body", "body", calls[i].data, None)
    BY <1>4, SearchShared DEF SearchPanel!Headers
  <2>5. calls[i].data \in Found
    BY <1>1, <2>1 DEF IsFetch, OpFits, AnswerFits, IsOk, Awaited
  <2>6. CallsOK'
    BY <1>2, <2>1, <2>3, <2>4, <2>5, ThenFetched
       DEF OpFits, ArgFits, KeptFits, Thens, Awaited
  <2> QED
    BY <2>3, <2>6
<1>5. CASE SearchPanel!Failed(i)
  <2>1. calls[i].then \in {"SearchBox", "SearchBox: body"}
    BY <1>5 DEF SearchPanel!Failed, SearchPanel!Awaited
  <2>2. calls[i].by = mount =>
          [ui EXCEPT !.loading = FALSE, !.error = TRUE] \in SearchPanel!States
    BY <1>2, <2>1 DEF SearchPanel!States
  <2>3. UiOK(ui)' /\ Stays
    BY <1>2, <1>5, <2>1, <2>2, Typed, SetStateOK, SearchShared DEF SearchPanel!Failed
  <2> QED
    BY <1>5, <2>3, CallRemoved, SearchShared DEF SearchPanel!Failed
<1>6. CASE SearchPanel!Results(i)
  <2>1. Awaited(i, "SearchBox: body") /\ IsOk(i)
    BY <1>6, SearchShared DEF SearchPanel!Results
  <2>2. calls[i].data \in Found
    BY <1>1, <2>1 DEF IsFetch, OpFits, KeptFits, AnswerFits, IsOk, Awaited
  <2>3. calls[i].by = mount =>
          [ui EXCEPT !.results = calls[i].data, !.expanded = {}] \in SearchPanel!States
    BY <1>2, <2>1, <2>2 DEF SearchPanel!States, Awaited, Found
  <2>4. UiOK(ui)' /\ Stays
    BY <1>2, <1>6, <2>1, <2>3, Typed, SetStateOK, SearchShared
       DEF SearchPanel!Results, Awaited
  <2> QED
    BY <1>6, <2>4, CallRemoved, SearchShared DEF SearchPanel!Results
<1> QED
  BY <1>3, <1>4, <1>5, <1>6 DEF SearchPanel!Continue

LEMMA SaidTyped ==
    ASSUME ui \in Chat!States, NEW role \in Chat!Speakers
    PROVE  /\ Chat!Said(role) \in Chat!States
           /\ \A loading \in BOOLEAN :
                 [Chat!Said(role) EXCEPT !.loading = loading] \in Chat!States
<1>1. ui.messages \in Seq(Chat!Speakers)
  BY DEF Chat!States
<1>2. Append(ui.messages, role) \in Seq(Chat!Speakers)
  BY <1>1, AppendProperties
<1>3. Chat!Said(role) \in Chat!States
  BY <1>2 DEF Chat!States, Chat!Said
<1> QED
  BY <1>3 DEF Chat!States

LEMMA ChatClick ==
    ASSUME UiOK(ui), CallsOK, Chat!Click
    PROVE  UiOK(ui)' /\ CallsOK' /\ Stays
<1>1. ui.view = "ai" /\ ui \in Chat!States
  <2>1. ui.view = "ai"
    BY DEF Chat!Click, Chat!SelectDocument, Chat!HandleSubmit, Chat!HandleSummarize,
           Chat!CanSend, Chat!CanSummarize, Chat!Shown
  <2> QED
    BY <2>1, Typed
<1>2. CASE \E d \in Docs \cup {None} : Chat!SelectDocument(d)
  <2>1. ui' \in Chat!States /\ mount' = mount /\ token' = token /\ calls' = calls
    <3>1. << >> \in Seq(Chat!Speakers)
      OBVIOUS
    <3>2. PICK d \in Docs \cup {None} : Chat!SelectDocument(d)
      BY <1>2
    <3> QED
      BY <1>1, <3>1, <3>2 DEF Chat!SelectDocument, Chat!States
  <2>2. UiOK(ui)' /\ Stays
    BY <1>1, <2>1, Typed DEF Stays
  <2> QED
    BY <2>1, <2>2, CallsKept
<1>3. ASSUME NEW role \in Chat!Speakers, NEW what \in {"ask", "summarize"},
             ui' = [Chat!Said(role) EXCEPT !.loading = TRUE],
             Fetch("AiChat", "POST ai", [doc |-> ui.docFilter, what |-> what], None),
             mount' = mount, token' = token
      PROVE  UiOK(ui)' /\ CallsOK' /\ Stays
  <2>1. ui' \in Chat!States
    BY <1>1, <1>3, SaidTyped
  <2>2. UiOK(ui)' /\ Stays
    BY <1>1, <1>3, <2>1, Typed DEF Stays
  <2>3. [doc |-> ui.docFilter, what |-> what] \in Questions
    BY <1>1 DEF Questions, Chat!States
  <2>4. CallsOK'
    BY <1>1, <1>3, <2>2, <2>3, Fetched DEF OpFits, ArgFits, KeptFits, Thens
  <2> QED
    BY <2>2, <2>4
<1>4. CASE Chat!HandleSubmit
  BY <1>3, <1>4, ChatShared DEF Chat!HandleSubmit, Chat!Speakers
<1>5. CASE Chat!HandleSummarize
  BY <1>3, <1>5, ChatShared DEF Chat!HandleSummarize, Chat!Speakers
<1> QED
  BY <1>2, <1>4, <1>5 DEF Chat!Click

LEMMA ChatContinue ==
    ASSUME UiOK(ui), CallsOK, NEW i \in DOMAIN calls,
           Chat!Headers(i) \/ Chat!Failed(i) \/ Chat!Answered(i)
    PROVE  UiOK(ui)' /\ CallsOK' /\ Stays
<1>1. IsFetch(calls[i]) /\ InTab(calls[i])
  BY DEF CallsOK, GoodCalls
<1>2. calls[i].by = mount => ui.view = "ai" /\ ui \in Chat!States
  <2>1. calls[i].then \in {"AiChat", "AiChat: body"}
    BY DEF Chat!Headers, Chat!Failed, Chat!Answered, Chat!Awaited
  <2> QED
    BY <1>1, <2>1, Typed DEF InTab, Thens
<1>3. CASE Chat!Headers(i)
  <2>1. Awaited(i, "AiChat")
    BY <1>3, ChatShared DEF Chat!Headers
  <2>2. calls[i].by = mount => [ui EXCEPT !.loading = FALSE] \in Chat!States
    BY <1>2 DEF Chat!States
  <2>3. UiOK(ui)' /\ Stays
    BY <1>2, <1>3, <2>2, Typed, SetStateOK, ChatShared DEF Chat!Headers
  <2>4. ThenFetch(i, "AiChat: body", "body", calls[i].data, None)
    BY <1>3, ChatShared DEF Chat!Headers
  <2>5. CallsOK'
    BY <1>2, <2>1, <2>3, <2>4, ThenFetched DEF OpFits, ArgFits, KeptFits, Thens, Awaited
  <2> QED
    BY <2>3, <2>5
<1>4. CASE Chat!Failed(i)
  <2>1. calls[i].by = mount =>
          [Chat!Said("assistant") EXCEPT !.loading = FALSE] \in Chat!States
    BY <1>2, SaidTyped DEF Chat!Speakers
  <2>2. UiOK(ui)' /\ Stays
    BY <1>2, <1>4, <2>1, Typed, SetStateOK, ChatShared DEF Chat!Failed
  <2> QED
    BY <1>4, <2>2, CallRemoved, ChatShared DEF Chat!Failed
<1>5. CASE Chat!Answered(i)
  <2>1. calls[i].by = mount => Chat!Said("assistant") \in Chat!States
    BY <1>2, SaidTyped DEF Chat!Speakers
  <2>2. UiOK(ui)' /\ Stays
    BY <1>2, <1>5, <2>1, Typed, SetStateOK, ChatShared DEF Chat!Answered
  <2> QED
    BY <1>5, <2>2, CallRemoved, ChatShared DEF Chat!Answered
<1> QED
  BY <1>3, <1>4, <1>5

LEMMA ComparisonClick ==
    ASSUME UiOK(ui), CallsOK, Comparison!Click
    PROVE  UiOK(ui)' /\ CallsOK' /\ Stays
<1>1. ui.view = "compare" /\ ui \in Comparison!States
  <2>1. ui.view = "compare"
    BY DEF Comparison!Click, Comparison!SelectA, Comparison!SelectB,
           Comparison!HandleCompare, Comparison!CanCompare, Comparison!Shown
  <2> QED
    BY <2>1, Typed
<1>2. CASE \E d \in Docs \cup {None} : Comparison!SelectA(d) \/ Comparison!SelectB(d)
  <2>1. ui' \in Comparison!States /\ mount' = mount /\ token' = token /\ calls' = calls
    BY <1>1, <1>2 DEF Comparison!SelectA, Comparison!SelectB, Comparison!States
  <2>2. UiOK(ui)' /\ Stays
    BY <1>1, <2>1, Typed DEF Stays
  <2> QED
    BY <2>1, <2>2, CallsKept
<1>3. CASE Comparison!HandleCompare
  <2>1. ui' \in Comparison!States /\ mount' = mount /\ token' = token
    BY <1>1, <1>3 DEF Comparison!HandleCompare, Comparison!States
  <2>2. UiOK(ui)' /\ Stays
    BY <1>1, <2>1, Typed DEF Stays
  <2>3. Fetch("handleCompare", "POST compare", {ui.docA, ui.docB}, None)
    BY <1>3, ComparisonShared DEF Comparison!HandleCompare
  <2>4. {ui.docA, ui.docB} \in SUBSET Docs
    BY <1>1, <1>3 DEF Comparison!HandleCompare, Comparison!CanCompare, Comparison!States
  <2>5. CallsOK'
    BY <1>1, <2>2, <2>3, <2>4, Fetched DEF OpFits, ArgFits, KeptFits, Thens
  <2> QED
    BY <2>2, <2>5
<1> QED
  BY <1>2, <1>3 DEF Comparison!Click

LEMMA ComparisonContinue ==
    ASSUME UiOK(ui), CallsOK, NEW i \in DOMAIN calls, Comparison!Continue(i)
    PROVE  UiOK(ui)' /\ CallsOK' /\ Stays
<1>1. IsFetch(calls[i]) /\ InTab(calls[i])
  BY DEF CallsOK, GoodCalls
<1>2. calls[i].by = mount => ui.view = "compare" /\ ui \in Comparison!States
  <2>1. calls[i].then \in {"compare: documents", "handleCompare"}
    BY DEF Comparison!Continue, Comparison!DocsLoaded, Comparison!Compared,
           Comparison!Awaited
  <2> QED
    BY <1>1, <2>1, Typed DEF InTab, Thens
<1>3. calls[i].state = "ok" => calls[i].data \in SUBSET Docs
  BY <1>1 DEF IsFetch, OpFits, ArgFits, AnswerFits, Comparison!Awaited,
              Comparison!Continue, Comparison!DocsLoaded, Comparison!Compared
<1>4. CASE Comparison!DocsLoaded(i)
  <2> DEFINE found == CASE calls[i].state = "ok"      -> calls[i].data
                        [] calls[i].state = "refused" -> {}
                        [] OTHER                      -> ui.docs
  <2>1. calls[i].by = mount => found \in SUBSET Docs
    BY <1>2, <1>3 DEF Comparison!States
  <2>2. SetState(i, [ui EXCEPT !.docs = found])
    BY <1>4, ComparisonShared DEF Comparison!DocsLoaded
  <2> HIDE DEF found
  <2>3. calls[i].by = mount => [ui EXCEPT !.docs = found] \in Comparison!States
    BY <1>2, <2>1 DEF Comparison!States
  <2>4. UiOK(ui)' /\ Stays
    BY <1>2, <1>4, <2>2, <2>3, Typed, SetStateOK DEF Comparison!DocsLoaded
  <2> QED
    BY <1>4, <2>4, CallRemoved, ComparisonShared DEF Comparison!DocsLoaded
<1>5. CASE Comparison!Compared(i)
  <2> DEFINE new == [ui EXCEPT !.loading = FALSE,
                        !.result = IF IsOk(i) THEN calls[i].data ELSE @,
                        !.error = ~IsOk(i)]
  <2>1. calls[i].by = mount => new \in Comparison!States
    BY <1>2, <1>3 DEF Comparison!States, IsOk
  <2>2. SetState(i, new)
    BY <1>5, ComparisonShared DEF Comparison!Compared
  <2> HIDE DEF new
  <2>3. UiOK(ui)' /\ Stays
    BY <1>2, <1>5, <2>1, <2>2, Typed, SetStateOK DEF Comparison!Compared
  <2> QED
    BY <1>5, <2>3, CallRemoved, ComparisonShared DEF Comparison!Compared
<1> QED
  BY <1>4, <1>5 DEF Comparison!Continue

LEMMA ExtractionsFormClick ==
    ASSUME UiOK(ui), CallsOK, Extractions!ClickForm
    PROVE  UiOK(ui)' /\ CallsOK' /\ Stays
<1>1. ui.view = "extract" /\ ui \in Extractions!States
  <2>1. ui.view = "extract"
    BY DEF Extractions!ClickForm, Extractions!NewTemplate, Extractions!CancelForm,
           Extractions!SubmitForm, Extractions!EditTemplate, Extractions!CardShown,
           Extractions!HandleDeleteTemplate, Extractions!FillForm, Extractions!Shown
  <2> QED
    BY <2>1, Typed
<1>2. ui.form # None =>
        /\ ui.form \in Extractions!AnyForm
        /\ \A form \in Extractions!AnyForm \cup {None} :
              [ui EXCEPT !.form = form] \in Extractions!States
  BY <1>1 DEF Extractions!States
<1>3. ASSUME Extractions!Change(ui'), ui' \in Extractions!States
      PROVE  UiOK(ui)' /\ CallsOK' /\ Stays
  <2>1. UiOK(ui)' /\ Stays /\ calls' = calls
    BY <1>1, <1>3, Typed DEF Stays, Extractions!Change
  <2> QED
    BY <2>1, CallsKept
<1>4. ASSUME NEW t \in Templates \cup {None}, Extractions!Turn(t)
      PROVE  UiOK(ui)' /\ CallsOK' /\ Stays
  <2>1. CASE ui.form = None
    <3>1. Extractions!Form(t) \in Extractions!AnyForm
      BY <1>1 DEF Extractions!Form, Extractions!AnyForm, Extractions!States
    <3>2. ui' = [ui EXCEPT !.form = Extractions!Form(t), !.forms = @ + 1]
      BY <1>4, <2>1 DEF Extractions!Turn, Extractions!Change
    <3>3. ui' \in Extractions!States
      <4>1. ui.forms + 1 \in Nat
        BY <1>1 DEF Extractions!States
      <4>2. \A form \in Extractions!AnyForm, n \in Nat :
               [ui EXCEPT !.form = form, !.forms = n] \in Extractions!States
        BY <1>1 DEF Extractions!States
      <4> QED
        BY <3>1, <3>2, <4>1, <4>2
    <3> QED
      BY <1>3, <1>4, <2>1, <3>3 DEF Extractions!Turn, Extractions!Change
  <2>2. CASE ui.form # None
    <3>1. [ui.form EXCEPT !.edits = t] \in Extractions!AnyForm
      BY <1>2, <2>2 DEF Extractions!AnyForm
    <3>2. ui' = [ui EXCEPT !.form.edits = t]
      BY <1>4, <2>2 DEF Extractions!Turn, Extractions!Change
    <3>3. ui' = [ui EXCEPT !.form = [ui.form EXCEPT !.edits = t]]
      BY <3>2
    <3>4. ui' \in Extractions!States
      BY <1>2, <2>2, <3>1, <3>3
    <3> QED
      BY <1>3, <1>4, <2>2, <3>4 DEF Extractions!Turn, Extractions!Change
  <2> QED
    BY <2>1, <2>2
<1>5. CASE Extractions!NewTemplate
  BY <1>4, <1>5 DEF Extractions!NewTemplate
<1>6. ASSUME NEW t \in Templates, Extractions!EditTemplate(t)
      PROVE  UiOK(ui)' /\ CallsOK' /\ Stays
  BY <1>4, <1>6 DEF Extractions!EditTemplate
<1>7. CASE Extractions!CancelForm
  <2>1. ui' \in Extractions!States
    BY <1>2, <1>7 DEF Extractions!CancelForm, Extractions!Change
  <2> QED
    BY <1>3, <1>7, <2>1 DEF Extractions!CancelForm, Extractions!Change
<1>8. ASSUME NEW valid \in BOOLEAN, Extractions!FillForm(valid)
      PROVE  UiOK(ui)' /\ CallsOK' /\ Stays
  <2>1. ui' = [ui EXCEPT !.form = [ui.form EXCEPT !.valid = valid]] /\ ui.form # None
    BY <1>8 DEF Extractions!FillForm, Extractions!Change
  <2>2. [ui.form EXCEPT !.valid = valid] \in Extractions!AnyForm
    BY <1>2, <2>1 DEF Extractions!AnyForm
  <2> QED
    BY <1>2, <1>3, <1>8, <2>1, <2>2 DEF Extractions!FillForm, Extractions!Change
<1>9. ASSUME NEW t \in Templates, Extractions!HandleDeleteTemplate(t)
      PROVE  UiOK(ui)' /\ CallsOK' /\ Stays
  <2>1. Stays /\ ui' = ui
    BY <1>9 DEF Extractions!HandleDeleteTemplate, Stays
  <2>2. Fetch("delete template", "DELETE template", t,
              [filter |-> ui.filter, template |-> ui.template])
    BY <1>9, ExtractionsShared DEF Extractions!HandleDeleteTemplate
  <2>3. [filter |-> ui.filter, template |-> ui.template]
          \in [filter : AnyRange, template : Templates \cup {None}]
    BY <1>1 DEF Extractions!States, AnyRange
  <2>4. /\ OpFits("delete template", "DELETE template") /\ ArgFits("DELETE template", t)
        /\ KeptFits("delete template", t, [filter |-> ui.filter, template |-> ui.template])
        /\ "delete template" \in Thens(ui.view)
    BY <1>1, <2>3 DEF OpFits, ArgFits, KeptFits, Thens
  <2>5. CallsOK'
    BY <2>1, <2>2, <2>4, Fetched
  <2> QED
    BY <2>1, <2>5
<1>10. CASE Extractions!SubmitForm
  <2>1. ui' = [ui EXCEPT !.form = [ui.form EXCEPT !.saving = TRUE]] /\ ui.form # None
    BY <1>10 DEF Extractions!SubmitForm
  <2>2. [ui.form EXCEPT !.saving = TRUE] \in Extractions!AnyForm
    BY <1>2, <2>1 DEF Extractions!AnyForm
  <2>3. UiOK(ui)' /\ Stays
    BY <1>1, <1>2, <1>10, <2>1, <2>2, Typed DEF Extractions!SubmitForm, Stays
  <2>4. /\ Extractions!Sender \in [filter : AnyRange, no : Nat]
        /\ ui.form.edits \in Templates \cup {None}
    BY <1>1, <1>2, <2>1
       DEF Extractions!Sender, Extractions!AnyForm, Extractions!States, AnyRange
  <2>5. CASE ui.form.edits = None
    <3>1. Fetch("TemplateForm", "POST template", None, Extractions!Sender)
      BY <1>10, <2>5, ExtractionsShared DEF Extractions!SubmitForm
    <3>2. CallsOK'
      BY <1>1, <2>3, <2>4, <3>1, Fetched DEF OpFits, ArgFits, KeptFits, Thens
    <3> QED
      BY <2>3, <3>2
  <2>6. CASE ui.form.edits # None
    <3>1. Fetch("TemplateForm", "PATCH template", ui.form.edits, Extractions!Sender)
      BY <1>10, <2>6, ExtractionsShared DEF Extractions!SubmitForm
    <3>2. CallsOK'
      BY <1>1, <2>3, <2>4, <2>6, <3>1, Fetched DEF OpFits, ArgFits, KeptFits, Thens
    <3> QED
      BY <2>3, <3>2
  <2> QED
    BY <2>5, <2>6
<1> QED
  BY <1>5, <1>6, <1>7, <1>8, <1>9, <1>10 DEF Extractions!ClickForm

LEMMA ExtractionsRunClick ==
    ASSUME UiOK(ui), CallsOK, Extractions!ClickRun
    PROVE  UiOK(ui)' /\ CallsOK' /\ Stays
<1>1. ui.view = "extract" /\ ui \in Extractions!States
  <2>1. ui.view = "extract"
    BY DEF Extractions!ClickRun, Extractions!SelectTemplate, Extractions!ToggleDoc,
           Extractions!DocShown, Extractions!ToggleAllDocs, Extractions!HandleExtract,
           Extractions!CanExtract, Extractions!Shown
  <2> QED
    BY <2>1, Typed
<1>2. CASE \/ \E t \in Templates \cup {None} : Extractions!SelectTemplate(t)
           \/ \E d \in Docs : Extractions!ToggleDoc(d)
           \/ Extractions!ToggleAllDocs
  <2>1. Extractions!Visible \in SUBSET Docs
    BY <1>1 DEF Extractions!Visible, Extractions!States
  <2>2. ui' \in Extractions!States
    BY <1>1, <1>2, <2>1
       DEF Extractions!SelectTemplate, Extractions!ToggleDoc, Extractions!ToggleAllDocs,
           Extractions!Change, Extractions!Toggle, Extractions!Toggled, Extractions!States
  <2>3. UiOK(ui)' /\ Stays /\ calls' = calls
    BY <1>1, <1>2, <2>2, Typed
       DEF Extractions!SelectTemplate, Extractions!ToggleDoc, Extractions!ToggleAllDocs,
           Extractions!Change, Stays
  <2> QED
    BY <2>3, CallsKept
<1>3. CASE Extractions!HandleExtract
  <2>1. ui' \in Extractions!States /\ mount' = mount /\ token' = token
    BY <1>1, <1>3 DEF Extractions!HandleExtract, Extractions!States
  <2>2. UiOK(ui)' /\ Stays
    BY <1>1, <2>1, Typed DEF Stays
  <2>3. PICK d \in ui.picked :
          Fetch("handleExtract", "POST extract", [doc |-> d, template |-> ui.template],
                [todo |-> ui.picked \ {d}, made |-> {}, failed |-> FALSE,
                 filter |-> ui.filter])
    BY <1>3, ExtractionsShared DEF Extractions!HandleExtract
  <2>4. [doc |-> d, template |-> ui.template] \in [doc : Docs, template : Templates]
    BY <1>1, <1>3 DEF Extractions!HandleExtract, Extractions!CanExtract, Extractions!States
  <2>5. [todo |-> ui.picked \ {d}, made |-> {}, failed |-> FALSE, filter |-> ui.filter]
          \in Runs
    BY <1>1 DEF Runs, AnyRange, Extractions!States
  <2> DEFINE arg == [doc |-> d, template |-> ui.template]
             kept == [todo |-> ui.picked \ {d}, made |-> {}, failed |-> FALSE,
                      filter |-> ui.filter]
  <2> HIDE DEF arg, kept
  <2>6. /\ OpFits("handleExtract", "POST extract") /\ ArgFits("POST extract", arg)
        /\ KeptFits("handleExtract", arg, kept) /\ "handleExtract" \in Thens(ui.view)
    BY <1>1, <2>4, <2>5 DEF OpFits, ArgFits, KeptFits, Thens, arg, kept
  <2>7. CallsOK'
    BY <2>2, <2>3, <2>6, Fetched DEF arg, kept
  <2> QED
    BY <2>2, <2>7
<1> QED
  BY <1>2, <1>3 DEF Extractions!ClickRun

LEMMA ExtractionsResultsClick ==
    ASSUME UiOK(ui), CallsOK, Extractions!ClickResults
    PROVE  UiOK(ui)' /\ CallsOK' /\ Stays
<1>1. ui.view = "extract" /\ ui \in Extractions!States
  <2>1. ui.view = "extract"
    BY DEF Extractions!ClickResults, Extractions!SetFilter, Extractions!ToggleExtraction,
           Extractions!HandleDeleteExtraction, Extractions!RowShown,
           Extractions!ToggleAllExtractions, Extractions!HandleBulkDelete,
           Extractions!CanBulkDelete, Extractions!HandleExport, Extractions!CanExport,
           Extractions!Shown
  <2> QED
    BY <2>1, Typed
<1>2. Extractions!IdsOf(ui.rows) \in SUBSET (1 .. MaxRows)
  BY <1>1 DEF Extractions!States, Extractions!AnyRow, Extractions!IdsOf
<1>3. CASE \/ \E id \in 1 .. MaxRows : Extractions!ToggleExtraction(id)
           \/ Extractions!ToggleAllExtractions
  <2>1. ui' \in Extractions!States
    BY <1>1, <1>2, <1>3
       DEF Extractions!ToggleExtraction, Extractions!ToggleAllExtractions,
           Extractions!Change, Extractions!Toggle, Extractions!Toggled, Extractions!States
  <2>2. UiOK(ui)' /\ Stays /\ calls' = calls
    BY <1>1, <1>3, <2>1, Typed
       DEF Extractions!ToggleExtraction, Extractions!ToggleAllExtractions,
           Extractions!Change, Stays
  <2> QED
    BY <2>2, CallsKept
<1>4. ASSUME NEW range \in Ranges \cup {None}, Extractions!SetFilter(range)
      PROVE  UiOK(ui)' /\ CallsOK' /\ Stays
  <2>1. ui' \in Extractions!States /\ mount' = mount /\ token' = token
    BY <1>1, <1>4 DEF Extractions!SetFilter, Extractions!States
  <2>2. UiOK(ui)' /\ Stays
    BY <1>1, <2>1, Typed DEF Stays
  <2>3. Fetch("fetchAll", "GET all", range, None)
    BY <1>4, ExtractionsShared DEF Extractions!SetFilter, Extractions!FetchAll
  <2>4. CallsOK'
    BY <1>1, <2>2, <2>3, Fetched DEF OpFits, ArgFits, KeptFits, Thens, AnyRange
  <2> QED
    BY <2>2, <2>4
<1>5. ASSUME NEW id \in 1 .. MaxRows, Extractions!HandleDeleteExtraction(id)
      PROVE  UiOK(ui)' /\ CallsOK' /\ Stays
  <2>1. Stays /\ ui' = ui
    BY <1>5 DEF Extractions!HandleDeleteExtraction, Stays
  <2>2. Fetch("delete extraction", "DELETE extractions", {id}, ui.filter)
    BY <1>5, ExtractionsShared DEF Extractions!HandleDeleteExtraction
  <2>3. ui.filter \in AnyRange
    BY <1>1 DEF Extractions!States, AnyRange
  <2>4. /\ OpFits("delete extraction", "DELETE extractions")
        /\ ArgFits("DELETE extractions", {id})
        /\ KeptFits("delete extraction", {id}, ui.filter)
        /\ "delete extraction" \in Thens(ui.view)
    BY <1>1, <2>3 DEF OpFits, ArgFits, KeptFits, Thens
  <2>5. CallsOK'
    BY <2>1, <2>2, <2>4, Fetched
  <2> QED
    BY <2>1, <2>5
<1>6. CASE Extractions!HandleBulkDelete
  <2>1. ui' \in Extractions!States /\ mount' = mount /\ token' = token
    BY <1>1, <1>6 DEF Extractions!HandleBulkDelete, Extractions!States
  <2>2. UiOK(ui)' /\ Stays
    BY <1>1, <2>1, Typed DEF Stays
  <2>3. Fetch("bulk-delete", "DELETE extractions", ui.chosen, ui.filter)
    BY <1>6, ExtractionsShared DEF Extractions!HandleBulkDelete
  <2>4. ui.filter \in AnyRange /\ ui.chosen \in SUBSET (1 .. MaxRows)
    BY <1>1 DEF Extractions!States, AnyRange
  <2>5. /\ OpFits("bulk-delete", "DELETE extractions")
        /\ ArgFits("DELETE extractions", ui.chosen)
        /\ KeptFits("bulk-delete", ui.chosen, ui.filter)
        /\ "bulk-delete" \in Thens(ui.view)
    BY <1>1, <2>4 DEF OpFits, ArgFits, KeptFits, Thens
  <2>6. CallsOK'
    BY <2>2, <2>3, <2>5, Fetched
  <2> QED
    BY <2>2, <2>6
<1>7. ASSUME NEW format \in {"csv", "excel"}, Extractions!HandleExport(format)
      PROVE  UiOK(ui)' /\ CallsOK' /\ Stays
  <2>1. ui' \in Extractions!States /\ mount' = mount /\ token' = token
    BY <1>1, <1>7 DEF Extractions!HandleExport, Extractions!States
  <2>2. UiOK(ui)' /\ Stays
    BY <1>1, <2>1, Typed DEF Stays
  <2>3. Fetch("handleExport", "GET extractions/export",
              [ids |-> ui.chosen, filter |-> ui.filter], None)
    BY <1>7, ExtractionsShared DEF Extractions!HandleExport
  <2>4. CallsOK'
    BY <1>1, <2>2, <2>3, Fetched DEF OpFits, ArgFits, KeptFits, Thens
  <2> QED
    BY <2>2, <2>4
<1> QED
  BY <1>3, <1>4, <1>5, <1>6, <1>7 DEF Extractions!ClickResults

\* One field of the panel's state is set.
LEMMA PanelSet ==
    ASSUME NEW s \in Extractions!States, NEW x
    PROVE  /\ x \in SUBSET Templates => [s EXCEPT !.templates = x] \in Extractions!States
           /\ x \in SUBSET Docs => [s EXCEPT !.docs = x] \in Extractions!States
           /\ x \in {None, "ok", "error"} => [s EXCEPT !.notice = x] \in Extractions!States
           /\ x \in SUBSET Extractions!AnyRow => [s EXCEPT !.rows = x] \in Extractions!States
           /\ x \in SUBSET (Docs \X Templates) => [s EXCEPT !.keys = x] \in Extractions!States
           /\ x \in SUBSET (1 .. MaxRows) => [s EXCEPT !.chosen = x] \in Extractions!States
           /\ x \in SUBSET Docs => [s EXCEPT !.picked = x] \in Extractions!States
           /\ x \in BOOLEAN => [s EXCEPT !.extracting = x] \in Extractions!States
<1>1. x \in SUBSET Templates => [s EXCEPT !.templates = x] \in Extractions!States
  BY DEF Extractions!States
<1>2. x \in SUBSET Docs => [s EXCEPT !.docs = x] \in Extractions!States
  BY DEF Extractions!States
<1>3. x \in {None, "ok", "error"} => [s EXCEPT !.notice = x] \in Extractions!States
  BY DEF Extractions!States
<1>4. x \in SUBSET Extractions!AnyRow => [s EXCEPT !.rows = x] \in Extractions!States
  BY DEF Extractions!States
<1>5. x \in SUBSET (Docs \X Templates) => [s EXCEPT !.keys = x] \in Extractions!States
  BY DEF Extractions!States
<1>6. x \in SUBSET (1 .. MaxRows) => [s EXCEPT !.chosen = x] \in Extractions!States
  BY DEF Extractions!States
<1>7. x \in SUBSET Docs => [s EXCEPT !.picked = x] \in Extractions!States
  BY DEF Extractions!States
<1>8. x \in BOOLEAN => [s EXCEPT !.extracting = x] \in Extractions!States
  BY DEF Extractions!States
<1> QED
  BY <1>1, <1>2, <1>3, <1>4, <1>5, <1>6, <1>7, <1>8

LEMMA PrunedTyped ==
    ASSUME NEW s \in Extractions!States, NEW listed \in SUBSET Extractions!AnyRow,
           NEW known \in SUBSET Extractions!AnyRow
    PROVE  Extractions!Pruned(s, listed, known) \in Extractions!States
<1> DEFINE keys == {<<r.doc, r.template>> : r \in known}
           chosen == s.chosen \cap Extractions!IdsOf(listed)
           s1 == [s EXCEPT !.keys = keys]
<1>1. keys \in SUBSET (Docs \X Templates)
  BY DEF Extractions!AnyRow
<1>2. chosen \in SUBSET (1 .. MaxRows)
  BY DEF Extractions!States
<1>3. Extractions!Pruned(s, listed, known) = [s1 EXCEPT !.chosen = chosen]
  BY DEF Extractions!Pruned, Extractions!States
<1> HIDE DEF keys, chosen
<1>4. s1 \in Extractions!States
  BY <1>1, PanelSet
<1> HIDE DEF s1
<1> QED
  BY <1>2, <1>3, <1>4, PanelSet

\* What fetchAll sets, whatever part of its answers has come.
LEMMA TakenTyped ==
    ASSUME NEW s \in Extractions!States, NEW d \in Everything, NEW filter
    PROVE  Extractions!Taken(s, d, filter) \in Extractions!States
<1>1. /\ d.templates \in SUBSET Templates /\ d.docs \in SUBSET Docs
      /\ d.rows \in SUBSET Extractions!AnyRow /\ d.all \in SUBSET Extractions!AnyRow
      /\ d.part \in {"templates", "rows", "all", "docs"}
  BY DEF Everything, Listings
<1>2. CASE d.part = "templates"
  <2> DEFINE ts == IF "templates" \in d.refused THEN s.templates ELSE d.templates
             nt == IF "rows" \in d.refused THEN "error" ELSE s.notice
             s1 == [s EXCEPT !.templates = ts]
  <2>1. ts \in SUBSET Templates /\ nt \in {None, "ok", "error"}
    BY <1>1 DEF Extractions!States
  <2>2. Extractions!Taken(s, d, filter) = [s1 EXCEPT !.notice = nt]
    BY <1>2 DEF Extractions!Taken, Extractions!States
  <2> HIDE DEF ts, nt
  <2>3. s1 \in Extractions!States
    BY <2>1, PanelSet
  <2> HIDE DEF s1
  <2> QED
    BY <2>1, <2>2, <2>3, PanelSet
<1>3. CASE d.part = "rows"
  <2> DEFINE shown == [s EXCEPT !.rows = d.rows]
             known == IF filter = None THEN d.rows ELSE {}
  <2>1. shown \in Extractions!States /\ known \in SUBSET Extractions!AnyRow
    BY <1>1, PanelSet
  <2>2. \/ Extractions!Taken(s, d, filter) = shown
        \/ Extractions!Taken(s, d, filter) = Extractions!Pruned(shown, d.rows, known)
    BY <1>3 DEF Extractions!Taken
  <2> HIDE DEF shown, known
  <2> QED
    BY <1>1, <2>1, <2>2, PrunedTyped
<1>4. CASE d.part = "all"
  <2>1. Extractions!Taken(s, d, filter) = Extractions!Pruned(s, d.rows, d.all)
    BY <1>4 DEF Extractions!Taken
  <2> QED
    BY <1>1, <2>1, PrunedTyped
<1>5. CASE d.part = "docs"
  <2>1. Extractions!Taken(s, d, filter) = [s EXCEPT !.docs = d.docs]
    BY <1>5 DEF Extractions!Taken
  <2>2. d.docs \in SUBSET Docs
    BY <1>1
  <2> QED
    BY <2>1, <2>2, PanelSet
<1> QED
  BY <1>1, <1>2, <1>3, <1>4, <1>5

\* What is left of its answers when fetchAll reads on.
LEMMA RestTyped ==
    ASSUME NEW d \in Everything, NEW part \in Listings
    PROVE  Extractions!Rest(d, part) \in Everything
<1> DEFINE left == [d EXCEPT !.part = part, !.templates = {}]
<1>1. left \in Everything
  BY DEF Everything
<1>2. \A e \in Everything :
         [e EXCEPT !.rows = {}, !.all = {}, !.refused = {}] \in Everything
  BY DEF Everything
<1> HIDE DEF left
<1>3. Extractions!Rest(d, part) \in {left, [left EXCEPT !.rows = {}, !.all = {}, !.refused = {}]}
  BY DEF Extractions!Rest, left
<1> QED
  BY <1>1, <1>2, <1>3

\* fetchAll reads on: what happens to its fetch.
LEMMA ReadOnReads ==
    ASSUME CallsOK, NEW i \in DOMAIN calls, Extractions!ReadOn(i)
    PROVE  /\ calls[i].then \in {"fetchAll", "handleExtract: fetchAll",
                                 "bulk-delete: fetchAll"}
           /\ calls[i].op = "GET all" /\ IsOk(i) /\ calls[i].data \in Everything
           /\ SetState(i, Extractions!Taken(ui, calls[i].data, calls[i].arg))
           /\ mount' = mount /\ token' = token
           /\ \E data \in Everything :
                 /\ calls' = [calls EXCEPT ![i].data = data]
                 /\ data.part = Extractions!NextPart(calls[i].data, calls[i].arg)
                 /\ data.part # "docs" => data.rows = calls[i].data.rows
<1> DEFINE part == Extractions!NextPart(calls[i].data, calls[i].arg)
           data == Extractions!Rest(calls[i].data, part)
<1>1. IsFetch(calls[i])
  BY DEF CallsOK, GoodCalls
<1>2. calls[i].then \in {"fetchAll", "handleExtract: fetchAll", "bulk-delete: fetchAll"}
  BY DEF Extractions!ReadOn, Extractions!Awaited
<1>3. calls[i].op = "GET all"
  BY <1>1, <1>2 DEF IsFetch, OpFits
<1>4. IsOk(i) /\ part # "end"
  BY DEF Extractions!ReadOn, Extractions!FetchAllEnds, Extractions!IsOk, IsOk
<1>5. calls[i].data \in Everything
  BY <1>1, <1>3, <1>4 DEF IsFetch, AnswerFits, IsOk
<1>6. part \in Listings
  BY <1>4 DEF Extractions!NextPart, Listings
<1>7. calls' = [calls EXCEPT ![i].data = data]
  BY DEF Extractions!ReadOn
<1>8. data.part = part /\ (part # "docs" => data.rows = calls[i].data.rows)
  <2> HIDE DEF part
  <2> QED
    BY <1>5, <1>6 DEF Extractions!Rest, Everything
<1> HIDE DEF data
<1>9. data \in Everything
  BY <1>5, <1>6, RestTyped DEF data
<1>10. /\ SetState(i, Extractions!Taken(ui, calls[i].data, calls[i].arg))
       /\ mount' = mount /\ token' = token
  BY ExtractionsShared DEF Extractions!ReadOn
<1> QED
  BY <1>2, <1>3, <1>4, <1>5, <1>7, <1>8, <1>9, <1>10

LEMMA ExtractionsContinue ==
    ASSUME UiOK(ui), CallsOK, NEW i \in DOMAIN calls, Extractions!Continue(i)
    PROVE  UiOK(ui)' /\ CallsOK' /\ Stays
<1> DEFINE Goal == UiOK(ui)' /\ CallsOK' /\ Stays
<1>1. IsFetch(calls[i]) /\ InTab(calls[i])
  BY DEF CallsOK, GoodCalls
<1>2. /\ calls[i].then \in Thens("extract") /\ calls[i].then # "gone"
      /\ mount' = mount /\ token' = token
  <2>1. /\ mount' = mount /\ token' = token
    BY DEF Extractions!Continue, Extractions!ReadOn, Extractions!FetchAllDone,
           Extractions!NextDoc, Extractions!LoopEnds, Extractions!RunDone, Extractions!BulkDeleted,
           Extractions!BulkDeleteDone, Extractions!ExtractionDeleted,
           Extractions!TemplateDeleted, Extractions!ExportDone, Extractions!FormSaved
  <2>2. calls[i].then \in
          {"fetchAll", "handleExtract", "handleExtract: fetchAll", "bulk-delete",
           "bulk-delete: fetchAll", "delete extraction", "delete template",
           "handleExport", "TemplateForm"}
    BY DEF Extractions!Continue, Extractions!ReadOn, Extractions!FetchAllDone,
           Extractions!NextDoc, Extractions!LoopEnds, Extractions!RunDone, Extractions!BulkDeleted,
           Extractions!BulkDeleteDone, Extractions!ExtractionDeleted,
           Extractions!TemplateDeleted, Extractions!ExportDone, Extractions!FormSaved,
           Extractions!Awaited
  <2> QED
    BY <2>1, <2>2 DEF Thens
<1>3. calls[i].by = mount => ui.view = "extract" /\ ui \in Extractions!States
  BY <1>1, <1>2, Typed DEF InTab, Thens
<1>4. ASSUME NEW new, SetState(i, new),
             calls[i].by = mount => new \in Extractions!States
      PROVE  UiOK(ui)' /\ Stays
  BY <1>2, <1>3, <1>4, Typed, SetStateOK
<1>5. ASSUME NEW new, SetState(i, new), Return(i),
             calls[i].by = mount => new \in Extractions!States
      PROVE  Goal
  BY <1>4, <1>5, CallRemoved
<1>6. ASSUME Stays, NEW filter \in AnyRange,
             NEW then \in {"fetchAll", "bulk-delete: fetchAll"},
             ThenFetch(i, then, "GET all", filter, None)
      PROVE  CallsOK'
  <2>1. /\ OpFits(then, "GET all") /\ ArgFits("GET all", filter)
        /\ KeptFits(then, filter, None) /\ then # "gone"
        /\ calls[i].by = mount => then \in Thens(ui.view)
    BY <1>3 DEF OpFits, ArgFits, KeptFits, Thens
  <2> QED
    BY <1>2, <1>6, <2>1, ThenFetched
<1>7. \A s \in Extractions!States :
         calls[i].op = "GET all" => Extractions!AfterFetchAll(i, s) \in Extractions!States
  <2>1. calls[i].op = "GET all" /\ IsOk(i) => calls[i].data \in Everything
    BY <1>1 DEF IsFetch, AnswerFits, IsOk
  <2> QED
    BY <2>1, TakenTyped, ExtractionsShared DEF Extractions!AfterFetchAll
<1>8. CASE Extractions!FetchAllDone(i)
  <2>1. calls[i].op = "GET all"
    BY <1>1, <1>8, ExtractionsShared DEF Extractions!FetchAllDone, IsFetch, OpFits, Awaited
  <2> QED
    BY <1>3, <1>5, <1>7, <1>8, <2>1, ExtractionsShared DEF Extractions!FetchAllDone
<1>9. ASSUME calls[i].then = "handleExtract"
      PROVE  Extractions!After(i) \in Runs /\ calls[i].kept \in Runs
  <2>1. calls[i].kept \in Runs
    BY <1>1, <1>9 DEF IsFetch, KeptFits
  <2>2. IsOk(i) => calls[i].data \in 1 .. MaxRows
    BY <1>1, <1>9 DEF IsFetch, OpFits, AnswerFits, IsOk
  <2> QED
    BY <2>1, <2>2, ExtractionsShared DEF Extractions!After, Runs
<1>10. CASE Extractions!NextDoc(i)
  <2>1. calls[i].then = "handleExtract" /\ Stays /\ ui' = ui
    BY <1>10, ExtractionsShared DEF Extractions!NextDoc, Awaited, Stays
  <2>2. calls[i].arg.template \in Templates
    BY <1>1, <2>1 DEF IsFetch, OpFits, ArgFits
  <2>3. PICK d \in calls[i].kept.todo :
          ThenFetch(i, "handleExtract", "POST extract",
                    [doc |-> d, template |-> calls[i].arg.template],
                    [Extractions!After(i) EXCEPT !.todo = @ \ {d}])
    BY <1>10, ExtractionsShared DEF Extractions!NextDoc
  <2> DEFINE arg == [doc |-> d, template |-> calls[i].arg.template]
             kept == [Extractions!After(i) EXCEPT !.todo = @ \ {d}]
  <2>4. arg \in [doc : Docs, template : Templates] /\ kept \in Runs
    BY <1>9, <2>1, <2>2 DEF Runs
  <2> HIDE DEF arg, kept
  <2>5. /\ OpFits("handleExtract", "POST extract") /\ ArgFits("POST extract", arg)
        /\ KeptFits("handleExtract", arg, kept)
        /\ calls[i].by = mount => "handleExtract" \in Thens(ui.view)
    BY <1>3, <2>4 DEF OpFits, ArgFits, KeptFits, Thens
  <2>6. CallsOK'
    BY <1>2, <2>1, <2>3, <2>5, ThenFetched DEF arg, kept
  <2> QED
    BY <2>1, <2>6
<1>11. CASE Extractions!LoopEnds(i)
  <2>1. /\ calls[i].then = "handleExtract"
        /\ SetState(i, [ui EXCEPT !.filter = None])
    BY <1>11, ExtractionsShared DEF Extractions!LoopEnds, Awaited
  <2>2. calls[i].by = mount => [ui EXCEPT !.filter = None] \in Extractions!States
    BY <1>3 DEF Extractions!States
  <2>3. UiOK(ui)' /\ Stays
    BY <1>4, <2>1, <2>2
  <2> DEFINE own == Call(calls[i].by, "handleExtract: fetchAll", "GET all",
                         calls[i].kept.filter, Extractions!After(i))
             again == Call(mount, "fetchAll", "GET all", None, None)
             effect == IF ui' # ui THEN <<again>> ELSE << >>
  <2>4. calls[i].kept.filter \in AnyRange
    BY <1>9, <2>1 DEF Runs
  <2>5. IsFetch(own) /\ InTab(own)
    <3>1. IsFetch(own)
      BY <1>9, <2>1, <2>4, SentIsFetch DEF OpFits, ArgFits, KeptFits
    <3>2. InTab(own)
      BY <1>1, <1>2, <1>3 DEF InTab, Call, Thens
    <3> QED
      BY <3>1, <3>2
  <2>6. ui' # ui => IsFetch(again) /\ InTab(again)
    <3>1. IsFetch(again)
      BY SentIsFetch DEF OpFits, ArgFits, KeptFits, AnyRange
    <3>2. ui' # ui => calls[i].by = mount
      BY <2>1 DEF SetState
    <3>3. ui' # ui => InTab(again)
      BY <1>3, <3>2 DEF InTab, Call, Thens, CallsOK
    <3> QED
      BY <3>1, <3>3
  <2>7. calls' = [calls EXCEPT ![i] = own] \o effect
    BY <1>11 DEF Extractions!LoopEnds, Extractions!Call, Call, Extractions!Effect
  <2> HIDE DEF own, again
  <2>8. GoodCalls(effect)
    <3>1. GoodCalls(<< >>)
      BY SeqShort, SeqFacts DEF GoodCalls
    <3> QED
      BY <2>6, <3>1, GoodOne
  <2> HIDE DEF effect
  <2>9. GoodCalls([calls EXCEPT ![i] = own])
    BY <2>5, GoodReplaced DEF CallsOK
  <2>10. GoodCalls(calls')
    BY <2>7, <2>8, <2>9, GoodJoined
  <2> QED
    BY <2>3, <2>10, CallsNext
<1>12. CASE Extractions!RunDone(i)
  <2>1. calls[i].op = "GET all" /\ calls[i].kept \in Runs
    <3>1. calls[i].then = "handleExtract: fetchAll"
      BY <1>12 DEF Extractions!RunDone, Extractions!Awaited
    <3> QED
      BY <1>1, <3>1 DEF IsFetch, OpFits, KeptFits
  <2>2. calls[i].by = mount =>
          /\ [ui EXCEPT !.extracting = FALSE] \in Extractions!States
          /\ [Extractions!AfterFetchAll(i, ui) EXCEPT
                !.picked = {}, !.chosen = calls[i].kept.made, !.extracting = FALSE,
                !.notice = IF calls[i].kept.failed THEN "error" ELSE "ok"]
               \in Extractions!States
    <3>1. calls[i].kept.made \in SUBSET (1 .. MaxRows)
      BY <2>1 DEF Runs
    <3>2. \A s \in Extractions!States, notice \in {"ok", "error"} :
            [s EXCEPT !.picked = {}, !.chosen = calls[i].kept.made,
                      !.extracting = FALSE, !.notice = notice] \in Extractions!States
      <4> TAKE s \in Extractions!States, notice \in {"ok", "error"}
      <4> DEFINE s1 == [s EXCEPT !.picked = {}]
                 s2 == [s1 EXCEPT !.chosen = calls[i].kept.made]
                 s3 == [s2 EXCEPT !.extracting = FALSE]
      <4>1. s1 \in Extractions!States
        BY PanelSet
      <4> HIDE DEF s1
      <4>2. s2 \in Extractions!States
        BY <3>1, <4>1, PanelSet
      <4> HIDE DEF s2
      <4>3. s3 \in Extractions!States
        BY <4>2, PanelSet
      <4> HIDE DEF s3
      <4>4. [s3 EXCEPT !.notice = notice] \in Extractions!States
        BY <4>3, PanelSet
      <4> QED
        BY <4>4 DEF s1, s2, s3
    <3>3. calls[i].by = mount => [ui EXCEPT !.extracting = FALSE] \in Extractions!States
      BY <1>3 DEF Extractions!States
    <3> QED
      BY <1>3, <1>7, <2>1, <3>2, <3>3
  <2> QED
    BY <1>5, <1>12, <2>2, ExtractionsShared DEF Extractions!RunDone
<1>13. CASE Extractions!BulkDeleted(i)
  <2>1. calls[i].by = mount => /\ [ui EXCEPT !.deleting = FALSE] \in Extractions!States
                               /\ [ui EXCEPT !.chosen = {}] \in Extractions!States
    BY <1>3 DEF Extractions!States
  <2>2. CASE calls[i].state = "lost"
    BY <1>5, <1>13, <2>1, <2>2, ExtractionsShared DEF Extractions!BulkDeleted
  <2>3. CASE calls[i].state # "lost"
    <3>1. calls[i].kept \in AnyRange
      BY <1>1, <1>13, ExtractionsShared
         DEF Extractions!BulkDeleted, IsFetch, KeptFits, Awaited
    <3>2. UiOK(ui)' /\ Stays
      BY <1>4, <1>13, <2>1, <2>3, ExtractionsShared DEF Extractions!BulkDeleted
    <3> QED
      BY <1>6, <1>13, <2>3, <3>1, <3>2, ExtractionsShared DEF Extractions!BulkDeleted
  <2> QED
    BY <2>2, <2>3
<1>14. CASE Extractions!BulkDeleteDone(i)
  <2>1. calls[i].op = "GET all"
    BY <1>1, <1>14, ExtractionsShared
       DEF Extractions!BulkDeleteDone, IsFetch, OpFits, Awaited
  <2>2. \A s \in Extractions!States : [s EXCEPT !.deleting = FALSE] \in Extractions!States
    BY DEF Extractions!States
  <2> QED
    BY <1>3, <1>5, <1>7, <1>14, <2>1, <2>2, ExtractionsShared
       DEF Extractions!BulkDeleteDone
<1>15. CASE Extractions!ExtractionDeleted(i)
  <2>1. Stays /\ ui' = ui
    BY <1>15 DEF Extractions!ExtractionDeleted, Stays
  <2>2. calls[i].kept \in AnyRange
    BY <1>1, <1>15, ExtractionsShared
       DEF Extractions!ExtractionDeleted, IsFetch, KeptFits, Awaited
  <2> QED
    BY <1>6, <1>15, <2>1, <2>2, CallRemoved, ExtractionsShared
       DEF Extractions!ExtractionDeleted
<1>16. CASE Extractions!TemplateDeleted(i)
  <2>1. CASE calls[i].state = "lost"
    <3>1. Stays /\ ui' = ui /\ Return(i)
      BY <1>16, <2>1, ExtractionsShared DEF Extractions!TemplateDeleted, Stays
    <3> QED
      BY <3>1, CallRemoved
  <2>2. CASE calls[i].state # "lost"
    <3>1. calls[i].kept.filter \in AnyRange
      BY <1>1, <1>16, ExtractionsShared
         DEF Extractions!TemplateDeleted, IsFetch, KeptFits, Awaited
    <3>2. calls[i].by = mount => [ui EXCEPT !.template = None] \in Extractions!States
      BY <1>3 DEF Extractions!States
    <3>3. UiOK(ui)' /\ Stays
      BY <1>3, <1>4, <1>16, <2>2, <3>2, ExtractionsShared DEF Extractions!TemplateDeleted
    <3> QED
      BY <1>6, <1>16, <2>2, <3>1, <3>3, ExtractionsShared DEF Extractions!TemplateDeleted
  <2> QED
    BY <2>1, <2>2
<1>17. CASE Extractions!ExportDone(i)
  <2>1. calls[i].by = mount => [ui EXCEPT !.exporting = None] \in Extractions!States
    BY <1>3 DEF Extractions!States
  <2> QED
    BY <1>5, <1>17, <2>1, ExtractionsShared DEF Extractions!ExportDone
<1>18. CASE Extractions!FormSaved(i)
  <2>1. calls[i].by = mount => [ui EXCEPT !.form = None] \in Extractions!States
    BY <1>3 DEF Extractions!States
  <2>2. calls[i].by = mount /\ ui.form # None =>
          [ui EXCEPT !.form.saving = FALSE] \in Extractions!States
    <3> SUFFICES ASSUME calls[i].by = mount, ui.form # None
                 PROVE  [ui EXCEPT !.form.saving = FALSE] \in Extractions!States
      OBVIOUS
    <3>1. ui.form \in Extractions!AnyForm
      BY <1>3 DEF Extractions!States
    <3>2. [ui.form EXCEPT !.saving = FALSE] \in Extractions!AnyForm
      BY <3>1 DEF Extractions!AnyForm
    <3>3. [ui EXCEPT !.form = [ui.form EXCEPT !.saving = FALSE]] \in Extractions!States
      BY <1>3, <3>2 DEF Extractions!States
    <3> QED
      BY <3>3
  <2>3. CASE IsOk(i)
    <3>1. calls[i].kept.filter \in AnyRange
      BY <1>1, <1>18, ExtractionsShared
         DEF Extractions!FormSaved, IsFetch, KeptFits, Awaited
    <3>2. UiOK(ui)' /\ Stays
      BY <1>4, <1>18, <2>1, <2>3, ExtractionsShared DEF Extractions!FormSaved
    <3> QED
      BY <1>6, <1>18, <2>3, <3>1, <3>2, ExtractionsShared DEF Extractions!FormSaved
  <2>4. CASE ~IsOk(i)
    <3> DEFINE new == IF ui.form = None \/ ui.form.no # calls[i].kept.no
                      THEN ui ELSE [ui EXCEPT !.form.saving = FALSE]
    <3>1. SetState(i, new) /\ Return(i)
      BY <1>18, <2>4, ExtractionsShared DEF Extractions!FormSaved
    <3>2. calls[i].by = mount => new \in Extractions!States
      BY <1>3, <2>2
    <3> HIDE DEF new
    <3> QED
      BY <1>5, <3>1, <3>2
  <2> QED
    BY <2>3, <2>4
<1>19. CASE Extractions!ReadOn(i)
  <2>1. /\ calls[i].op = "GET all" /\ IsOk(i) /\ calls[i].data \in Everything
        /\ SetState(i, Extractions!Taken(ui, calls[i].data, calls[i].arg))
    BY <1>19, ReadOnReads
  <2>2. PICK data \in Everything : calls' = [calls EXCEPT ![i].data = data]
    BY <1>19, ReadOnReads
  <2>3. UiOK(ui)' /\ Stays
    BY <1>3, <1>4, <2>1, TakenTyped
  <2>4. AnswerFits(calls[i].op, calls[i].arg, calls[i].as, data)
    BY <2>1 DEF AnswerFits
  <2> QED
    BY <2>1, <2>2, <2>3, <2>4, Reread
<1> QED
  BY <1>8, <1>10, <1>11, <1>12, <1>13, <1>14, <1>15, <1>16, <1>17, <1>18, <1>19
     DEF Extractions!Continue

LEMMA TeamClick ==
    ASSUME UiOK(ui), CallsOK, Team!Click
    PROVE  UiOK(ui)' /\ CallsOK' /\ Stays /\ ui'.as = ui.as
<1>1. ui.view = "team" /\ ui \in Team!States
  <2>1. ui.view = "team"
    BY DEF Team!Click, Team!FillIn, Team!HandleCreate, Team!PatchUser, Team!Shown
  <2> QED
    BY <2>1, Typed
<1>2. \A r \in Roles : Team!ASSIGNABLE[r] \in SUBSET Roles
  BY DEF Team!ASSIGNABLE, Team!Roles, Roles
<1>3. Team!Assignable \in SUBSET Roles
  BY <1>1, <1>2 DEF Team!Assignable, Team!States, Team!Roles, Roles
<1>4. ASSUME NEW r \in Roles, Team!FillIn(r)
      PROVE  UiOK(ui)' /\ CallsOK' /\ Stays /\ ui'.as = ui.as
  <2>1. /\ ui' \in Team!States /\ mount' = mount /\ token' = token /\ calls' = calls
        /\ ui'.as = ui.as
    BY <1>1, <1>4 DEF Team!FillIn, Team!States, Team!Roles, Roles
  <2>2. UiOK(ui)' /\ Stays
    BY <1>1, <2>1, Typed DEF Stays
  <2> QED
    BY <2>1, <2>2, CallsKept
<1>5. CASE Team!HandleCreate
  <2>1. ui' \in Team!States /\ mount' = mount /\ token' = token /\ ui'.as = ui.as
    BY <1>1, <1>5 DEF Team!HandleCreate, Team!States
  <2>2. UiOK(ui)' /\ Stays
    BY <1>1, <2>1, Typed DEF Stays
  <2>3. PICK u \in Users :
          Fetch("handleCreate", "POST user", [user |-> u, role |-> ui.newRole], None)
    BY <1>5, TeamShared DEF Team!HandleCreate
  <2>4. [user |-> u, role |-> ui.newRole] \in [user : Users, role : Roles]
    BY <1>1 DEF Team!States, Team!Roles, Roles
  <2>5. CallsOK'
    BY <1>1, <2>2, <2>3, <2>4, Fetched DEF OpFits, ArgFits, KeptFits, Thens
  <2> QED
    BY <2>1, <2>2, <2>5
<1>6. ASSUME NEW u \in Users, Team!PatchUser(u)
      PROVE  UiOK(ui)' /\ CallsOK' /\ Stays /\ ui'.as = ui.as
  <2>1. ui' \in Team!States /\ mount' = mount /\ token' = token /\ ui'.as = ui.as
    BY <1>1, <1>6 DEF Team!PatchUser, Team!States
  <2>2. UiOK(ui)' /\ Stays
    BY <1>1, <2>1, Typed DEF Stays
  <2>3. PICK change \in Team!Offered(u) :
          Fetch("patchUser", "PATCH user", [user |-> u, change |-> change], None)
    BY <1>6, TeamShared DEF Team!PatchUser
  <2>4. change \in Changes
    <3>1. Team!Manageable(u)
      BY <2>3 DEF Team!Offered
    <3>2. ui.users[u] \in [role : Roles, active : BOOLEAN]
      BY <1>1, <3>1 DEF Team!Manageable, Team!States, Team!Accounts, Team!Roles, Roles
    <3>3. (~ui.users[u].active) \in BOOLEAN
      OBVIOUS
    <3> QED
      BY <1>3, <2>3, <3>1, <3>3 DEF Team!Offered, Changes
  <2>5. [user |-> u, change |-> change] \in [user : Users, change : Changes]
    BY <2>4
  <2>6. CallsOK'
    BY <1>1, <2>2, <2>3, <2>5, Fetched DEF OpFits, ArgFits, KeptFits, Thens
  <2> QED
    BY <2>1, <2>2, <2>6
<1> QED
  BY <1>4, <1>5, <1>6 DEF Team!Click, Team!Roles, Roles

LEMMA TeamContinue ==
    ASSUME UiOK(ui), CallsOK, NEW i \in DOMAIN calls, Team!Continue(i)
    PROVE  UiOK(ui)' /\ CallsOK' /\ Stays /\ ui'.as = ui.as
<1>1. IsFetch(calls[i]) /\ InTab(calls[i])
  BY DEF CallsOK, GoodCalls
<1>2. /\ mount' = mount /\ token' = token
      /\ calls[i].then \in {"load", "handleCreate", "handleCreate: load", "patchUser"}
  BY DEF Team!Continue, Team!Load, Team!Created, Team!CreatedLoaded, Team!Patched,
         Team!Awaited
<1>3. calls[i].by = mount => ui.view = "team" /\ ui \in Team!States
  BY <1>1, <1>2, Typed DEF InTab, Thens
<1>4. ASSUME NEW new, SetState(i, new),
             calls[i].by = mount => new \in Team!States /\ new.as = ui.as
      PROVE  UiOK(ui)' /\ Stays /\ ui'.as = ui.as
  <2>1. UiOK(ui)' /\ Stays
    BY <1>2, <1>3, <1>4, Typed, SetStateOK
  <2> QED
    BY <1>4, <2>1 DEF SetState
<1>5. ASSUME Stays, NEW then \in {"load", "handleCreate: load"},
             ThenFetch(i, then, "GET users", None, None)
      PROVE  CallsOK'
  <2>1. /\ OpFits(then, "GET users") /\ ArgFits("GET users", None)
        /\ KeptFits(then, None, None) /\ then # "gone" /\ calls[i].then # "gone"
        /\ calls[i].by = mount => then \in Thens(ui.view)
    BY <1>2, <1>3 DEF OpFits, ArgFits, KeptFits, Thens
  <2> QED
    BY <1>5, <2>1, ThenFetched
<1>6. ASSUME calls[i].then \in {"load", "handleCreate: load"}, calls[i].by = mount
      PROVE  Team!Loaded(i) \in Team!States /\ Team!Loaded(i).as = ui.as
  <2>1. IsOk(i) => calls[i].data \in Team!Accounts
    BY <1>1, <1>6 DEF IsFetch, OpFits, AnswerFits, IsOk
  <2> QED
    BY <1>3, <1>6, <2>1, TeamShared DEF Team!Loaded, Team!States
<1>7. CASE Team!Load(i)
  <2>1. UiOK(ui)' /\ Stays /\ ui'.as = ui.as
    BY <1>4, <1>6, <1>7, TeamShared DEF Team!Load, Awaited
  <2> QED
    BY <1>7, <2>1, CallRemoved, TeamShared DEF Team!Load
<1>8. CASE Team!Created(i)
  <2>1. calls[i].by = mount =>
          /\ [ui EXCEPT !.filled = FALSE, !.newRole = "member"] \in Team!States
          /\ [ui EXCEPT !.error = TRUE, !.creating = FALSE] \in Team!States
    BY <1>3 DEF Team!States, Team!Roles
  <2>2. UiOK(ui)' /\ Stays /\ ui'.as = ui.as
    <3>1. calls[i].by = mount =>
            /\ [ui EXCEPT !.filled = FALSE, !.newRole = "member"].as = ui.as
            /\ [ui EXCEPT !.error = TRUE, !.creating = FALSE].as = ui.as
      BY <1>3 DEF Team!States
    <3>2. CASE IsOk(i)
      <4>1. SetState(i, [ui EXCEPT !.filled = FALSE, !.newRole = "member"])
        BY <1>8, <3>2, TeamShared DEF Team!Created
      <4> QED
        BY <1>4, <2>1, <3>1, <4>1
    <3>3. CASE ~IsOk(i)
      <4>1. SetState(i, [ui EXCEPT !.error = TRUE, !.creating = FALSE])
        BY <1>8, <3>3, TeamShared DEF Team!Created
      <4> QED
        BY <1>4, <2>1, <3>1, <4>1
    <3> QED
      BY <3>2, <3>3
  <2> QED
    BY <1>5, <1>8, <2>2, CallRemoved, TeamShared DEF Team!Created
<1>9. CASE Team!CreatedLoaded(i)
  <2> DEFINE late == calls[i].state = "lost"
             new == [Team!Loaded(i) EXCEPT !.creating = FALSE, !.error = @ \/ late]
  <2>1. SetState(i, new)
    BY <1>9, TeamShared DEF Team!CreatedLoaded
  <2> HIDE DEF late
  <2>2. \A s \in Team!States :
          /\ [s EXCEPT !.creating = FALSE, !.error = @ \/ late] \in Team!States
          /\ [s EXCEPT !.creating = FALSE, !.error = @ \/ late].as = s.as
    BY DEF Team!States
  <2>3. calls[i].by = mount => new \in Team!States /\ new.as = ui.as
    <3>1. calls[i].then = "handleCreate: load"
      BY <1>9 DEF Team!CreatedLoaded, Team!Awaited
    <3> QED
      BY <1>6, <2>2, <3>1
  <2> HIDE DEF new
  <2>4. UiOK(ui)' /\ Stays /\ ui'.as = ui.as
    BY <1>4, <2>1, <2>3
  <2> QED
    BY <1>9, <2>4, CallRemoved, TeamShared DEF Team!CreatedLoaded
<1>10. CASE Team!Patched(i)
  <2>1. CASE IsOk(i)
    <3>1. Stays /\ ui' = ui
      BY <1>2, <1>10, <2>1, TeamShared DEF Team!Patched, Stays
    <3> QED
      BY <1>5, <1>10, <2>1, <3>1, TeamShared DEF Team!Patched
  <2>2. CASE ~IsOk(i)
    <3> DEFINE new == IF calls[i].state = "refused" THEN [ui EXCEPT !.error = TRUE] ELSE ui
    <3>1. calls[i].by = mount => new \in Team!States /\ new.as = ui.as
      BY <1>3 DEF Team!States
    <3>2. SetState(i, new)
      BY <1>10, <2>2, TeamShared DEF Team!Patched
    <3> HIDE DEF new
    <3>3. UiOK(ui)' /\ Stays /\ ui'.as = ui.as
      BY <1>4, <3>1, <3>2
    <3> QED
      BY <1>10, <2>2, <3>3, CallRemoved, TeamShared DEF Team!Patched
  <2> QED
    BY <2>1, <2>2
<1> QED
  BY <1>7, <1>8, <1>9, <1>10 DEF Team!Continue

\* What waits for the answer to a change finds the organizations on the page.
Managed ==
    ui.view = "admin" =>
        \A k \in Own : calls[k].then \in {"handleToggle", "handleQuotaSave"} =>
            ui.orgs \in [Orgs -> AdminPanel!Settings]

\* What is left of the fetches when one returns.
LEMMA ReturnLeaves ==
    ASSUME CallsOK, NEW i \in DOMAIN calls, Return(i)
    PROVE  \A k \in DOMAIN calls' : \E j \in DOMAIN calls \ {i} : calls'[k] = calls[j]
<1>1. /\ DOMAIN calls' = 1 .. Len(calls) - 1
      /\ \A k \in DOMAIN calls' : calls'[k] = IF k < i THEN calls[k] ELSE calls[k + 1]
  BY SeqRemoved DEF CallsOK, GoodCalls, Return
<1>2. Len(calls) \in Nat /\ DOMAIN calls = 1 .. Len(calls)
  BY SeqFacts DEF CallsOK, GoodCalls
<1> SUFFICES ASSUME NEW k \in DOMAIN calls'
             PROVE  \E j \in DOMAIN calls \ {i} : calls'[k] = calls[j]
  OBVIOUS
<1>3. CASE k < i
  <2>1. k \in DOMAIN calls \ {i} /\ calls'[k] = calls[k]
    BY <1>1, <1>2, <1>3
  <2> QED
    BY <2>1
<1>4. CASE ~(k < i)
  <2>1. k + 1 \in DOMAIN calls \ {i} /\ calls'[k] = calls[k + 1]
    BY <1>1, <1>2, <1>4
  <2> QED
    BY <2>1
<1> QED
  BY <1>3, <1>4

LEMMA AdminClick ==
    ASSUME UiOK(ui), CallsOK, AdminPanel!Click
    PROVE  /\ UiOK(ui)' /\ CallsOK' /\ Stays
           /\ ui.orgs # None /\ ui'.orgs \in [Orgs -> AdminPanel!Settings]
<1> DEFINE Goal == /\ UiOK(ui)' /\ CallsOK' /\ Stays
                   /\ ui.orgs # None /\ ui'.orgs \in [Orgs -> AdminPanel!Settings]
<1>1. ui.view = "admin" /\ ui \in AdminPanel!States /\ ui.orgs # None
  <2>1. ui.view = "admin" /\ ui.orgs # None
    BY DEF AdminPanel!Click, AdminPanel!HandleToggle, AdminPanel!TypeQuota,
           AdminPanel!HandleQuotaSave, AdminPanel!ToggleDocuments, AdminPanel!Shown
  <2> QED
    BY <2>1, Typed
<1>2. ui.orgs \in [Orgs -> AdminPanel!Settings]
  BY <1>1 DEF AdminPanel!States
<1>3. ASSUME NEW s, s \in AdminPanel!States, s.orgs = ui.orgs, ui' = s,
             mount' = mount, token' = token
      PROVE  UiOK(ui)' /\ Stays /\ ui'.orgs \in [Orgs -> AdminPanel!Settings]
  BY <1>1, <1>2, <1>3, Typed DEF Stays
<1>4. /\ [ui EXCEPT !.error = FALSE] \in AdminPanel!States
      /\ [ui EXCEPT !.error = FALSE].orgs = ui.orgs
      /\ [ui EXCEPT !.error = TRUE] \in AdminPanel!States
      /\ [ui EXCEPT !.error = TRUE].orgs = ui.orgs
  BY <1>1 DEF AdminPanel!States
<1>5. ASSUME NEW then \in {"handleToggle", "handleQuotaSave"}, NEW o \in Orgs,
             NEW field, NEW value,
             \/ field \in AdminPanel!TOGGLE_FIELDS /\ value \in BOOLEAN
             \/ field = "quota" /\ value \in Quotas,
             AdminPanel!Update(then, o, field, value), mount' = mount, token' = token
      PROVE  Goal
  <2>1. UiOK(ui)' /\ Stays /\ ui'.orgs \in [Orgs -> AdminPanel!Settings]
    BY <1>3, <1>4, <1>5 DEF AdminPanel!Update
  <2> DEFINE arg == [org |-> o, field |-> field, value |-> value]
  <2>2. Fetch(then, "PATCH org", arg, None)
    BY <1>5, AdminShared DEF AdminPanel!Update
  <2>3. arg \in [org : Orgs, field : AdminPanel!TOGGLE_FIELDS, value : BOOLEAN]
                \cup [org : Orgs, field : {"quota"}, value : Quotas]
    BY <1>5
  <2> HIDE DEF arg
  <2>4. /\ OpFits(then, "PATCH org") /\ ArgFits("PATCH org", arg)
        /\ KeptFits(then, arg, None) /\ then \in Thens(ui.view)
    BY <1>1, <1>5, <2>3 DEF OpFits, ArgFits, KeptFits, Thens
  <2>5. CallsOK'
    BY <1>5, <2>1, <2>2, <2>4, Fetched
  <2> QED
    BY <1>1, <2>1, <2>5
<1>6. ASSUME NEW o \in Orgs, NEW f \in AdminPanel!TOGGLE_FIELDS,
             AdminPanel!HandleToggle(o, f)
      PROVE  Goal
  BY <1>5, <1>6 DEF AdminPanel!HandleToggle
<1>7. ASSUME NEW o \in Orgs, NEW q \in Quotas \cup {None}
      PROVE  /\ [ui EXCEPT !.drafts[o] = q] \in AdminPanel!States
             /\ [ui EXCEPT !.drafts[o] = q].orgs = ui.orgs
  <2>1. [ui.drafts EXCEPT ![o] = q] \in [Orgs -> Quotas \cup {None}]
    BY <1>1, <1>7 DEF AdminPanel!States
  <2>2. [ui EXCEPT !.drafts = [ui.drafts EXCEPT ![o] = q]] \in AdminPanel!States
    BY <1>1, <2>1 DEF AdminPanel!States
  <2> QED
    BY <1>1, <2>2 DEF AdminPanel!States
<1>8. ASSUME NEW o \in Orgs, NEW q \in Quotas, AdminPanel!TypeQuota(o, q)
      PROVE  Goal
  <2>1. UiOK(ui)' /\ Stays /\ ui'.orgs \in [Orgs -> AdminPanel!Settings]
    BY <1>3, <1>7, <1>8 DEF AdminPanel!TypeQuota
  <2> QED
    BY <1>1, <1>8, <2>1, CallsKept DEF AdminPanel!TypeQuota
<1>9. ASSUME NEW o \in Orgs, AdminPanel!HandleQuotaSave(o)
      PROVE  Goal
  <2>1. mount' = mount /\ token' = token
    BY <1>9 DEF AdminPanel!HandleQuotaSave
  <2>2. CASE ui' = [ui EXCEPT !.error = TRUE] /\ UNCHANGED calls
    <3>1. UiOK(ui)' /\ Stays /\ ui'.orgs \in [Orgs -> AdminPanel!Settings]
      BY <1>3, <1>4, <2>1, <2>2
    <3> QED
      BY <1>1, <2>2, <3>1, CallsKept
  <2>3. CASE ui' = [ui EXCEPT !.drafts[o] = None] /\ UNCHANGED calls
    <3> DEFINE new == [ui EXCEPT !.drafts[o] = None]
    <3>2. new \in AdminPanel!States /\ new.orgs = ui.orgs
      BY <1>7
    <3>3. ui' = new
      BY <2>3
    <3> HIDE DEF new
    <3>1. UiOK(ui)' /\ Stays /\ ui'.orgs \in [Orgs -> AdminPanel!Settings]
      BY <1>3, <2>1, <3>2, <3>3
    <3> QED
      BY <1>1, <2>3, <3>1, CallsKept
  <2>4. CASE AdminPanel!Update("handleQuotaSave", o, "quota", ui.drafts[o])
    <3>1. ui.drafts[o] \in Quotas
      BY <1>1, <1>9 DEF AdminPanel!HandleQuotaSave, AdminPanel!States
    <3> QED
      BY <1>5, <2>1, <2>4, <3>1
  <2> QED
    BY <1>9, <2>2, <2>3, <2>4 DEF AdminPanel!HandleQuotaSave
<1>10. ASSUME NEW o \in Orgs, AdminPanel!ToggleDocuments(o)
       PROVE  Goal
  <2>1. mount' = mount /\ token' = token
    BY <1>10 DEF AdminPanel!ToggleDocuments
  <2>2. CASE ui.expanded = o
    <3>1. /\ [ui EXCEPT !.expanded = None, !.docs = None] \in AdminPanel!States
          /\ [ui EXCEPT !.expanded = None, !.docs = None].orgs = ui.orgs
      BY <1>1 DEF AdminPanel!States
    <3>2. UiOK(ui)' /\ Stays /\ ui'.orgs \in [Orgs -> AdminPanel!Settings]
      BY <1>3, <1>10, <2>1, <2>2, <3>1 DEF AdminPanel!ToggleDocuments
    <3> QED
      BY <1>1, <1>10, <2>2, <3>2, CallsKept DEF AdminPanel!ToggleDocuments
  <2>3. CASE ui.expanded # o
    <3>1. /\ [ui EXCEPT !.expanded = o] \in AdminPanel!States
          /\ [ui EXCEPT !.expanded = o].orgs = ui.orgs
      BY <1>1 DEF AdminPanel!States
    <3>2. UiOK(ui)' /\ Stays /\ ui'.orgs \in [Orgs -> AdminPanel!Settings]
      BY <1>3, <1>10, <2>1, <2>3, <3>1 DEF AdminPanel!ToggleDocuments
    <3>3. Fetch("toggleDocuments", "GET org documents", o, None)
      BY <1>10, <2>3, AdminShared DEF AdminPanel!ToggleDocuments
    <3>4. CallsOK'
      BY <1>1, <3>2, <3>3, Fetched DEF OpFits, ArgFits, KeptFits, Thens
    <3> QED
      BY <1>1, <3>2, <3>4
  <2> QED
    BY <2>2, <2>3
<1> QED
  BY <1>6, <1>8, <1>9, <1>10 DEF AdminPanel!Click

LEMMA AdminContinue ==
    ASSUME UiOK(ui), CallsOK, Managed, NEW i \in DOMAIN calls, AdminPanel!Continue(i)
    PROVE  /\ UiOK(ui)' /\ CallsOK' /\ Stays /\ Managed'
           /\ (ui.view = "admin" /\ ui'.orgs # None)
                 => ui.orgs # None \/ (token # None /\ token.account = "admin")
<1>1. IsFetch(calls[i]) /\ InTab(calls[i])
  BY DEF CallsOK, GoodCalls
<1>2. /\ mount' = mount /\ token' = token
      /\ calls[i].then \in {"admin: getMe", "admin: loadOrgs", "handleToggle",
                            "handleQuotaSave", "toggleDocuments"}
      /\ Return(i)
  BY AdminShared
     DEF AdminPanel!Continue, AdminPanel!OrgsLoaded, AdminPanel!AdminKnown,
         AdminPanel!Toggled, AdminPanel!QuotaSaved, AdminPanel!DocumentsShown,
         AdminPanel!Awaited
<1>3. calls[i].by = mount => ui.view = "admin" /\ ui \in AdminPanel!States
  BY <1>1, <1>2, Typed DEF InTab, Thens
<1>4. ASSUME NEW new, SetState(i, new),
             calls[i].by = mount =>
                /\ new \in AdminPanel!States
                /\ new.orgs = ui.orgs \/ new.orgs \in [Orgs -> AdminPanel!Settings]
      PROVE  UiOK(ui)' /\ CallsOK' /\ Stays /\ Managed'
  <2>1. UiOK(ui)' /\ Stays
    BY <1>2, <1>3, <1>4, Typed, SetStateOK
  <2>2. Managed'
    <3> SUFFICES ASSUME ui'.view = "admin", NEW k \in Own',
                        calls'[k].then \in {"handleToggle", "handleQuotaSave"}
                 PROVE  ui'.orgs \in [Orgs -> AdminPanel!Settings]
      BY DEF Managed
    <3>1. PICK j \in DOMAIN calls : calls'[k] = calls[j]
      BY <1>2, ReturnLeaves DEF Own
    <3>2. j \in Own
      BY <1>2, <3>1 DEF Own
    <3>3. ui.orgs \in [Orgs -> AdminPanel!Settings]
      BY <2>1, <3>1, <3>2 DEF Managed, Stays
    <3> QED
      BY <1>4, <3>3 DEF SetState
  <2> QED
    BY <1>2, <2>1, <2>2, CallRemoved
<1>5. ASSUME UNCHANGED ui
      PROVE  UiOK(ui)' /\ CallsOK' /\ Stays /\ Managed'
  <2>1. SetState(i, ui)
    BY <1>5 DEF SetState
  <2> QED
    BY <1>3, <1>4, <2>1
<1>6. ASSUME IsOk(i), calls[i].by = mount,
             calls[i].then \in {"handleToggle", "handleQuotaSave"}
      PROVE  /\ AdminPanel!Replaced(i) \in AdminPanel!States
             /\ AdminPanel!Replaced(i).orgs \in [Orgs -> AdminPanel!Settings]
             /\ calls[i].arg.org \in Orgs
  <2>1. ui.orgs \in [Orgs -> AdminPanel!Settings]
    BY <1>3, <1>6 DEF Managed, Own
  <2>2. calls[i].op = "PATCH org"
    BY <1>1, <1>6 DEF IsFetch, OpFits
  <2>3. calls[i].arg.org \in Orgs
    BY <1>1, <2>2 DEF IsFetch, ArgFits
  <2>4. calls[i].data \in AdminPanel!Settings
    BY <1>1, <1>6, <2>2 DEF IsFetch, AnswerFits, IsOk
  <2>5. [ui.orgs EXCEPT ![calls[i].arg.org] = calls[i].data]
          \in [Orgs -> AdminPanel!Settings]
    BY <2>1, <2>4
  <2> QED
    BY <1>3, <1>6, <2>3, <2>5 DEF AdminPanel!Replaced, AdminPanel!States
<1>7. CASE AdminPanel!OrgsLoaded(i)
  <2>1. calls[i].then = "admin: loadOrgs" /\ IsOk(i)
    BY <1>7, AdminShared DEF AdminPanel!OrgsLoaded, Awaited
  <2>2. /\ calls[i].as # None /\ calls[i].as.account = "admin"
        /\ calls[i].data \in [Orgs -> AdminPanel!Settings] /\ calls[i].as = token
    BY <1>1, <2>1 DEF IsFetch, OpFits, AnswerFits, IsOk, InTab
  <2>3. calls[i].by = mount =>
          /\ [ui EXCEPT !.orgs = calls[i].data] \in AdminPanel!States
          /\ [ui EXCEPT !.orgs = calls[i].data].orgs \in [Orgs -> AdminPanel!Settings]
    BY <1>3, <2>2 DEF AdminPanel!States
  <2>4. SetState(i, [ui EXCEPT !.orgs = calls[i].data])
    BY <1>7, AdminShared DEF AdminPanel!OrgsLoaded
  <2> QED
    BY <1>4, <2>2, <2>3, <2>4
<1>8. calls[i].by = mount => /\ [ui EXCEPT !.error = TRUE] \in AdminPanel!States
                             /\ [ui EXCEPT !.error = TRUE].orgs = ui.orgs
  BY <1>3 DEF AdminPanel!States
<1>9. ASSUME SetState(i, [ui EXCEPT !.error = TRUE])
      PROVE  UiOK(ui)' /\ CallsOK' /\ Stays /\ Managed' /\ ui'.orgs = ui.orgs
  BY <1>4, <1>8, <1>9 DEF SetState
<1>10. ASSUME IsOk(i), calls[i].then \in {"handleToggle", "handleQuotaSave"}
       PROVE  token # None /\ token.account = "admin"
  BY <1>1, <1>10 DEF IsFetch, OpFits, AnswerFits, IsOk, InTab
<1>11. CASE AdminPanel!AdminKnown(i)
  <2>1. ui' = ui
    BY <1>11 DEF AdminPanel!AdminKnown
  <2> QED
    BY <1>5, <2>1
<1>12. CASE AdminPanel!Toggled(i)
  <2>1. calls[i].then = "handleToggle"
    BY <1>12 DEF AdminPanel!Toggled, AdminPanel!Awaited
  <2>2. CASE IsOk(i)
    <3>1. SetState(i, AdminPanel!Replaced(i))
      BY <1>12, <2>2, AdminShared DEF AdminPanel!Toggled
    <3> QED
      BY <1>4, <1>6, <1>10, <2>1, <2>2, <3>1
  <2>3. CASE ~IsOk(i)
    <3>1. SetState(i, [ui EXCEPT !.error = TRUE])
      BY <1>12, <2>3, AdminShared DEF AdminPanel!Toggled
    <3> QED
      BY <1>9, <3>1
  <2> QED
    BY <2>2, <2>3
<1>13. CASE AdminPanel!QuotaSaved(i)
  <2>1. calls[i].then = "handleQuotaSave"
    BY <1>13 DEF AdminPanel!QuotaSaved, AdminPanel!Awaited
  <2>2. CASE IsOk(i)
    <3> DEFINE o == calls[i].arg.org
               new == [AdminPanel!Replaced(i) EXCEPT !.drafts[o] = None]
    <3>1. SetState(i, new)
      BY <1>13, <2>2, AdminShared DEF AdminPanel!QuotaSaved
    <3>2. \A s \in AdminPanel!States : o \in Orgs =>
            /\ [s EXCEPT !.drafts[o] = None] \in AdminPanel!States
            /\ [s EXCEPT !.drafts[o] = None].orgs = s.orgs
      <4> SUFFICES ASSUME NEW s \in AdminPanel!States, o \in Orgs
                   PROVE  /\ [s EXCEPT !.drafts[o] = None] \in AdminPanel!States
                          /\ [s EXCEPT !.drafts[o] = None].orgs = s.orgs
        OBVIOUS
      <4> HIDE DEF o
      <4>1. [s.drafts EXCEPT ![o] = None] \in [Orgs -> Quotas \cup {None}]
        BY DEF AdminPanel!States
      <4>2. [s EXCEPT !.drafts = [s.drafts EXCEPT ![o] = None]] \in AdminPanel!States
        BY <4>1 DEF AdminPanel!States
      <4> QED
        BY <4>2 DEF AdminPanel!States
    <3>3. calls[i].by = mount =>
            new \in AdminPanel!States /\ new.orgs \in [Orgs -> AdminPanel!Settings]
      BY <1>6, <2>1, <2>2, <3>2
    <3> HIDE DEF new
    <3> QED
      BY <1>4, <1>10, <2>1, <2>2, <3>1, <3>3
  <2>3. CASE ~IsOk(i)
    <3>1. SetState(i, [ui EXCEPT !.error = TRUE])
      BY <1>13, <2>3, AdminShared DEF AdminPanel!QuotaSaved
    <3> QED
      BY <1>9, <3>1
  <2> QED
    BY <2>2, <2>3
<1>14. CASE AdminPanel!DocumentsShown(i)
  <2> DEFINE new == [ui EXCEPT !.docs = calls[i].data]
  <2>1. calls[i].then = "toggleDocuments" /\ calls[i].state # "sent"
    BY <1>14 DEF AdminPanel!DocumentsShown, AdminPanel!Awaited
  <2>2. calls[i].data \in Orgs \cup {None}
    BY <1>1, <2>1 DEF IsFetch, OpFits, ArgFits, AnswerFits
  <2>3. calls[i].by = mount => new \in AdminPanel!States /\ new.orgs = ui.orgs
    BY <1>3, <2>2 DEF AdminPanel!States
  <2>4. SetState(i, new)
    BY <1>14, AdminShared DEF AdminPanel!DocumentsShown
  <2> HIDE DEF new
  <2> QED
    BY <1>4, <2>3, <2>4 DEF SetState
<1> QED
  BY <1>7, <1>11, <1>12, <1>13, <1>14 DEF AdminPanel!Continue

=============================================================================
