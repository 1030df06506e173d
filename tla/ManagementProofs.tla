--------------------------- MODULE ManagementProofs ---------------------------
(***************************************************************************)
(* Theorems about Management, for every set of users, cases, computers,    *)
(* names and faults, and any number of requests under way.                 *)
(*                                                                         *)
(* Consistent is inductive by itself: the types, and what ties a request   *)
(* to the page that asked for it.  Serial adds what holds when it handles  *)
(* one creation at a time: a request that is past the check for duplicates *)
(* is the only one, and its directory has no entry, so no write replaces   *)
(* one.                                                                    *)
(***************************************************************************)
EXTENDS Management, TLAPS, SequenceTheorems

Statuses == {"none", "Success", "Failed", "Error", "ok", "empty"}
Answers  == [status : Statuses, object : Objects \cup {Blank},
             list : SUBSET Keys]
Requests == [user : Users \cup {None}, no : Numbers, kind : Kinds,
             key : Keys \cup {<<>>}, body : Objects \cup {Blank},
             scope : {"here", "left", "gone"},
             at : {"sent", "create", "write", "answered"}, answer : Answers]
Active   == {"create", "write"}

\* An answer that lists what is in the directory that was asked for.
Fits(r, a) == r.kind = "query" => \A k \in a.list : Parent(k) = r.key

Respond(r, a) == [r EXCEPT !.at = "answered", !.answer = a]

\* A request by itself.
Shape(r) ==
    /\ r \in Requests
    /\ r.kind # "query" => r.key \in Keys
    /\ r.kind \in {"post", "put"} => r.body \in Objects /\ r.body.key = r.key
    /\ r.at \in Active => r.kind = "post"
    /\ r.scope # "gone" => r.user \in Users
    /\ Fits(r, r.answer)

\* A request and the page that asked.
Linked(r) ==
    r.scope = "here" =>
        /\ r.kind = "get" =>
              /\ page[r.user].state \in {"viewCase", "editCase", "viewComputer"}
              /\ page[r.user].key = r.key
        /\ r.kind = "query" =>
              /\ page[r.user].state \in {"cases", "viewCase"}
              /\ page[r.user].key = r.key

Placed(r) == r.at = "write" => r.key \in folders

PageShape(u) ==
    /\ page[u].state \in {"start", "cases"} => object[u] = Blank
    /\ page[u].state \notin {"cases", "viewCase"} => list[u] = None
    /\ list[u] # None => \A k \in list[u] : Parent(k) = page[u].key

Types ==
    /\ faults \in FaultSets
    /\ folders \in SUBSET Keys
    /\ entry \in [Keys -> Names \cup {Missing}]
    /\ Readable \subseteq folders
    /\ page \in [Users -> Pages]
    /\ target \in [Users -> Pages \cup {None}]
    /\ object \in [Users -> Objects \cup {Blank}]
    /\ list \in [Users -> (SUBSET Keys) \cup {None}]

Consistent ==
    /\ Types
    /\ \A r \in requests : Shape(r) /\ Linked(r) /\ Placed(r)
    /\ \A u \in Users : PageShape(u)

-----------------------------------------------------------------------------
(* Keys, requests and pages. *)

LEMMA KeyShapes ==
    /\ \A k \in CaseKeys : Len(k) = 1 /\ k \in Keys
    /\ \A k \in ComputerKeys : Len(k) = 2 /\ k \in Keys /\ Parent(k) \in CaseKeys
<1>1. ASSUME NEW c \in Cases, NEW d \in Computers
      PROVE  Len(<<c, d>>) = 2 /\ Parent(<<c, d>>) = <<c>>
  <2>1. Len(<<c, d>>) = 2
    OBVIOUS
  <2>2. SubSeq(<<c, d>>, 1, 1) = <<c>>
    <3> DEFINE s == SubSeq(<<c, d>>, 1, 1)
    <3>1. /\ s \in Seq({c}) /\ Len(s) = 1
          /\ \A i \in 1 .. 1 : s[i] = <<c, d>>[i]
      BY SubSeqProperties, \A i \in 1 .. 1 : <<c, d>>[i] \in {c}
    <3>2. <<c>> \in Seq({c}) /\ Len(<<c>>) = 1
      OBVIOUS
    <3>3. \A i \in 1 .. Len(s) : s[i] = <<c>>[i]
      BY <3>1
    <3> HIDE DEF s
    <3> QED
      BY <3>1, <3>2, <3>3, SeqEqual DEF s
  <2> QED
    BY <2>1, <2>2 DEF Parent
<1>2. ASSUME NEW c \in Cases PROVE Len(<<c>>) = 1
  OBVIOUS
<1> QED
  BY <1>1, <1>2 DEF CaseKeys, ComputerKeys, Keys

LEMMA HomeIsPage == Home \in Pages
  BY DEF Home, Page, Pages

\* Where the callback of a save goes.
LEMMA CallbackPage ==
    ASSUME NEW k \in Keys
    PROVE  (IF Len(k) = 1 THEN Home ELSE Page("viewCase", Parent(k))) \in Pages
  BY KeyShapes, HomeIsPage DEF Keys, Page, Pages

LEMMA FetchedShape ==
    ASSUME NEW p \in Pages, NEW f \in Fetches(p)
    PROVE  /\ f[1] \in {"get", "query"}
           /\ f[2] = p.key
           /\ f[2] \in Keys \cup {<<>>}
           /\ f[1] = "get" => /\ f[2] \in Keys
                              /\ p.state \in {"viewCase", "editCase", "viewComputer"}
           /\ f[1] = "query" => p.state \in {"cases", "viewCase"}
  BY DEF Fetches, Pages, Keys

LEMMA NewRequest ==
    ASSUME NEW u \in Users, NEW n \in Numbers, NEW kind \in Kinds,
           NEW k \in Keys \cup {<<>>}, NEW body \in Objects \cup {Blank},
           kind # "query" => k \in Keys,
           kind \in {"post", "put"} => body \in Objects /\ body.key = k,
           NEW r, r = Request(u, n, kind, k, body)
    PROVE  /\ Shape(r)
           /\ r.user = u /\ r.kind = kind /\ r.key = k
           /\ r.scope = "here" /\ r.at = "sent"
           /\ r.answer.status = "none" /\ r.answer.list = {}
  BY DEF Request, Shape, Fits, Requests, NoAnswer, Answers, Statuses, Active

LEMMA FetchRequest ==
    ASSUME NEW u \in Users, NEW n \in Numbers, NEW p \in Pages,
           NEW f \in Fetches(p),
           NEW q, q = Request(u, n, f[1], f[2], Blank)
    PROVE  /\ Shape(q) /\ q.user = u /\ q.kind = f[1] /\ q.key = f[2]
           /\ q.scope = "here" /\ q.at = "sent"
<1> DEFINE kind == f[1]
           k == f[2]
<1>1. /\ kind \in Kinds /\ k \in Keys \cup {<<>>}
      /\ kind # "query" => k \in Keys
      /\ kind \notin {"post", "put"}
      /\ Blank \in Objects \cup {Blank}
  BY FetchedShape DEF Kinds
<1>2. q = Request(u, n, kind, k, Blank)
  OBVIOUS
<1> HIDE DEF kind, k
<1>3. /\ Shape(q) /\ q.user = u /\ q.kind = kind /\ q.key = k
      /\ q.scope = "here" /\ q.at = "sent"
  BY <1>1, <1>2, NewRequest
<1> QED
  BY <1>3 DEF kind, k

-----------------------------------------------------------------------------
(* Requests that stay, one action after the other. *)

LEMMA MovedOn ==
    ASSUME NEW r, Shape(r), NEW a \in {"create", "write"}, r.kind = "post",
           NEW q, q = [r EXCEPT !.at = a]
    PROVE  /\ Shape(q)
           /\ q.at = a /\ q.scope = r.scope /\ q.user = r.user
           /\ q.kind = r.kind /\ q.key = r.key /\ q.body = r.body
           /\ q.answer = r.answer
  BY DEF Shape, Fits, Requests, Active

LEMMA WasAnswered ==
    ASSUME NEW r, Shape(r), NEW answer \in Answers, Fits(r, answer),
           NEW q, q = Respond(r, answer)
    PROVE  /\ Shape(q)
           /\ q.at = "answered" /\ q.scope = r.scope /\ q.user = r.user
           /\ q.kind = r.kind /\ q.key = r.key /\ q.body = r.body
           /\ q.answer = answer
  BY DEF Respond, Shape, Fits, Requests, Active

LEMMA WasLeft ==
    ASSUME NEW r, Shape(r), NEW scope \in {"left", "gone"},
           r.scope = "gone" => scope = "gone",
           NEW q, q = [r EXCEPT !.scope = scope]
    PROVE  /\ Shape(q)
           /\ q.at = r.at /\ q.scope = scope /\ q.user = r.user
           /\ q.kind = r.kind /\ q.key = r.key /\ q.body = r.body
           /\ q.answer = r.answer
  BY DEF Shape, Fits, Requests

LEMMA AnswerTypes ==
    ASSUME NEW status \in Statuses, NEW a, a = Answer(status)
    PROVE  a \in Answers /\ a.status = status /\ a.list = {}
  BY DEF Answer, NoAnswer, Answers, Statuses

LEMMA ObjectAnswer ==
    ASSUME Types, NEW k \in Readable,
           NEW a, a = [Answer("ok") EXCEPT !.object = Stored(k)]
    PROVE  a \in Answers /\ a.status = "ok" /\ a.list = {} /\ a.object = Stored(k)
<1>1. Stored(k) \in Objects
  BY DEF Types, Readable, Stored, Objects
<1>2. Answer("ok") \in Answers /\ Answer("ok").status = "ok" /\ Answer("ok").list = {}
  BY AnswerTypes DEF Statuses
<1> QED
  BY <1>1, <1>2 DEF Answers

LEMMA ListAnswer ==
    ASSUME NEW l \in SUBSET Keys,
           NEW a, a = [Answer("ok") EXCEPT !.list = l]
    PROVE  a \in Answers /\ a.status = "ok" /\ a.list = l
<1>1. Answer("ok") \in Answers /\ Answer("ok").status = "ok"
  BY AnswerTypes DEF Statuses
<1> QED
  BY <1>1 DEF Answers

-----------------------------------------------------------------------------
(* Every step keeps Consistent. *)

LEMMA InitConsistent == Init => Consistent
  BY HomeIsPage DEF Init, Consistent, Types, PageShape, Readable, Page, Pages

\* Entering a page, which is what Arrive and Click do.
LEMMA EnterConsistent ==
    ASSUME Consistent, NEW u \in Users, NEW p \in Pages, Enter(u, p)
    PROVE  Consistent'
<1> USE DEF Consistent
<1> PICK n \in [Fetches(p) -> Unused] :
          requests' = Leaving(u) \cup
              {Request(u, n[f], f[1], f[2], Blank) : f \in DOMAIN n}
  BY DEF Enter
<1>1. Types'
  BY DEF Enter, Types, database, Readable
<1>2. page'[u] = p /\ \A v \in Users \ {u} : page'[v] = page[v]
  BY DEF Enter, Types
<1>3. ASSUME NEW v \in Users PROVE PageShape(v)'
  BY <1>2 DEF PageShape, Enter, Types
<1>4. ASSUME NEW q \in Leaving(u) PROVE Shape(q) /\ Linked(q)' /\ Placed(q)'
  <2>1. PICK r \in requests : q = IF r.user = u /\ r.scope = "here"
                                  THEN [r EXCEPT !.scope = "left"] ELSE r
    BY DEF Leaving
  <2>2. Shape(r) /\ Linked(r) /\ Placed(r) /\ folders' = folders
    BY DEF Enter, database
  <2>3. CASE r.user = u /\ r.scope = "here"
    <3>1. q = [r EXCEPT !.scope = "left"]
      BY <2>1, <2>3
    <3>2. Shape(q) /\ q.at = r.at /\ q.scope = "left" /\ q.key = r.key
      BY <2>2, <2>3, <3>1, WasLeft
    <3> QED
      BY <2>2, <3>2 DEF Linked, Placed
  <2>4. CASE ~(r.user = u /\ r.scope = "here")
    BY <1>2, <2>1, <2>2, <2>4 DEF Linked, Placed, Shape
  <2> QED
    BY <2>3, <2>4
<1>5. ASSUME NEW f \in Fetches(p), NEW q, q = Request(u, n[f], f[1], f[2], Blank)
      PROVE  Shape(q) /\ Linked(q)' /\ Placed(q)'
  <2>1. n[f] \in Numbers
    BY DEF Unused
  <2>2. /\ Shape(q) /\ q.user = u /\ q.kind = f[1] /\ q.key = f[2]
        /\ q.scope = "here" /\ q.at = "sent"
    <3> HIDE DEF Consistent
    <3> QED
      BY <1>5, <2>1, FetchRequest
  <2> QED
    BY <1>2, <2>2, FetchedShape DEF Linked, Placed
<1> QED
  BY <1>1, <1>3, <1>4, <1>5

\* What stays of the requests when no page changes.
LEMMA RequestsStay ==
    ASSUME Consistent, page' = page, folders \subseteq folders', NEW r \in requests
    PROVE  Shape(r) /\ Linked(r)' /\ Placed(r)'
  BY DEF Consistent, Linked, Placed

LEMMA AnsweredConsistent ==
    ASSUME Consistent, page' = page, folders \subseteq folders',
           NEW r \in requests, NEW a \in Answers, Fits(r, a),
           requests' = Answered(r, a), NEW q \in requests'
    PROVE  Shape(q) /\ Linked(q)' /\ Placed(q)'
<1>1. CASE q \in requests
  BY <1>1, RequestsStay
<1>2. CASE q \notin requests
  <2>1. q = Respond(r, a)
    BY <1>2 DEF Answered, Moved, Respond
  <2>2. Shape(r) /\ Linked(r)'
    BY RequestsStay
  <2>3. /\ Shape(q) /\ q.at = "answered" /\ q.scope = r.scope
        /\ q.user = r.user /\ q.kind = r.kind /\ q.key = r.key
    BY <2>1, <2>2, WasAnswered
  <2> QED
    BY <2>2, <2>3 DEF Linked, Placed
<1> QED
  BY <1>1, <1>2

LEMMA MovedConsistent ==
    ASSUME Consistent, page' = page, folders \subseteq folders',
           NEW r \in requests, r.kind = "post", NEW a \in Active,
           a = "write" => r.key \in folders',
           requests' = Moved(r, [r EXCEPT !.at = a]), NEW q \in requests'
    PROVE  Shape(q) /\ Linked(q)' /\ Placed(q)'
<1>1. CASE q \in requests
  BY <1>1, RequestsStay
<1>2. CASE q \notin requests
  <2>1. q = [r EXCEPT !.at = a]
    BY <1>2 DEF Moved
  <2>2. Shape(r) /\ Linked(r)'
    BY RequestsStay
  <2>3. /\ Shape(q) /\ q.at = a /\ q.scope = r.scope
        /\ q.user = r.user /\ q.kind = r.kind /\ q.key = r.key
    BY <2>1, <2>2, MovedOn DEF Active
  <2> QED
    BY <2>2, <2>3 DEF Linked, Placed
<1> QED
  BY <1>1, <1>2

\* Pages that stay.
LEMMA PagesStay ==
    ASSUME Consistent, UNCHANGED <<page, object, list>>, NEW u \in Users
    PROVE  PageShape(u)'
  BY DEF Consistent, PageShape

LEMMA EntryTypes ==
    ASSUME Types, NEW k \in folders, NEW name \in Names \cup {Missing},
           UNCHANGED <<faults, folders, browser>>,
           entry' = [entry EXCEPT ![k] = name]
    PROVE  Types'
<1> USE DEF Types
<1>1. entry' \in [Keys -> Names \cup {Missing}]
  OBVIOUS
<1>2. Readable' \subseteq folders'
  BY DEF Readable
<1> QED
  BY <1>1, <1>2 DEF browser

-----------------------------------------------------------------------------

LEMMA UserStepConsistent ==
    ASSUME Consistent, NEW u \in Users, UserStep(u)
    PROVE  Consistent'
<1>1. CASE Arrive(u)
  <2>1. target[u] \in Pages
    BY <1>1 DEF Arrive, Consistent, Types
  <2> QED
    BY <1>1, <2>1, EnterConsistent DEF Arrive
<1>2. ASSUME NEW p \in Pages, Click(u, p) PROVE Consistent'
  BY <1>2, EnterConsistent DEF Click
<1>3. CASE Stay(u)
  <2>1. Types'
    BY <1>3 DEF Stay, Go, database, Readable, Consistent, Types
  <2>2. \A v \in Users : PageShape(v)'
    BY <1>3, PagesStay DEF Stay
  <2>3. \A r \in requests' : Shape(r) /\ Linked(r)' /\ Placed(r)'
    BY <1>3, RequestsStay DEF Stay, database
  <2> QED
    BY <2>1, <2>2, <2>3 DEF Consistent
<1>4. ASSUME NEW o \in Objects, Submit(u, o) PROVE Consistent'
  <2>1. Types'
    BY <1>4 DEF Submit, database, Readable, Consistent, Types
  <2>2. ASSUME NEW v \in Users PROVE PageShape(v)'
    BY <1>4 DEF Submit, FormStates, Consistent, Types, PageShape
  <2>3. ASSUME NEW q \in requests' PROVE Shape(q) /\ Linked(q)' /\ Placed(q)'
    <3>1. CASE q \in requests
      BY <1>4, <3>1, RequestsStay DEF Submit, database
    <3>2. CASE q \notin requests
      <4> DEFINE kind == IF page[u].state = "editCase" THEN "put" ELSE "post"
      <4>1. PICK n \in Numbers : q = Request(u, n, kind, o.key, o)
        BY <1>4, <3>2 DEF Submit, Unused
      <4>2. kind \in {"post", "put"} /\ kind \in Kinds /\ o.key \in Keys
        BY DEF Kinds, Objects
      <4> HIDE DEF kind
      <4>3. Shape(q) /\ q.kind \in {"post", "put"} /\ q.at = "sent"
        BY <4>1, <4>2, NewRequest
      <4> QED
        BY <4>3 DEF Linked, Placed
    <3> QED
      BY <3>1, <3>2
  <2> QED
    BY <2>1, <2>2, <2>3 DEF Consistent
<1>5. ASSUME NEW k \in CaseKeys, DeleteCase(u, k) PROVE Consistent'
  <2>1. Types'
    BY <1>5 DEF DeleteCase, database, browser, Readable, Consistent, Types
  <2>2. \A v \in Users : PageShape(v)'
    BY <1>5, PagesStay DEF DeleteCase, browser
  <2>3. ASSUME NEW q \in requests' PROVE Shape(q) /\ Linked(q)' /\ Placed(q)'
    <3>1. CASE q \in requests
      BY <1>5, <3>1, RequestsStay DEF DeleteCase, database, browser
    <3>2. CASE q \notin requests
      <4>1. PICK n \in Numbers : q = Request(u, n, "delete", k, Blank)
        BY <1>5, <3>2 DEF DeleteCase, Unused
      <4>2. "delete" \in Kinds /\ k \in Keys /\ Blank \in Objects \cup {Blank}
        BY DEF Kinds, Keys
      <4>3. Shape(q) /\ q.kind = "delete" /\ q.at = "sent"
        BY <4>1, <4>2, NewRequest
      <4> QED
        BY <4>3 DEF Linked, Placed
    <3> QED
      BY <3>1, <3>2
  <2> QED
    BY <2>1, <2>2, <2>3 DEF Consistent
<1> QED
  BY <1>1, <1>2, <1>3, <1>4, <1>5 DEF UserStep

LEMMA TypesStay ==
    ASSUME Types, UNCHANGED <<database, browser>>
    PROVE  Types'
  BY DEF Types, database, browser, Readable

LEMMA ServerStepConsistent ==
    ASSUME Consistent, NEW r \in requests, ServerStep(r)
    PROVE  Consistent'
<1>1. Types /\ Shape(r) /\ Placed(r)
  BY DEF Consistent
<1>2. UNCHANGED browser /\ folders \subseteq folders'
  BY DEF ServerStep, CheckDuplicate, MakeDirectory, WriteEntry, WriteFails,
         Get, Query, NotImplemented, database
<1>3. ASSUME NEW u \in Users PROVE PageShape(u)'
  BY <1>2, PagesStay DEF browser
<1>4. r.at \in Active => r.kind = "post" /\ r.key \in Keys
  BY <1>1 DEF Shape
<1>5. CASE CheckDuplicate(r)
  <2>1. requests' = Moved(r, [r EXCEPT !.at = "create"])
        \/ requests' = Answered(r, Answer("Failed"))
    BY <1>5 DEF CheckDuplicate
  <2>2. Types' /\ r.kind = "post"
    BY <1>1, <1>5, TypesStay DEF CheckDuplicate
  <2>3. Answer("Failed") \in Answers /\ Fits(r, Answer("Failed"))
    BY <2>2, AnswerTypes DEF Statuses, Fits
  <2>4. \A q \in requests' : Shape(q) /\ Linked(q)' /\ Placed(q)'
    BY <1>2, <2>1, <2>2, <2>3, MovedConsistent, AnsweredConsistent DEF browser, Active
  <2> QED
    BY <1>3, <2>2, <2>4 DEF Consistent
<1>6. CASE MakeDirectory(r)
  <2>1. r.kind = "post" /\ r.key \in Keys
    BY <1>4, <1>6 DEF MakeDirectory, Active
  <2>2. Types'
    BY <1>1, <1>6, <2>1 DEF MakeDirectory, Types, browser, Readable
  <2>3. requests' = Moved(r, [r EXCEPT !.at = "write"]) /\ r.key \in folders'
    BY <1>6 DEF MakeDirectory
  <2>4. \A q \in requests' : Shape(q) /\ Linked(q)' /\ Placed(q)'
    BY <1>2, <2>1, <2>3, MovedConsistent DEF browser, Active
  <2> QED
    BY <1>3, <2>2, <2>4 DEF Consistent
<1>7. ASSUME WriteEntry(r) \/ WriteFails(r) PROVE Consistent'
  <2>1. r.kind = "post" /\ r.key \in folders /\ r.body.name \in Names
    BY <1>1, <1>4, <1>7 DEF WriteEntry, WriteFails, Active, Placed, Shape, Objects
  <2>2. Types'
    BY <1>1, <1>7, <2>1, EntryTypes DEF WriteEntry, WriteFails
  <2>3. PICK status \in {"Success", "Failed"} : requests' = Answered(r, Answer(status))
    BY <1>7 DEF WriteEntry, WriteFails
  <2>4. Answer(status) \in Answers /\ Fits(r, Answer(status))
    BY <2>1, AnswerTypes DEF Statuses, Fits
  <2>5. \A q \in requests' : Shape(q) /\ Linked(q)' /\ Placed(q)'
    BY <1>2, <2>3, <2>4, AnsweredConsistent DEF browser
  <2> QED
    BY <1>3, <2>2, <2>5 DEF Consistent
<1>8. ASSUME Get(r) \/ Query(r) \/ NotImplemented(r) PROVE Consistent'
  <2>1. PICK a \in Answers : Fits(r, a) /\ requests' = Answered(r, a)
    <3>1. CASE Get(r) /\ r.key \in Readable
      <4> DEFINE a == [Answer("ok") EXCEPT !.object = Stored(r.key)]
      <4>1. a \in Answers /\ a.list = {}
        BY <1>1, <3>1, ObjectAnswer
      <4>2. requests' = Answered(r, a) /\ r.kind = "get"
        BY <3>1 DEF Get
      <4> HIDE DEF a
      <4> QED
        BY <4>1, <4>2 DEF Fits
    <3>2. CASE Get(r) /\ r.key \notin Readable
      BY <3>2, AnswerTypes DEF Get, Statuses, Fits
    <3>3. CASE Query(r)
      <4> DEFINE l == {k \in Readable : Parent(k) = r.key}
                 a == [Answer("ok") EXCEPT !.list = l]
      <4>1. a \in Answers /\ a.list = l
        BY ListAnswer DEF Readable
      <4>2. requests' = Answered(r, a)
        BY <3>3 DEF Query
      <4>3. \A k \in l : Parent(k) = r.key
        OBVIOUS
      <4> HIDE DEF a, l
      <4> QED
        BY <4>1, <4>2, <4>3 DEF Fits
    <3>4. CASE NotImplemented(r)
      BY <3>4, AnswerTypes DEF NotImplemented, Statuses, Fits
    <3> QED
      BY <1>8, <3>1, <3>2, <3>3, <3>4
  <2>2. Types'
    BY <1>1, <1>8, TypesStay DEF Get, Query, NotImplemented
  <2>3. \A q \in requests' : Shape(q) /\ Linked(q)' /\ Placed(q)'
    BY <1>2, <2>1, AnsweredConsistent DEF browser
  <2> QED
    BY <1>3, <2>2, <2>3 DEF Consistent
<1> QED
  BY <1>5, <1>6, <1>7, <1>8 DEF ServerStep

LEMMA ReceiveConsistent ==
    ASSUME Consistent, NEW r \in requests, Receive(r)
    PROVE  Consistent'
<1>1. Types /\ Shape(r) /\ Linked(r)
  BY DEF Consistent
<1>2. ASSUME requests' = requests \ {r}, UNCHANGED <<database, page>>
      PROVE  \A q \in requests' : Shape(q) /\ Linked(q)' /\ Placed(q)'
  BY <1>2, RequestsStay DEF database
<1>3. CASE ReceiveNothing(r)
  <2>1. Types'
    BY <1>1, <1>3, TypesStay DEF ReceiveNothing
  <2>2. \A u \in Users : PageShape(u)'
    BY <1>3, PagesStay DEF ReceiveNothing, browser
  <2> QED
    BY <1>2, <1>3, <2>1, <2>2 DEF ReceiveNothing, browser, Consistent
<1>4. CASE ReceiveObject(r)
  <2>1. r.user \in Users /\ r.answer.object \in Objects \cup {Blank}
        /\ page[r.user].state \in {"viewCase", "editCase", "viewComputer"}
    BY <1>1, <1>4 DEF ReceiveObject, Shape, Linked, Requests, Answers
  <2>2. Types'
    BY <1>1, <1>4, <2>1 DEF ReceiveObject, Types, database, Readable
  <2>3. ASSUME NEW u \in Users PROVE PageShape(u)'
    BY <1>4, <2>1 DEF ReceiveObject, PageShape, Consistent, Types
  <2> QED
    BY <1>2, <1>4, <2>2, <2>3 DEF ReceiveObject, Consistent
<1>5. CASE ReceiveList(r)
  <2>1. /\ r.user \in Users /\ r.answer.list \in SUBSET Keys
        /\ page[r.user].state \in {"cases", "viewCase"}
        /\ \A k \in r.answer.list : Parent(k) = page[r.user].key
    BY <1>1, <1>5 DEF ReceiveList, Shape, Linked, Requests, Answers, Fits
  <2>2. Types'
    BY <1>1, <1>5, <2>1 DEF ReceiveList, Types, database, Readable
  <2>3. ASSUME NEW u \in Users PROVE PageShape(u)'
    <3>1. CASE u = r.user
      <4>1. list'[u] = r.answer.list /\ page' = page /\ object' = object
        BY <1>1, <1>5, <3>1 DEF ReceiveList, Types
      <4> QED
        BY <2>1, <3>1, <4>1 DEF PageShape, Consistent
    <3>2. CASE u # r.user
      BY <1>5, <3>2 DEF ReceiveList, PageShape, Consistent, Types
    <3> QED
      BY <3>1, <3>2
  <2> QED
    BY <1>2, <1>5, <2>2, <2>3 DEF ReceiveList, Consistent
<1>6. CASE ReceiveSaved(r)
  <2>1. r.user \in Users /\ r.key \in Keys
    BY <1>1, <1>6 DEF ReceiveSaved, Shape
  <2>2. target' \in [Users -> Pages \cup {None}]
    BY <1>1, <1>6, <2>1, CallbackPage DEF ReceiveSaved, Go, Types
  <2>3. Types'
    BY <1>1, <1>6, <2>1, <2>2 DEF ReceiveSaved, Types, database, Readable
  <2>4. ASSUME NEW u \in Users PROVE PageShape(u)'
    BY <1>6, <2>1 DEF ReceiveSaved, PageShape, Consistent, Types
  <2> QED
    BY <1>2, <1>6, <2>3, <2>4 DEF ReceiveSaved, Consistent
<1>7. CASE ReceiveDeleted(r)
  <2>1. r.user \in Users
    BY <1>1, <1>7 DEF ReceiveDeleted, Shape
  <2>2. Page("start", <<>>) \in Pages
    BY DEF Page, Pages
  <2>3. Types'
    BY <1>1, <1>7, <2>1, <2>2, HomeIsPage DEF ReceiveDeleted, Types, database, Readable
  <2>4. ASSUME NEW u \in Users PROVE PageShape(u)'
    BY <1>7, <2>1 DEF ReceiveDeleted, PageShape, Consistent, Types, Page
  <2>5. ASSUME NEW q \in requests' PROVE Shape(q) /\ Linked(q)' /\ Placed(q)'
    <3>1. PICK p \in requests : q = IF p.user = r.user
                                    THEN [p EXCEPT !.scope = "gone"] ELSE p
      BY <1>7, <2>5 DEF ReceiveDeleted
    <3>2. Shape(p) /\ Linked(p) /\ Placed(p) /\ folders' = folders
      BY <1>7 DEF Consistent, ReceiveDeleted, database
    <3>3. CASE p.user = r.user
      <4>1. Shape(q) /\ q.scope = "gone" /\ q.at = p.at /\ q.key = p.key
        BY <3>1, <3>2, <3>3, WasLeft
      <4> QED
        BY <3>2, <4>1 DEF Linked, Placed
    <3>4. CASE p.user # r.user
      BY <1>1, <1>7, <2>1, <3>1, <3>2, <3>4 DEF ReceiveDeleted, Types, Linked, Placed, Shape
    <3> QED
      BY <3>3, <3>4
  <2> QED
    BY <2>3, <2>4, <2>5 DEF Consistent
<1> QED
  BY <1>3, <1>4, <1>5, <1>6, <1>7 DEF Receive

LEMMA OtherPostConsistent ==
    ASSUME Consistent, NEW o \in Objects, OtherPost(o)
    PROVE  Consistent'
<1>1. Types'
  BY TypesStay DEF OtherPost, Consistent
<1>2. \A u \in Users : PageShape(u)'
  BY PagesStay DEF OtherPost, browser
<1>3. ASSUME NEW q \in requests' PROVE Shape(q) /\ Linked(q)' /\ Placed(q)'
  <2>1. CASE q \in requests
    BY <2>1, RequestsStay DEF OtherPost, database, browser
  <2>2. CASE q \notin requests
    <3>1. PICK n \in Numbers :
            q = [Request(None, n, "post", o.key, o) EXCEPT !.scope = "gone"]
      BY <2>2 DEF OtherPost, Unused
    <3>2. o.key \in Keys
      BY DEF Objects
    <3>3. Shape(q) /\ q.scope = "gone" /\ q.at = "sent"
      BY <3>1, <3>2 DEF Request, NoAnswer, Shape, Fits, Requests, Kinds, Answers,
                        Statuses, Active
    <3> QED
      BY <3>3 DEF Linked, Placed
  <2> QED
    BY <2>1, <2>2
<1> QED
  BY <1>1, <1>2, <1>3 DEF Consistent

LEMMA CrashConsistent ==
    ASSUME Consistent, Crash
    PROVE  Consistent'
<1>1. Types'
  BY TypesStay DEF Crash, Consistent
<1>2. \A u \in Users : PageShape(u)'
  BY PagesStay DEF Crash, browser
<1>3. ASSUME NEW q \in requests' PROVE Shape(q) /\ Linked(q)' /\ Placed(q)'
  <2>1. PICK r \in requests :
           q = IF r.at = "answered" THEN r ELSE Respond(r, Answer("Error"))
    BY DEF Crash, Respond
  <2>2. Shape(r) /\ Linked(r)' /\ Placed(r)'
    BY RequestsStay DEF Crash, database, browser
  <2>3. CASE r.at # "answered"
    <3>1. Answer("Error") \in Answers /\ Fits(r, Answer("Error"))
      BY AnswerTypes DEF Statuses, Fits
    <3>2. q = Respond(r, Answer("Error"))
      BY <2>1, <2>3
    <3>3. /\ Shape(q) /\ q.at = "answered" /\ q.scope = r.scope
          /\ q.user = r.user /\ q.kind = r.kind /\ q.key = r.key
      BY <2>2, <3>1, <3>2, WasAnswered
    <3> QED
      BY <2>2, <3>3 DEF Linked, Placed
  <2> QED
    BY <2>1, <2>2, <2>3
<1> QED
  BY <1>1, <1>2, <1>3 DEF Consistent

LEMMA NextConsistent == Consistent /\ [Next]_vars => Consistent'
<1> SUFFICES ASSUME Consistent, [Next]_vars PROVE Consistent'
  OBVIOUS
<1>1. CASE UNCHANGED vars
  <2>1. Types'
    BY <1>1, TypesStay DEF vars, Consistent
  <2>2. \A u \in Users : PageShape(u)'
    BY <1>1, PagesStay DEF vars, browser
  <2>3. \A r \in requests' : Shape(r) /\ Linked(r)' /\ Placed(r)'
    BY <1>1, RequestsStay DEF vars, database, browser
  <2> QED
    BY <2>1, <2>2, <2>3 DEF Consistent
<1>2. CASE Next
  BY <1>2, UserStepConsistent, ServerStepConsistent, ReceiveConsistent,
     OtherPostConsistent, CrashConsistent DEF Next
<1> QED
  BY <1>1, <1>2

LEMMA AlwaysConsistent == Spec => []Consistent
  BY InitConsistent, NextConsistent, PTL DEF Spec

(***************************************************************************)
(* Every variable holds values of its kind, every entry is in a directory, *)
(* and a page shows an object or a list only if it is a page that has one: *)
(* whatever is answered late, fails or crashes.                            *)
(***************************************************************************)
THEOREM TypeCorrect == Spec => []TypeOK
<1>1. Consistent => TypeOK
  BY DEF Consistent, Types, Shape, Requests, PageShape, TypeOK
<1> QED
  BY <1>1, AlwaysConsistent, PTL

-----------------------------------------------------------------------------
(* Creations one at a time. *)

\* The directory of a creation under way is new, or has no entry yet.
Fresh(r) ==
    /\ r.at = "create" => r.key \notin folders
    /\ r.at = "write" => entry[r.key] = Missing

\* What an answer says is stored.
Told(r) ==
    /\ r.kind = "post" /\ r.answer.status = "Success" => Stored(r.key) = r.body
    /\ r.kind = "get" /\ r.answer.status = "ok" =>
          r.key \in Readable /\ r.answer.object = Stored(r.key)
    /\ r.kind = "query" => r.answer.list \subseteq Readable

Shown(u) ==
    /\ page[u].state \in {"viewCase", "viewComputer"} /\ object[u] # Blank =>
          object[u] = Stored(page[u].key)
    /\ list[u] # None => list[u] \subseteq Readable

Lone == \A q, r \in requests : q.at \in Active /\ r.at \in Active => q = r

Serial ==
    "concurrent" \notin faults =>
        /\ \A r \in requests : Fresh(r) /\ Told(r)
        /\ Lone
        /\ \A u \in Users : Shown(u)

Keep == \A k \in Readable : entry'[k] = entry[k]

LEMMA InitSerial == Init => Serial
  BY DEF Init, Serial, Lone, Shown, Page

\* Steps of the server and of others write no readable entry.
LEMMA KeepEntries ==
    ASSUME Consistent, Serial, [Next]_vars, "concurrent" \notin faults
    PROVE  Keep
<1>1. ASSUME NEW r \in requests, r.at = "write", NEW name,
             entry' = [entry EXCEPT ![r.key] = name]
      PROVE  Keep
  <2>1. r.key \notin Readable
    BY <1>1 DEF Serial, Fresh, Readable
  <2>2. Readable \subseteq Keys /\ \A k \in Keys \ {r.key} : entry'[k] = entry[k]
    BY <1>1 DEF Consistent, Types, Readable
  <2> QED
    BY <2>1, <2>2 DEF Keep
<1>2. CASE entry' = entry
  BY <1>2 DEF Keep
<1>3. ASSUME NEW r \in requests, ServerStep(r) PROVE Keep
  BY <1>1, <1>2, <1>3 DEF ServerStep, CheckDuplicate, MakeDirectory, WriteEntry,
     WriteFails, Get, Query, NotImplemented, database
<1>4. CASE UNCHANGED database
  BY <1>2, <1>4 DEF database
<1>5. ASSUME NEW u \in Users, UserStep(u) PROVE UNCHANGED database
  BY <1>5 DEF UserStep, Arrive, Click, Enter, Stay, Submit, DeleteCase
<1>6. ASSUME NEW r \in requests, Receive(r) PROVE UNCHANGED database
  BY <1>6 DEF Receive, ReceiveNothing, ReceiveObject, ReceiveList, ReceiveSaved,
     ReceiveDeleted
<1>7. ASSUME NEW o \in Objects, OtherPost(o) PROVE UNCHANGED database
  BY <1>7 DEF OtherPost
<1> QED
  BY <1>3, <1>4, <1>5, <1>6, <1>7 DEF Next, Crash, vars

\* What was told of a readable entry stays true.
LEMMA ToldStays ==
    ASSUME Consistent, Keep, NEW r, Shape(r), Told(r),
           NEW q, q.kind = r.kind, q.key = r.key, q.body = r.body,
           q.answer = r.answer
    PROVE  Told(q)'
<1>1. \A k \in Readable : k \in Readable' /\ Stored(k)' = Stored(k)
  BY DEF Keep, Readable, Stored
<1>2. ASSUME q.kind = "post", q.answer.status = "Success"
      PROVE  q.key \in Readable /\ Stored(q.key) = q.body
  <2>1. Stored(r.key) = r.body /\ r.body \in Objects /\ r.key \in Keys
    BY <1>2 DEF Told, Shape
  <2>2. entry[r.key] \in Names
    BY <2>1 DEF Stored, Objects
  <2> QED
    BY <2>1, <2>2, ManagementAssumption DEF Readable
<1>3. ASSUME q.kind = "get", q.answer.status = "ok"
      PROVE  q.key \in Readable /\ q.answer.object = Stored(q.key)
  BY <1>3 DEF Told
<1>4. q.kind = "query" => q.answer.list \subseteq Readable
  BY DEF Told
<1> QED
  BY <1>1, <1>2, <1>3, <1>4 DEF Told

LEMMA ShownStays ==
    ASSUME Consistent, Keep, NEW u \in Users, Shown(u),
           page'[u] = page[u], object'[u] = object[u], list'[u] = list[u]
    PROVE  Shown(u)'
<1>1. \A k \in Readable : k \in Readable' /\ Stored(k)' = Stored(k)
  BY DEF Keep, Readable, Stored
<1>2. ASSUME page[u].state \in {"viewCase", "viewComputer"}, object[u] # Blank
      PROVE  page[u].key \in Readable /\ object[u] = Stored(page[u].key)
  <2>1. page[u] \in Pages /\ object[u] \in Objects
    BY <1>2 DEF Consistent, Types
  <2>2. page[u].key \in Keys
    BY <1>2, <2>1 DEF Pages, Keys
  <2>3. object[u] = Stored(page[u].key) /\ entry[page[u].key] \in Names
    BY <1>2, <2>1 DEF Shown, Stored, Objects
  <2> QED
    BY <2>2, <2>3, ManagementAssumption DEF Readable
<1> QED
  BY <1>1, <1>2 DEF Shown

\* A request that is only left behind, and one that is new.
LEMMA SameSerial ==
    ASSUME Consistent, Serial, Keep, "concurrent" \notin faults, UNCHANGED database,
           NEW r \in requests,
           NEW q, q.kind = r.kind, q.key = r.key, q.body = r.body,
           q.answer = r.answer, q.at = r.at
    PROVE  Fresh(q)' /\ Told(q)'
<1>1. Shape(r) /\ Fresh(r) /\ Told(r)
  BY DEF Consistent, Serial
<1>2. Told(q)'
  BY <1>1, ToldStays
<1>3. Fresh(q)'
  BY <1>1 DEF Fresh, database
<1> QED
  BY <1>2, <1>3

LEMMA NewSerial ==
    ASSUME NEW q, q.at = "sent", q.answer.status = "none", q.answer.list = {}
    PROVE  Fresh(q)' /\ Told(q)'
  BY DEF Fresh, Told

\* A new request, or one less.
LEMMA RequestsSerial ==
    ASSUME Consistent, Serial, Keep, "concurrent" \notin faults, UNCHANGED database,
           \A q \in requests' \ requests :
               q.at = "sent" /\ q.answer.status = "none" /\ q.answer.list = {}
    PROVE  (\A q \in requests' : Fresh(q)' /\ Told(q)') /\ Lone'
<1>1. ASSUME NEW q \in requests' PROVE Fresh(q)' /\ Told(q)'
  BY <1>1, SameSerial, NewSerial
<1>2. Lone'
  BY DEF Serial, Lone, Active
<1> QED
  BY <1>1, <1>2

LEMMA EnterSerial ==
    ASSUME Consistent, Serial, Keep, "concurrent" \notin faults,
           NEW u \in Users, NEW p \in Pages, Enter(u, p)
    PROVE  Serial'
<1>1. PICK n \in [Fetches(p) -> Unused] :
          requests' = Leaving(u) \cup
              {Request(u, n[f], f[1], f[2], Blank) : f \in DOMAIN n}
  BY DEF Enter
<1>2. UNCHANGED database
  BY DEF Enter
<1>3. ASSUME NEW q \in Leaving(u)
      PROVE  \E r \in requests :
                /\ q = IF r.user = u /\ r.scope = "here"
                       THEN [r EXCEPT !.scope = "left"] ELSE r
                /\ q.kind = r.kind /\ q.key = r.key /\ q.body = r.body
                /\ q.answer = r.answer /\ q.at = r.at
  <2>1. PICK r \in requests : q = IF r.user = u /\ r.scope = "here"
                                  THEN [r EXCEPT !.scope = "left"] ELSE r
    BY DEF Leaving
  <2>2. CASE r.user = u /\ r.scope = "here"
    <3>1. Shape(r) /\ q = [r EXCEPT !.scope = "left"]
      BY <2>1, <2>2 DEF Consistent
    <3>2. q.kind = r.kind /\ q.key = r.key /\ q.body = r.body
          /\ q.answer = r.answer /\ q.at = r.at
      BY <2>2, <3>1, WasLeft
    <3> QED
      BY <2>1, <3>2
  <2> QED
    BY <2>1, <2>2
<1>4. ASSUME NEW q \in requests', q \notin Leaving(u)
      PROVE  q.at = "sent" /\ q.answer.status = "none" /\ q.answer.list = {}
  BY <1>1, <1>4 DEF Request, NoAnswer
<1>5. ASSUME NEW q \in requests' PROVE Fresh(q)' /\ Told(q)'
  BY <1>2, <1>3, <1>4, SameSerial, NewSerial
<1>6. Lone'
  <2> SUFFICES ASSUME NEW q1 \in requests', NEW q2 \in requests',
                      q1.at \in Active, q2.at \in Active
               PROVE  q1 = q2
    BY DEF Lone
  <2>1. q1 \in Leaving(u) /\ q2 \in Leaving(u)
    BY <1>4 DEF Active
  <2>2. PICK r1 \in requests : /\ q1.at = r1.at
                               /\ q1 = IF r1.user = u /\ r1.scope = "here"
                                       THEN [r1 EXCEPT !.scope = "left"] ELSE r1
    BY <1>3, <2>1
  <2>3. PICK r2 \in requests : /\ q2.at = r2.at
                               /\ q2 = IF r2.user = u /\ r2.scope = "here"
                                       THEN [r2 EXCEPT !.scope = "left"] ELSE r2
    BY <1>3, <2>1
  <2>4. r1 = r2
    BY <2>2, <2>3 DEF Serial, Lone
  <2> QED
    BY <2>2, <2>3, <2>4
<1>7. ASSUME NEW v \in Users PROVE Shown(v)'
  <2>1. CASE v = u
    <3>1. object'[u] = Blank /\ list'[u] = None
      BY DEF Enter, Consistent, Types
    <3> QED
      BY <2>1, <3>1 DEF Shown
  <2>2. CASE v # u
    <3>1. page'[v] = page[v] /\ object'[v] = object[v] /\ list'[v] = list[v]
      BY <2>2 DEF Enter, Consistent, Types
    <3>2. Shown(v)
      BY DEF Serial
    <3> QED
      BY <3>1, <3>2, ShownStays
  <2> QED
    BY <2>1, <2>2
<1> QED
  BY <1>5, <1>6, <1>7 DEF Serial

LEMMA UserStepSerial ==
    ASSUME Consistent, Serial, Keep, "concurrent" \notin faults,
           NEW u \in Users, UserStep(u)
    PROVE  Serial'
<1>1. CASE Arrive(u)
  <2>1. target[u] \in Pages
    BY <1>1 DEF Arrive, Consistent, Types
  <2> QED
    BY <1>1, <2>1, EnterSerial DEF Arrive
<1>2. ASSUME NEW p \in Pages, Click(u, p) PROVE Serial'
  BY <1>2, EnterSerial DEF Click
<1>3. ASSUME database' = database, page' = page, list' = list,
             \A q \in requests' \ requests :
                 q.at = "sent" /\ q.answer.status = "none" /\ q.answer.list = {},
             \A v \in Users : object'[v] = object[v] \/ page[v].state \in FormStates
      PROVE  Serial'
  <2>1. (\A q \in requests' : Fresh(q)' /\ Told(q)') /\ Lone'
    BY <1>3, RequestsSerial
  <2>2. ASSUME NEW v \in Users PROVE Shown(v)'
    <3>1. Shown(v) /\ page'[v] = page[v] /\ list'[v] = list[v]
      BY <1>3 DEF Serial
    <3>2. CASE object'[v] = object[v]
      BY <3>1, <3>2, ShownStays
    <3>3. CASE object'[v] # object[v]
      <4>1. page[v].state \in FormStates
        BY <1>3, <3>3
      <4>2. list[v] = None
        BY <4>1 DEF FormStates, Consistent, PageShape
      <4> QED
        BY <3>1, <4>1, <4>2 DEF FormStates, Shown
    <3> QED
      BY <3>2, <3>3
  <2> QED
    BY <2>1, <2>2 DEF Serial
<1>4. CASE Stay(u)
  <2>1. /\ database' = database /\ page' = page /\ list' = list
        /\ object' = object /\ requests' = requests
    BY <1>4 DEF Stay
  <2> QED
    BY <1>3, <2>1
<1>5. ASSUME NEW o \in Objects, Submit(u, o) PROVE Serial'
  <2>1. ASSUME NEW q \in requests' \ requests
        PROVE  q.at = "sent" /\ q.answer.status = "none" /\ q.answer.list = {}
    <3> DEFINE kind == IF page[u].state = "editCase" THEN "put" ELSE "post"
    <3>1. PICK n \in Numbers : q = Request(u, n, kind, o.key, o)
      BY <1>5, <2>1 DEF Submit, Unused
    <3>2. kind \in {"post", "put"} /\ kind \in Kinds /\ o.key \in Keys
      BY DEF Kinds, Objects
    <3> HIDE DEF kind
    <3> QED
      BY <3>1, <3>2, NewRequest
  <2>2. \A v \in Users : object'[v] = object[v] \/ page[v].state \in FormStates
    BY <1>5 DEF Submit, Consistent, Types
  <2>3. database' = database /\ page' = page /\ list' = list
    BY <1>5 DEF Submit
  <2> QED
    BY <1>3, <2>1, <2>2, <2>3
<1>6. ASSUME NEW k \in CaseKeys, DeleteCase(u, k) PROVE Serial'
  <2>1. ASSUME NEW q \in requests' \ requests
        PROVE  q.at = "sent" /\ q.answer.status = "none" /\ q.answer.list = {}
    <3>1. PICK n \in Numbers : q = Request(u, n, "delete", k, Blank)
      BY <1>6, <2>1 DEF DeleteCase, Unused
    <3>2. "delete" \in Kinds /\ k \in Keys /\ Blank \in Objects \cup {Blank}
      BY DEF Kinds, Keys
    <3> QED
      BY <3>1, <3>2, NewRequest
  <2>2. /\ database' = database /\ page' = page /\ list' = list
        /\ object' = object
    BY <1>6 DEF DeleteCase, browser
  <2> QED
    BY <1>3, <2>1, <2>2
<1> QED
  BY <1>1, <1>2, <1>4, <1>5, <1>6 DEF UserStep

LEMMA ReceiveSerial ==
    ASSUME Consistent, Serial, Keep, "concurrent" \notin faults,
           NEW r \in requests, Receive(r)
    PROVE  Serial'
<1>1. Types /\ Shape(r) /\ Linked(r) /\ Told(r)
  BY DEF Consistent, Serial
<1>2. ASSUME NEW u \in Users, page'[u] = page[u], object'[u] = object[u],
             list'[u] = list[u]
      PROVE  Shown(u)'
  BY <1>2, ShownStays DEF Serial
<1>3. ASSUME database' = database, requests' = requests \ {r}
      PROVE  (\A q \in requests' : Fresh(q)' /\ Told(q)') /\ Lone'
  BY <1>3, RequestsSerial
<1>4. CASE ReceiveNothing(r)
  <2>1. /\ database' = database /\ requests' = requests \ {r}
        /\ page' = page /\ object' = object /\ list' = list
    BY <1>4 DEF ReceiveNothing, browser
  <2> QED
    BY <1>2, <1>3, <2>1 DEF Serial
<1>5. CASE ReceiveObject(r)
  <2>1. /\ database' = database /\ requests' = requests \ {r}
        /\ page' = page /\ list' = list
    BY <1>5 DEF ReceiveObject
  <2>2. /\ r.user \in Users /\ page[r.user].key = r.key
        /\ object' = [object EXCEPT ![r.user] = Stored(r.key)]
    BY <1>1, <1>5 DEF ReceiveObject, Shape, Linked, Told
  <2>3. ASSUME NEW u \in Users PROVE Shown(u)'
    <3>1. CASE u = r.user
      <4>1. Shown(u) /\ object'[u] = Stored(r.key) /\ page'[u].key = r.key
        BY <1>1, <2>1, <2>2, <3>1 DEF Types, Serial
      <4>2. UNCHANGED entry /\ Readable' = Readable /\ Stored(r.key)' = Stored(r.key)
        BY <2>1 DEF database, Readable, Stored
      <4> QED
        BY <2>1, <4>1, <4>2 DEF Shown
    <3>2. CASE u # r.user
      BY <1>1, <1>2, <2>1, <2>2, <3>2 DEF Types
    <3> QED
      BY <3>1, <3>2
  <2> QED
    BY <1>3, <2>1, <2>3 DEF Serial
<1>6. CASE ReceiveList(r)
  <2>1. /\ database' = database /\ requests' = requests \ {r}
        /\ page' = page /\ object' = object
    BY <1>6 DEF ReceiveList
  <2>2. /\ r.user \in Users /\ r.answer.list \subseteq Readable
        /\ list' = [list EXCEPT ![r.user] = r.answer.list]
    BY <1>1, <1>6 DEF ReceiveList, Shape, Told
  <2>3. ASSUME NEW u \in Users PROVE Shown(u)'
    <3>1. CASE u = r.user
      <4>1. Shown(u) /\ list'[u] \subseteq Readable
        BY <1>1, <2>1, <2>2, <3>1 DEF Types, Serial
      <4>2. UNCHANGED entry /\ Readable' = Readable
            /\ Stored(page[u].key)' = Stored(page[u].key)
        BY <2>1 DEF database, Readable, Stored
      <4> QED
        BY <2>1, <4>1, <4>2 DEF Shown
    <3>2. CASE u # r.user
      BY <1>1, <1>2, <2>1, <2>2, <3>2 DEF Types
    <3> QED
      BY <3>1, <3>2
  <2> QED
    BY <1>3, <2>1, <2>3 DEF Serial
<1>7. CASE ReceiveSaved(r)
  <2>1. /\ database' = database /\ requests' = requests \ {r}
        /\ page' = page /\ list' = list
    BY <1>7 DEF ReceiveSaved
  <2>2. ASSUME NEW u \in Users
        PROVE  object'[u] = object[u] \/ object'[u] = Blank
    BY <1>1, <1>7 DEF ReceiveSaved, Types
  <2>3. ASSUME NEW u \in Users PROVE Shown(u)'
    <3>1. CASE object'[u] = object[u]
      BY <1>2, <2>1, <3>1
    <3>2. CASE object'[u] = Blank
      <4>1. Shown(u) /\ UNCHANGED entry /\ Readable' = Readable
        BY <2>1 DEF Serial, database, Readable
      <4> QED
        BY <2>1, <3>2, <4>1 DEF Shown
    <3> QED
      BY <2>2, <3>1, <3>2
  <2> QED
    BY <1>3, <2>1, <2>3 DEF Serial
<1>8. CASE ReceiveDeleted(r)
  <2>1. database' = database
    BY <1>8 DEF ReceiveDeleted
  <2>2. ASSUME NEW q \in requests'
        PROVE  \E p \in requests :
                  /\ q = IF p.user = r.user THEN [p EXCEPT !.scope = "gone"] ELSE p
                  /\ q.kind = p.kind /\ q.key = p.key /\ q.body = p.body
                  /\ q.answer = p.answer /\ q.at = p.at
    <3>1. PICK p \in requests : q = IF p.user = r.user
                                    THEN [p EXCEPT !.scope = "gone"] ELSE p
      BY <1>8, <2>2 DEF ReceiveDeleted
    <3>2. CASE p.user = r.user
      <4>1. Shape(p) /\ q = [p EXCEPT !.scope = "gone"]
        BY <3>1, <3>2 DEF Consistent
      <4>2. q.kind = p.kind /\ q.key = p.key /\ q.body = p.body
            /\ q.answer = p.answer /\ q.at = p.at
        BY <4>1, WasLeft
      <4> QED
        BY <3>1, <4>2
    <3> QED
      BY <3>1, <3>2
  <2>3. ASSUME NEW q \in requests' PROVE Fresh(q)' /\ Told(q)'
    BY <2>1, <2>2, SameSerial
  <2>4. Lone'
    <3> SUFFICES ASSUME NEW q1 \in requests', NEW q2 \in requests',
                        q1.at \in Active, q2.at \in Active
                 PROVE  q1 = q2
      BY DEF Lone
    <3>1. PICK p1 \in requests : /\ q1.at = p1.at
                                 /\ q1 = IF p1.user = r.user
                                         THEN [p1 EXCEPT !.scope = "gone"] ELSE p1
      BY <2>2
    <3>2. PICK p2 \in requests : /\ q2.at = p2.at
                                 /\ q2 = IF p2.user = r.user
                                         THEN [p2 EXCEPT !.scope = "gone"] ELSE p2
      BY <2>2
    <3>3. p1 = p2
      BY <3>1, <3>2 DEF Serial, Lone
    <3> QED
      BY <3>1, <3>2, <3>3
  <2>5. ASSUME NEW v \in Users PROVE Shown(v)'
    <3>1. CASE v = r.user
      <4>1. object'[v] = Blank /\ list'[v] = None
        BY <1>1, <1>8, <3>1 DEF ReceiveDeleted, Types
      <4> QED
        BY <4>1 DEF Shown
    <3>2. CASE v # r.user
      BY <1>1, <1>2, <1>8, <3>2 DEF ReceiveDeleted, Types
    <3> QED
      BY <3>1, <3>2
  <2> QED
    BY <2>3, <2>4, <2>5 DEF Serial
<1> QED
  BY <1>4, <1>5, <1>6, <1>7, <1>8 DEF Receive

LEMMA AnsweredSerial ==
    ASSUME Consistent, Serial, Keep, "concurrent" \notin faults,
           UNCHANGED browser, faults' = faults, folders' = folders,
           NEW r \in requests, NEW a \in Answers, Fits(r, a),
           entry' = entry \/ r.at \in Active,
           requests' = Answered(r, a),
           NEW q, q = Respond(r, a), Told(q)'
    PROVE  Serial'
<1>1. /\ Shape(r)
      /\ q.at = "answered" /\ q.key = r.key /\ q.kind = r.kind /\ q.answer = a
  BY WasAnswered DEF Consistent
<1>2. requests' = (requests \ {r}) \cup {q}
  BY DEF Answered, Moved, Respond
<1>3. ASSUME NEW p \in requests \ {r} PROVE Fresh(p)' /\ Told(p)'
  <2>1. Shape(p) /\ Fresh(p) /\ Told(p)
    BY DEF Consistent, Serial
  <2>2. Told(p)'
    BY <2>1, ToldStays
  <2>3. p.at \in Active => entry' = entry
    BY DEF Serial, Lone
  <2>4. Fresh(p)'
    BY <2>1, <2>3 DEF Fresh, Active
  <2> QED
    BY <2>2, <2>4
<1>4. Fresh(q)'
  BY <1>1 DEF Fresh
<1>5. Lone'
  BY <1>1, <1>2 DEF Serial, Lone, Active
<1>6. ASSUME NEW u \in Users PROVE Shown(u)'
  BY ShownStays DEF Serial, browser
<1> QED
  BY <1>2, <1>3, <1>4, <1>5, <1>6 DEF Serial

LEMMA MovedSerial ==
    ASSUME Consistent, Serial, Keep, "concurrent" \notin faults,
           UNCHANGED browser, faults' = faults, entry' = entry,
           NEW r \in requests, r.kind = "post", NEW a \in Active,
           \A p \in requests \ {r} : p.at \notin Active,
           a = "create" => r.key \notin folders',
           a = "write" => entry[r.key] = Missing,
           requests' = Moved(r, [r EXCEPT !.at = a])
    PROVE  Serial'
<1>1. PICK q : q = [r EXCEPT !.at = a]
  OBVIOUS
<1>2. /\ Shape(r) /\ Told(r) /\ q.at = a /\ q.key = r.key /\ q.kind = r.kind
      /\ q.body = r.body /\ q.answer = r.answer
  BY <1>1, MovedOn DEF Consistent, Serial, Active
<1>3. requests' = (requests \ {r}) \cup {q}
  BY <1>1 DEF Moved
<1>4. ASSUME NEW p \in requests \ {r} PROVE Fresh(p)' /\ Told(p)'
  <2>1. Shape(p) /\ Told(p)
    BY DEF Consistent, Serial
  <2>2. Told(p)'
    BY <2>1, ToldStays
  <2>3. Fresh(p)'
    BY DEF Fresh, Active
  <2> QED
    BY <2>2, <2>3
<1>5. Told(q)'
  BY <1>2, ToldStays
<1>6. Fresh(q)'
  BY <1>2 DEF Fresh
<1>7. Lone'
  BY <1>3 DEF Lone
<1>8. ASSUME NEW u \in Users PROVE Shown(u)'
  BY ShownStays DEF Serial, browser
<1> QED
  BY <1>3, <1>4, <1>5, <1>6, <1>7, <1>8 DEF Serial

LEMMA ServerStepSerial ==
    ASSUME Consistent, Serial, Keep, "concurrent" \notin faults,
           NEW r \in requests, ServerStep(r)
    PROVE  Serial'
<1>1. Types /\ Shape(r) /\ Fresh(r) /\ Told(r)
  BY DEF Consistent, Serial
<1>2. UNCHANGED browser /\ faults' = faults
  BY DEF ServerStep, CheckDuplicate, MakeDirectory, WriteEntry, WriteFails,
         Get, Query, NotImplemented, database
<1>3. r.at \in Active => \A p \in requests \ {r} : p.at \notin Active
  BY DEF Serial, Lone
<1>4. ASSUME NEW status \in Statuses, requests' = Answered(r, Answer(status)),
             folders' = folders, entry' = entry \/ r.at \in Active,
             r.kind = "get" => status # "ok",
             r.kind = "post" /\ status = "Success" => Stored(r.key)' = r.body
      PROVE  Serial'
  <2>1. PICK a : a = Answer(status)
    OBVIOUS
  <2>2. /\ a \in Answers /\ a.status = status /\ a.list = {}
        /\ Fits(r, a) /\ requests' = Answered(r, a)
    BY <1>4, <2>1, AnswerTypes DEF Fits
  <2>3. PICK q : q = Respond(r, a)
    OBVIOUS
  <2>4. /\ q.kind = r.kind /\ q.key = r.key /\ q.body = r.body /\ q.answer = a
    BY <1>1, <2>2, <2>3, WasAnswered
  <2>5. Told(q)'
    BY <1>4, <2>2, <2>4 DEF Told
  <2> QED
    BY <1>2, <1>4, <2>2, <2>3, <2>5, AnsweredSerial
<1>5. CASE CheckDuplicate(r)
  <2>1. \A p \in requests \ {r} : p.at \notin Active
    BY <1>5 DEF CheckDuplicate, MayRun, Active
  <2>2. folders' = folders /\ entry' = entry /\ r.kind = "post"
    BY <1>5 DEF CheckDuplicate, database
  <2>3. CASE requests' = Moved(r, [r EXCEPT !.at = "create"]) /\ r.key \notin folders
    BY <1>2, <2>1, <2>2, <2>3, MovedSerial DEF Active
  <2>4. CASE requests' = Answered(r, Answer("Failed"))
    BY <1>4, <2>2, <2>4 DEF Statuses
  <2> QED
    BY <1>5, <2>3, <2>4 DEF CheckDuplicate
<1>6. CASE MakeDirectory(r)
  <2>1. /\ r.at = "create" /\ r.kind = "post" /\ entry' = entry
        /\ requests' = Moved(r, [r EXCEPT !.at = "write"])
    BY <1>1, <1>6 DEF MakeDirectory, Shape, Active
  <2>2. r.key \in Keys /\ r.key \notin folders
    BY <1>1, <2>1 DEF Shape, Fresh
  <2>3. entry[r.key] = Missing
    BY <1>1, <2>2 DEF Types, Readable
  <2> QED
    BY <1>2, <1>3, <2>1, <2>3, MovedSerial DEF Active
<1>7. CASE WriteEntry(r)
  <2>1. /\ r.at \in Active /\ folders' = folders
        /\ requests' = Answered(r, Answer("Success"))
        /\ entry' = [entry EXCEPT ![r.key] = r.body.name]
    BY <1>7 DEF WriteEntry, Active
  <2>2. r.kind = "post" /\ r.key \in Keys /\ r.body \in Objects /\ r.body.key = r.key
    BY <1>1, <2>1 DEF Shape
  <2>3. Stored(r.key)' = r.body
    BY <1>1, <2>1, <2>2 DEF Types, Stored, Objects
  <2> QED
    BY <1>4, <2>1, <2>2, <2>3 DEF Statuses
<1>8. CASE WriteFails(r)
  <2>1. /\ r.at \in Active /\ folders' = folders
        /\ requests' = Answered(r, Answer("Failed"))
    BY <1>8 DEF WriteFails, Active
  <2> QED
    BY <1>4, <2>1 DEF Statuses
<1>9. CASE Get(r)
  <2>1. r.kind = "get" /\ folders' = folders /\ entry' = entry
    BY <1>9 DEF Get, database
  <2>2. CASE r.key \notin Readable
    BY <1>4, <1>9, <2>1, <2>2 DEF Get, Statuses
  <2>3. CASE r.key \in Readable
    <3>1. PICK a : a = [Answer("ok") EXCEPT !.object = Stored(r.key)]
      OBVIOUS
    <3>2. /\ a \in Answers /\ a.object = Stored(r.key) /\ a.list = {}
          /\ requests' = Answered(r, a) /\ Fits(r, a)
      BY <1>1, <1>9, <2>1, <2>3, <3>1, ObjectAnswer DEF Get, Fits
    <3>3. PICK q : q = Respond(r, a)
      OBVIOUS
    <3>4. q.kind = r.kind /\ q.key = r.key /\ q.answer = a
      BY <1>1, <3>2, <3>3, WasAnswered
    <3>5. r.key \in Readable' /\ Stored(r.key)' = Stored(r.key)
      BY <2>1, <2>3 DEF Readable, Stored
    <3>6. Told(q)'
      BY <2>1, <3>2, <3>4, <3>5 DEF Told
    <3> QED
      BY <1>2, <2>1, <3>2, <3>3, <3>6, AnsweredSerial
  <2> QED
    BY <2>2, <2>3
<1>10. CASE Query(r)
  <2>1. r.kind = "query" /\ folders' = folders /\ entry' = entry
    BY <1>10 DEF Query, database
  <2>2. PICK l : l = {k \in Readable : Parent(k) = r.key}
    OBVIOUS
  <2>3. PICK a : a = [Answer("ok") EXCEPT !.list = l]
    OBVIOUS
  <2>4. l \in SUBSET Keys /\ l \subseteq Readable /\ \A k \in l : Parent(k) = r.key
    BY <2>2 DEF Readable
  <2>5. a \in Answers /\ a.list = l
    BY <2>3, <2>4, ListAnswer
  <2>6. requests' = Answered(r, a) /\ Fits(r, a)
    BY <1>10, <2>2, <2>3, <2>4, <2>5 DEF Query, Fits
  <2>7. PICK q : q = Respond(r, a)
    OBVIOUS
  <2>8. q.kind = r.kind /\ q.answer = a
    BY <1>1, <2>5, <2>6, <2>7, WasAnswered
  <2>9. Readable' = Readable
    BY <2>1 DEF Readable
  <2>10. Told(q)'
    BY <2>1, <2>4, <2>5, <2>8, <2>9 DEF Told
  <2> QED
    BY <1>2, <2>1, <2>5, <2>6, <2>7, <2>10, AnsweredSerial
<1>11. CASE NotImplemented(r)
  <2>1. /\ r.kind \in {"put", "delete"} /\ folders' = folders /\ entry' = entry
        /\ requests' = Answered(r, Answer("Success"))
    BY <1>11 DEF NotImplemented, database
  <2> QED
    BY <1>4, <2>1 DEF Statuses
<1> QED
  BY <1>5, <1>6, <1>7, <1>8, <1>9, <1>10, <1>11 DEF ServerStep

LEMMA OtherPostSerial ==
    ASSUME Consistent, Serial, Keep, "concurrent" \notin faults,
           NEW o \in Objects, OtherPost(o)
    PROVE  Serial'
<1>1. /\ database' = database /\ page' = page /\ object' = object /\ list' = list
  BY DEF OtherPost, browser
<1>2. ASSUME NEW q \in requests' \ requests
      PROVE  q.at = "sent" /\ q.answer.status = "none" /\ q.answer.list = {}
  BY <1>2 DEF OtherPost, Request, NoAnswer
<1>3. (\A q \in requests' : Fresh(q)' /\ Told(q)') /\ Lone'
  BY <1>1, <1>2, RequestsSerial
<1>4. ASSUME NEW u \in Users PROVE Shown(u)'
  BY <1>1, ShownStays DEF Serial
<1> QED
  BY <1>3, <1>4 DEF Serial

LEMMA CrashSerial ==
    ASSUME Consistent, Serial, Keep, "concurrent" \notin faults, Crash
    PROVE  Serial'
<1>1. /\ database' = database /\ page' = page /\ object' = object /\ list' = list
  BY DEF Crash, browser
<1>2. ASSUME NEW q \in requests'
      PROVE  q.at = "answered" /\ Fresh(q)' /\ Told(q)'
  <2>1. PICK r \in requests :
           q = IF r.at = "answered" THEN r ELSE Respond(r, Answer("Error"))
    BY <1>2 DEF Crash, Respond
  <2>2. CASE r.at = "answered"
    BY <1>1, <2>1, <2>2, SameSerial
  <2>3. CASE r.at # "answered"
    <3>1. PICK a : a = Answer("Error")
      OBVIOUS
    <3>2. a \in Answers /\ a.status = "Error" /\ a.list = {} /\ Fits(r, a)
      BY <3>1, AnswerTypes DEF Statuses, Fits
    <3>3. Shape(r) /\ q = Respond(r, a)
      BY <2>1, <2>3, <3>1 DEF Consistent
    <3>4. q.at = "answered" /\ q.answer = a
      BY <3>2, <3>3, WasAnswered
    <3> QED
      BY <3>2, <3>4 DEF Fresh, Told
  <2> QED
    BY <2>2, <2>3
<1>3. Lone'
  BY <1>2 DEF Lone, Active
<1>4. ASSUME NEW u \in Users PROVE Shown(u)'
  BY <1>1, ShownStays DEF Serial
<1> QED
  BY <1>2, <1>3, <1>4 DEF Serial

LEMMA NextSerial == Consistent /\ Serial /\ [Next]_vars => Serial'
<1> SUFFICES ASSUME Consistent, Serial, [Next]_vars PROVE Serial'
  OBVIOUS
<1>1. faults' = faults
  BY DEF Next, vars, database, UserStep, Arrive, Click, Enter, Stay, Submit,
         DeleteCase, ServerStep, CheckDuplicate, MakeDirectory, WriteEntry,
         WriteFails, Get, Query, NotImplemented, Receive, ReceiveNothing,
         ReceiveObject, ReceiveList, ReceiveSaved, ReceiveDeleted, OtherPost, Crash
<1>2. CASE "concurrent" \in faults
  BY <1>1, <1>2 DEF Serial
<1>3. CASE "concurrent" \notin faults
  <2>1. Keep
    BY <1>3, KeepEntries
  <2>2. CASE UNCHANGED vars
    BY <2>2 DEF vars, database, browser, Serial, Lone, Fresh, Told, Shown,
                Readable, Stored
  <2>3. CASE Next
    BY <1>3, <2>1, <2>3, UserStepSerial, ServerStepSerial, ReceiveSerial,
       OtherPostSerial, CrashSerial DEF Next
  <2> QED
    BY <2>2, <2>3
<1> QED
  BY <1>2, <1>3

LEMMA AlwaysSerial == Spec => [](Consistent /\ Serial)
<1>1. Consistent /\ Serial /\ [Next]_vars => (Consistent /\ Serial)'
  BY NextConsistent, NextSerial
<1> QED
  BY <1>1, InitConsistent, InitSerial, PTL DEF Spec

(***************************************************************************)
(* A case or computer for which "Success" is on its way back is stored     *)
(* with the name that was given, when requests are handled one at a time:  *)
(* whatever fails, crashes or is asked for in between.                     *)
(***************************************************************************)
THEOREM SuccessMeansStored == Spec => []SuccessIsStored
<1>1. Serial => SuccessIsStored
  BY DEF Serial, Told, SuccessIsStored
<1> QED
  BY <1>1, AlwaysSerial, PTL

(***************************************************************************)
(* When requests are handled one at a time, what a page shows is stored    *)
(* under the address it is shown at, whatever is answered late.            *)
(***************************************************************************)
THEOREM ShownMeansStored == Spec => []ShownIsStored
<1>1. Consistent /\ Serial => ShownIsStored
  BY DEF Consistent, PageShape, Serial, Shown, ShownIsStored
<1> QED
  BY <1>1, AlwaysSerial, PTL

(***************************************************************************)
(* When requests are handled one at a time, no step replaces or empties    *)
(* the entry of a stored case or computer.                                 *)
(***************************************************************************)
THEOREM StoredEntriesStay == Spec => EntriesStay
<1>1. Consistent /\ Serial /\ [Next]_vars
          => [\/ "concurrent" \in faults
              \/ \A k \in Readable : entry'[k] = entry[k]]_vars
  BY KeepEntries DEF Keep
<1> QED
  BY <1>1, AlwaysSerial, PTL DEF Spec, EntriesStay

=============================================================================
