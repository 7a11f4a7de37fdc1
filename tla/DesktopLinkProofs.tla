--------------------------- MODULE DesktopLinkProofs ---------------------------
(***************************************************************************)
(* The promise of the desktop link API for every number of users, devices, *)
(* records and requests in progress, and all clocks: proofs for            *)
(* DesktopLink.  At the end, the page that links a desktop: proofs for     *)
(* DesktopLinkPanel.                                                       *)
(*                                                                         *)
(* The inductive invariant ties what a request carries to the table: a row *)
(* that was read stays true of the record except that an issued one may    *)
(* since have been decided, and only the request that minted an id inserts *)
(* it.  For the page, an answer that is awaited concerns the record of the *)
(* panel, and what it says of that record stays so until it is shown.      *)
(***************************************************************************)
EXTENDS DesktopLink, DesktopLinkOutcome, TLAPS

Ops == {"inspect", "revoke", "consume"}

\* What a request carries agrees with the table.
Remembers(row, now) ==
  /\ now # None /\ now.who = row.who
  /\ row.status # "issued" => now = row

Fits(k, rows) ==
  /\ k.at = "authorize" =>
       /\ k.who \in Principals /\ k.ttl \in Nat
       /\ k.op # "issue" => k.op \in Ops /\ k.record \in Records
  /\ k.at = "mint" => k.who \in Principals /\ k.ttl \in Nat
  /\ k.at = "insert" =>
       k.record \in Records /\ k.row \in Rows /\ k.row.status = "issued" /\ rows[k.record] = None
  /\ k.at = "get" => k.who \in Principals /\ k.op \in Ops /\ k.record \in Records
  /\ k.at = "decide" =>
       /\ k.who \in Principals /\ k.op \in Ops /\ k.record \in Records
       /\ k.row \in Rows \union {None}
       /\ k.row # None => Remembers(k.row, rows[k.record])
  /\ k.at = "write" =>
       /\ k.who \in Principals /\ k.record \in Records /\ k.now \in Times
       /\ rows[k.record] # None
       /\ k.op = "consume" => k.who = rows[k.record].who

CallsFit == \A c \in Calls : Fits(call[c], table)

\* No two requests insert the same record.
Alone(c, k) == k.at = "insert" => \A d \in Calls \ {c} : call[d].at = "insert" => call[d].record # k.record
FreshIds == \A c \in Calls : Alone(c, call[c])

IInv == TypeOK /\ AnswersAgree /\ CallsFit /\ FreshIds
-------------------------------------------------------------------------------
LEMMA InitIInv == Init => IInv
  <1> SUFFICES ASSUME Init PROVE IInv
    OBVIOUS
  <1> USE BoundsAssumption DEF Init
  <1>1. TypeOK
    BY DEF TypeOK, Memberships
  <1>2. AnswersAgree
    BY DEF AnswersAgree
  <1>3. CallsFit /\ FreshIds
    BY DEF CallsFit, FreshIds, Fits, Alone, NoCall
  <1> QED
    BY <1>1, <1>2, <1>3 DEF IInv

LEMMA IdleFits == \A rows : Fits(NoCall, rows)
  BY DEF Fits, NoCall

\* A step that only changes what one request carries.
LEMMA ProceedPreserves ==
  ASSUME IInv, NEW c \in Calls, NEW k, Proceed(c, k), Fits(k, table), Alone(c, k)
  PROVE  IInv'
  <1> USE DEF IInv, Proceed, Become
  <1>1. call'[c] = k /\ (\A d \in Calls \ {c} : call'[d] = call[d]) /\ DOMAIN call' = Calls
    BY DEF TypeOK
  <1>2. TypeOK'
    BY <1>1 DEF TypeOK
  <1>3. AnswersAgree'
    BY DEF AnswersAgree
  <1>4. CallsFit'
    <2>1. table' = table
      OBVIOUS
    <2>2. \A d \in Calls : Fits(call'[d], table)
      BY <1>1 DEF CallsFit
    <2> QED
      BY <2>1, <2>2 DEF CallsFit
  <1>5. FreshIds'
    BY <1>1 DEF FreshIds, Alone
  <1> QED
    BY <1>2, <1>3, <1>4, <1>5

\* A request ends with an answer that is true of the record, and stays true.
TrueOf(answer, row) ==
  /\ row # None /\ answer \in {"issued", "expired", "consumed", "revoked"}
  /\ answer \in {"consumed", "revoked"} => row.status = answer

LEMMA TellPreserves ==
  ASSUME IInv, NEW c \in Calls, NEW r \in Records, NEW answer, Tell(c, r, answer),
         UNCHANGED <<table, members, time, links>>, TrueOf(answer, table[r])
  PROVE  IInv'
  <1>1. PICK answered \in BOOLEAN : Answer(c, r, answer, answered)
    BY DEF Tell
  <1> USE <1>1 DEF IInv, Answer, Return, Become
  <1>2. call'[c] = NoCall /\ (\A d \in Calls \ {c} : call'[d] = call[d]) /\ DOMAIN call' = Calls
    BY DEF TypeOK
  <1>3. \A s \in Records : told'[s] = told[s] \/ (s = r /\ told'[s] = told[s] \union {answer})
    BY DEF TypeOK
  <1>4. TypeOK'
    <2>1. told' \in [Records -> SUBSET {"issued", "expired", "consumed", "revoked"}]
      BY DEF TypeOK, TrueOf
    <2> QED
      BY <1>2, <2>1 DEF TypeOK
  <1>5. AnswersAgree'
    BY <1>3 DEF AnswersAgree, TrueOf
  <1>6. CallsFit'
    <2>1. table' = table
      OBVIOUS
    <2>2. \A d \in Calls : Fits(call'[d], table)
      BY <1>2, IdleFits DEF CallsFit
    <2> QED
      BY <2>1, <2>2 DEF CallsFit
  <1>7. FreshIds'
    BY <1>2 DEF FreshIds, Alone, NoCall
  <1> QED
    BY <1>4, <1>5, <1>6, <1>7

\* What a request remembers survives a step that inserts a record it does not
\* insert, or decides one that is issued.
LEMMA FitsSurvives ==
  ASSUME NEW k, NEW rows, NEW r \in Records, NEW row,
         rows \in [Records -> Rows \union {None}], Fits(k, rows), row # None,
         k.at = "insert" => k.record # r,
         rows[r] = None \/ (rows[r].status = "issued" /\ row.who = rows[r].who)
  PROVE  Fits(k, [rows EXCEPT ![r] = row])
  <1> DEFINE after == [rows EXCEPT ![r] = row]
  <1>1. after[r] = row /\ (\A s \in Records \ {r} : after[s] = rows[s])
    OBVIOUS
  <1> HIDE DEF after
  <1>2. k.at = "authorize" \/ k.at = "mint" \/ k.at = "get" => Fits(k, after)
    BY DEF Fits
  <1>3. k.at = "insert" => Fits(k, after)
    BY <1>1 DEF Fits
  <1>4. k.at = "decide" => Fits(k, after)
    <2> SUFFICES ASSUME k.at = "decide", k.row # None PROVE Remembers(k.row, after[k.record])
      BY DEF Fits
    <2>1. Remembers(k.row, rows[k.record]) /\ k.record \in Records /\ k.row \in Rows
      BY DEF Fits
    <2>2. CASE k.record # r
      BY <1>1, <2>1, <2>2
    <2>3. CASE k.record = r
      <3>1. rows[r] # None /\ rows[r].status = "issued" /\ row.who = rows[r].who
        BY <2>1, <2>3 DEF Remembers
      <3>2. k.row.status = "issued"
        BY <2>1, <2>3, <3>1 DEF Remembers
      <3> QED
        BY <1>1, <2>1, <2>3, <3>1, <3>2 DEF Remembers
    <2> QED
      BY <2>2, <2>3
  <1>5. k.at = "write" => Fits(k, after)
    BY <1>1 DEF Fits
  <1>6. k.at \notin {"authorize", "mint", "get", "insert", "decide", "write"} => Fits(k, after)
    BY DEF Fits
  <1>7. Fits(k, after)
    BY <1>2, <1>3, <1>4, <1>5, <1>6
  <1> QED
    BY <1>7 DEF after

\* A step that writes a row and ends the request with an answer that is true of it.
LEMMA WritePreserves ==
  ASSUME IInv, NEW c \in Calls, NEW r \in Records, NEW row \in Rows, NEW answer, NEW answered \in BOOLEAN,
         Update(r, row), Answer(c, r, answer, answered), UNCHANGED <<members, time>>,
         \A d \in Calls \ {c} : call[d].at = "insert" => call[d].record # r,
         table[r] = None \/ (table[r].status = "issued" /\ row.who = table[r].who),
         TrueOf(answer, row),
         \/ links' = links
         \/ /\ row.status = "consumed"
            /\ \E p \in Principals : links' = [links EXCEPT ![r] = Append(@, p)]
  PROVE  IInv'
  <1> USE DEF IInv
  <1>1. call'[c] = NoCall /\ (\A d \in Calls \ {c} : call'[d] = call[d]) /\ DOMAIN call' = Calls
    BY DEF TypeOK, Answer, Return, Become
  <1>2. row # None /\ table'[r] = row /\ (\A s \in Records \ {r} : table'[s] = table[s])
    BY NoneIsNoValue DEF TypeOK, Update
  <1>3. \A s \in Records : told'[s] = told[s] \/ (s = r /\ told'[s] = told[s] \union {answer})
    BY DEF TypeOK, Answer
  <1>4. TypeOK'
    <2>1. told' \in [Records -> SUBSET {"issued", "expired", "consumed", "revoked"}]
      BY DEF TypeOK, TrueOf, Answer
    <2>2. table' \in [Records -> Rows \union {None}]
      BY DEF TypeOK, Update
    <2>3. links' \in [Records -> Seq(Principals)]
      <3>1. CASE links' = links
        BY <3>1 DEF TypeOK
      <3>2. ASSUME NEW p \in Principals, links' = [links EXCEPT ![r] = Append(@, p)]
            PROVE  links' \in [Records -> Seq(Principals)]
        BY <3>2 DEF TypeOK
      <3> QED
        BY <3>1, <3>2
    <2> QED
      BY <1>1, <2>1, <2>2, <2>3 DEF TypeOK
  <1>5. AnswersAgree'
    <2> SUFFICES ASSUME NEW s \in Records
                 PROVE  /\ told'[s] # {} \/ links'[s] # <<>> => table'[s] # None
                        /\ \A final \in {"consumed", "revoked"} : final \in told'[s] => table'[s].status = final
                        /\ links'[s] # <<>> => table'[s].status = "consumed"
      BY DEF AnswersAgree
    <2>1. CASE s # r
      <3>1. told'[s] = told[s] /\ links'[s] = links[s] /\ table'[s] = table[s]
        BY <1>2, <1>3, <2>1 DEF TypeOK
      <3> QED
        BY <3>1 DEF AnswersAgree
    <2>2. CASE s = r
      <3>1. \A final \in {"consumed", "revoked"} : final \notin told[r]
        BY DEF AnswersAgree
      <3>2. links[r] = <<>>
        BY DEF AnswersAgree
      <3> QED
        BY <1>2, <1>3, <2>2, <3>1, <3>2 DEF TrueOf
    <2> QED
      BY <2>1, <2>2
  <1>6. CallsFit'
    <2>1. \A d \in Calls \ {c} : Fits(call[d], table')
      BY FitsSurvives, <1>2 DEF CallsFit, TypeOK, Update
    <2> QED
      BY <1>1, <2>1, IdleFits DEF CallsFit
  <1>7. FreshIds'
    BY <1>1 DEF FreshIds, Alone, NoCall
  <1> QED
    BY <1>4, <1>5, <1>6, <1>7

-------------------------------------------------------------------------------
LEMMA StepPreserves ==
  ASSUME IInv, NEW c \in Calls, NEW k, Proceed(c, k), Fits(k, table), k.at # "insert"
  PROVE  IInv'
  BY ProceedPreserves DEF Alone

LEMMA RefusePreserves == ASSUME IInv, NEW c \in Calls, Refuse(c) PROVE IInv'
  BY StepPreserves, IdleFits DEF Refuse, NoCall

LEMMA RequestPreserves == ASSUME IInv, NEW c \in Calls, Request(c) PROVE IInv'
  <1>1. PICK who \in Principals :
          \/ \E ttl \in 0 .. MaxTtl + 1 : Proceed(c, Requested("issue", who, None, None, ttl))
          \/ \E op \in {"inspect", "revoke"}, r \in Records : Proceed(c, Requested(op, who, r, None, 0))
          \/ \E r \in Records, token \in Records \union {None} :
               Proceed(c, Requested("consume", who, r, token, 0))
    BY DEF Request
  <1>2. ASSUME NEW ttl \in 0 .. MaxTtl + 1, Proceed(c, Requested("issue", who, None, None, ttl))
        PROVE  IInv'
    <2>1. ttl \in Nat
      BY TtlAssumption
    <2>2. Fits(Requested("issue", who, None, None, ttl), table)
      BY <2>1 DEF Fits, Requested
    <2> QED
      BY <1>2, <2>2, StepPreserves DEF Requested
  <1>3. ASSUME NEW op \in Ops, NEW r \in Records, NEW token, Proceed(c, Requested(op, who, r, token, 0))
        PROVE  IInv'
    <2>1. Fits(Requested(op, who, r, token, 0), table)
      BY DEF Fits, Requested
    <2> QED
      BY <1>3, <2>1, StepPreserves DEF Requested
  <1> QED
    BY <1>1, <1>2, <1>3 DEF Ops

LEMMA AuthorizePreserves == ASSUME IInv, NEW c \in Calls, Authorize(c) PROVE IInv'
  <1>1. Fits(call[c], table) /\ call[c].at = "authorize"
    BY DEF IInv, CallsFit, Authorize
  <1>2. Fits(Minting(call[c]), table)
    BY <1>1 DEF Fits, Minting
  <1>3. call[c].op # "issue" => Fits(Fetching(call[c]), table)
    BY <1>1 DEF Fits, Fetching
  <1> QED
    BY <1>2, <1>3, StepPreserves DEF Authorize, Minting, Fetching

LEMMA GetPreserves == ASSUME IInv, NEW c \in Calls, Get(c) PROVE IInv'
  <1>1. Fits(call[c], table) /\ call[c].at = "get"
    BY DEF IInv, CallsFit, Get
  <1>2. call[c].record \in Records /\ table[call[c].record] \in Rows \union {None}
    BY <1>1 DEF Fits, IInv, TypeOK
  <1>3. Fits(Deciding(call[c], table[call[c].record]), table)
    BY <1>1, <1>2 DEF Fits, Deciding, Remembers
  <1> QED
    BY <1>3, StepPreserves DEF Get, Deciding

LEMMA MintPreserves == ASSUME IInv, NEW c \in Calls, Mint(c) PROVE IInv'
  <1>1. Fits(call[c], table) /\ call[c].at = "mint"
    BY DEF IInv, CallsFit, Mint
  <1>2. CASE Refuse(c)
    BY <1>2, RefusePreserves
  <1>3. CASE ~Refuse(c)
    <2> DEFINE k == call[c]
    <2>1. PICK r \in Records, now \in Clock :
            /\ ValidTtl(k.ttl)
            /\ table[r] = None /\ (\A d \in Calls : call[d].at = "insert" => call[d].record # r)
            /\ Proceed(c, Inserting(r, Row(k.who, now, now + k.ttl, "issued", None)))
      BY <1>3 DEF Mint
    <2> DEFINE row == Row(k.who, now, now + k.ttl, "issued", None)
    <2>2. k.who \in Principals /\ k.ttl \in Nat /\ k.ttl > 0 /\ k.ttl <= MaxTtl
      BY <1>1, <2>1, TtlAssumption DEF Fits, ValidTtl
    <2>3. now \in Nat /\ now <= MaxTime + MaxSkew
      BY BoundsAssumption DEF Clock
    <2>4. now \in Times /\ now + k.ttl \in Times /\ now < now + k.ttl
      BY <2>2, <2>3, BoundsAssumption, TtlAssumption DEF Times
    <2>5. row \in Rows /\ row.status = "issued"
      BY <2>2, <2>4 DEF Rows, Row
    <2> HIDE DEF k, row
    <2>6. Fits(Inserting(r, row), table)
      BY <2>1, <2>5 DEF Fits, Inserting
    <2>7. Alone(c, Inserting(r, row))
      BY <2>1 DEF Alone, Inserting
    <2>8. Proceed(c, Inserting(r, row))
      BY <2>1 DEF row
    <2> QED
      BY <2>6, <2>7, <2>8, ProceedPreserves
  <1> QED
    BY <1>2, <1>3

LEMMA InsertPreserves == ASSUME IInv, NEW c \in Calls, Insert(c) PROVE IInv'
  <1> DEFINE k == call[c]
  <1>1. /\ k.record \in Records /\ k.row \in Rows /\ k.row.status = "issued" /\ table[k.record] = None
        /\ \A d \in Calls \ {c} : call[d].at = "insert" => call[d].record # k.record
    BY DEF IInv, CallsFit, FreshIds, Alone, Fits, Insert
  <1>2. PICK answered \in BOOLEAN :
          /\ Update(k.record, k.row) /\ Answer(c, k.record, "issued", answered)
          /\ UNCHANGED <<members, time, links>>
    BY DEF Insert, Tell, Update
  <1>3. TrueOf("issued", k.row)
    BY <1>1, NoneIsNoValue DEF TrueOf
  <1> HIDE DEF k
  <1> QED
    BY <1>1, <1>2, <1>3, WritePreserves

LEMMA InspectPreserves == ASSUME IInv, NEW c \in Calls, Inspect(c) PROVE IInv'
  <1> DEFINE k == call[c]
  <1>1. k.record \in Records /\ k.row \in Rows /\ Remembers(k.row, table[k.record])
    BY DEF IInv, CallsFit, Fits, Inspect
  <1>2. PICK answer : /\ answer = k.row.status \/ (answer = "expired" /\ k.row.status = "issued")
                      /\ Tell(c, k.record, answer) /\ UNCHANGED <<table, members, time, links>>
    BY DEF Inspect
  <1>3. k.row.status \in {"issued", "consumed", "revoked"}
    BY <1>1 DEF Rows
  <1>4. TrueOf(answer, table[k.record])
    BY <1>1, <1>2, <1>3 DEF TrueOf, Remembers
  <1> HIDE DEF k
  <1> QED
    BY <1>1, <1>2, <1>4, TellPreserves

LEMMA ClockIsTime == \A now \in Clock : now \in Times
  BY BoundsAssumption, TtlAssumption DEF Clock, Times

LEMMA DecideRevokePreserves == ASSUME IInv, NEW c \in Calls, DecideRevoke(c) PROVE IInv'
  <1> DEFINE k == call[c]
  <1>1. /\ k.who \in Principals /\ k.record \in Records /\ k.row \in Rows /\ k.op = "revoke"
        /\ Remembers(k.row, table[k.record])
    BY DEF IInv, CallsFit, Fits, DecideRevoke
  <1>2. CASE /\ k.row.status = "revoked"
             /\ Tell(c, k.record, "revoked") /\ UNCHANGED <<table, members, time, links>>
    <2>1. TrueOf("revoked", table[k.record])
      BY <1>1, <1>2 DEF TrueOf, Remembers
    <2> HIDE DEF k
    <2> QED
      BY <1>1, <1>2, <2>1, TellPreserves
  <1>3. ASSUME NEW now \in Clock, Proceed(c, Writing(k, now)) PROVE IInv'
    <2>1. Fits(Writing(k, now), table)
      BY <1>1, ClockIsTime DEF Fits, Writing, Remembers
    <2> HIDE DEF k
    <2> QED
      BY <1>3, <2>1, StepPreserves DEF Writing
  <1> QED
    BY <1>2, <1>3 DEF DecideRevoke

LEMMA DecideConsumePreserves == ASSUME IInv, NEW c \in Calls, DecideConsume(c) PROVE IInv'
  <1> DEFINE k == call[c]
  <1>1. /\ k.who \in Principals /\ k.record \in Records /\ k.who = k.row.who
        /\ Remembers(k.row, table[k.record])
    BY DEF IInv, CallsFit, Fits, DecideConsume
  <1>2. PICK now \in Clock : Proceed(c, Writing(k, now))
    BY DEF DecideConsume
  <1>3. Fits(Writing(k, now), table)
    BY <1>1, ClockIsTime DEF Fits, Writing, Remembers
  <1> HIDE DEF k
  <1> QED
    BY <1>2, <1>3, StepPreserves DEF Writing

\* What the conditional statements write.
LEMMA DecidedRow ==
  ASSUME NEW row \in Rows, NEW now \in Times, Pending(row, now)
  PROVE  /\ Row(row.who, row.issued, row.expires, "revoked", None) \in Rows
         /\ Row(row.who, row.issued, row.expires, "consumed", now) \in Rows
  <1>1. row.issued \in Int /\ row.expires \in Int /\ now \in Int
    BY BoundsAssumption, TtlAssumption DEF Rows, Times
  <1>2. now \in row.issued .. row.expires - 1
    BY <1>1 DEF Pending
  <1> QED
    BY <1>2 DEF Rows, Row

LEMMA RevokeIfIssuedPreserves == ASSUME IInv, NEW c \in Calls, RevokeIfIssued(c) PROVE IInv'
  <1> DEFINE k == call[c]  row == table[k.record]
  <1>1. k.record \in Records /\ k.now \in Times /\ row # None
    BY DEF IInv, CallsFit, Fits, RevokeIfIssued
  <1>2. row \in Rows
    BY <1>1 DEF IInv, TypeOK
  <1>3. CASE Refuse(c)
    BY <1>3, RefusePreserves
  <1>4. CASE /\ Pending(row, k.now)
             /\ Update(k.record, Row(row.who, row.issued, row.expires, "revoked", None))
             /\ Tell(c, k.record, "revoked") /\ UNCHANGED <<members, time, links>>
    <2> DEFINE new == Row(row.who, row.issued, row.expires, "revoked", None)
    <2>1. new \in Rows
      BY <1>1, <1>2, <1>4, DecidedRow
    <2>2. row.status = "issued" /\ new.who = row.who /\ new.status = "revoked"
      BY <1>4 DEF Pending, Row
    <2>3. PICK answered \in BOOLEAN : Answer(c, k.record, "revoked", answered)
      BY <1>4 DEF Tell
    <2>4. \A d \in Calls \ {c} : call[d].at = "insert" => call[d].record # k.record
      BY <1>1 DEF IInv, CallsFit, Fits
    <2>5. TrueOf("revoked", new)
      BY <2>1, <2>2, NoneIsNoValue DEF TrueOf
    <2>6. Update(k.record, new) /\ UNCHANGED <<members, time, links>>
      BY <1>4
    <2>7. table[k.record].status = "issued" /\ new.who = table[k.record].who
      BY <2>2
    <2> HIDE DEF k, row, new
    <2> QED
      BY <1>1, <2>1, <2>3, <2>4, <2>5, <2>6, <2>7, WritePreserves
  <1> QED
    BY <1>3, <1>4 DEF RevokeIfIssued

LEMMA ConsumeIfIssuedPreserves == ASSUME IInv, NEW c \in Calls, ConsumeIfIssued(c) PROVE IInv'
  <1> DEFINE k == call[c]  row == table[k.record]
  <1>1. k.who \in Principals /\ k.record \in Records /\ k.now \in Times /\ row # None
    BY DEF IInv, CallsFit, Fits, ConsumeIfIssued
  <1>2. row \in Rows
    BY <1>1 DEF IInv, TypeOK
  <1>3. CASE Refuse(c)
    BY <1>3, RefusePreserves
  <1>4. CASE ~Refuse(c)
    <2> DEFINE new == Row(row.who, row.issued, row.expires, "consumed", k.now)
    <2>1. PICK answered \in BOOLEAN :
            /\ Pending(row, k.now) /\ Update(k.record, new)
            /\ Answer(c, k.record, "consumed", answered) /\ UNCHANGED <<members, time>>
            /\ links' = IF answered THEN [links EXCEPT ![k.record] = Append(@, k.who)] ELSE links
      BY <1>4 DEF ConsumeIfIssued
    <2>2. new \in Rows
      BY <1>1, <1>2, <2>1, DecidedRow
    <2>3. row.status = "issued" /\ new.who = row.who /\ new.status = "consumed"
      BY <2>1 DEF Pending, Row
    <2>4. \A d \in Calls \ {c} : call[d].at = "insert" => call[d].record # k.record
      BY <1>1 DEF IInv, CallsFit, Fits
    <2>5. TrueOf("consumed", new)
      BY <2>2, <2>3, NoneIsNoValue DEF TrueOf
    <2>6. table[k.record].status = "issued" /\ new.who = table[k.record].who
      BY <2>3
    <2>7. \/ links' = links
          \/ \E p \in Principals : links' = [links EXCEPT ![k.record] = Append(@, p)]
      BY <1>1, <2>1
    <2> HIDE DEF k, row, new
    <2> QED
      BY <1>1, <2>1, <2>2, <2>3, <2>4, <2>5, <2>6, <2>7, WritePreserves
  <1> QED
    BY <1>3, <1>4

\* Neither the administration nor the clock touches a record or a request.
LEMMA BackgroundPreserves ==
  ASSUME IInv, table' = table, call' = call, links' = links, told' = told,
         members' \subseteq Memberships, time' \in 0 .. MaxTime
  PROVE  IInv'
  <1>1. TypeOK'
    BY DEF IInv, TypeOK
  <1>2. AnswersAgree'
    BY DEF IInv, AnswersAgree
  <1>3. CallsFit'
    BY DEF IInv, CallsFit
  <1>4. FreshIds'
    BY DEF IInv, FreshIds, Alone
  <1> QED
    BY <1>1, <1>2, <1>3, <1>4 DEF IInv

LEMMA EnvironmentPreserves == ASSUME IInv, Suspend \/ Restore \/ Tick PROVE IInv'
  <1>1. members \subseteq Memberships /\ time \in 0 .. MaxTime
    BY DEF IInv, TypeOK
  <1>2. CASE Suspend
    BY <1>1, <1>2, BackgroundPreserves DEF Suspend
  <1>3. CASE Restore
    BY <1>1, <1>3, BackgroundPreserves DEF Restore
  <1>4. CASE Tick
    <2>1. time' \in 0 .. MaxTime
      BY <1>1, <1>4, BoundsAssumption DEF Tick
    <2> QED
      BY <1>1, <1>4, <2>1, BackgroundPreserves DEF Tick
  <1> QED
    BY <1>2, <1>3, <1>4

LEMMA StutterPreserves == ASSUME IInv, UNCHANGED vars PROVE IInv'
  BY BackgroundPreserves DEF vars, IInv, TypeOK

LEMMA NextPreserves == ASSUME IInv, [Next]_vars PROVE IInv'
  <1>1. ASSUME NEW c \in Calls, Request(c) \/ Authorize(c) \/ Get(c) \/ Fail(c) PROVE IInv'
    BY <1>1, RequestPreserves, AuthorizePreserves, GetPreserves, RefusePreserves DEF Fail
  <1>2. ASSUME NEW c \in Calls, Mint(c) \/ Insert(c) \/ Inspect(c) \/ Deny(c) PROVE IInv'
    BY <1>2, MintPreserves, InsertPreserves, InspectPreserves, RefusePreserves DEF Deny
  <1>3. ASSUME NEW c \in Calls, DecideRevoke(c) \/ RevokeIfIssued(c) PROVE IInv'
    BY <1>3, DecideRevokePreserves, RevokeIfIssuedPreserves
  <1>4. ASSUME NEW c \in Calls, DecideConsume(c) \/ ConsumeIfIssued(c) PROVE IInv'
    BY <1>4, DecideConsumePreserves, ConsumeIfIssuedPreserves
  <1> QED
    BY <1>1, <1>2, <1>3, <1>4, EnvironmentPreserves, StutterPreserves DEF Next

\* The inductive invariant: what requests carry, the table and the answers agree.
THEOREM Invariant == Spec => []IInv
  BY InitIInv, NextPreserves, PTL DEF Spec

\* Every row satisfies the checks of the table, whatever clocks wrote it.
THEOREM TypeCorrect == Spec => []TypeOK
  <1>1. IInv => TypeOK
    BY DEF IInv
  <1> QED
    BY <1>1, Invariant, PTL

\* No request contradicts what another one was told to be final.
THEOREM LastWordStays == Spec => []AnswersAgree
  <1>1. IInv => AnswersAgree
    BY DEF IInv
  <1> QED
    BY <1>1, Invariant, PTL
-------------------------------------------------------------------------------
\* The status and the owner of the records, as the abstract exchange sees them.
Status(rows) == [r \in Records |-> IF rows[r] = None THEN "absent" ELSE rows[r].status]
Owner(rows) == [r \in Records |-> IF rows[r] = None THEN None ELSE rows[r].who]

\* The write of one row, as the abstract exchange sees it.
LEMMA UpdateSeen ==
  ASSUME IInv, NEW r \in Records, NEW row \in Rows, Update(r, row)
  PROVE  /\ Status(table') = [Status(table) EXCEPT ![r] = row.status]
         /\ Owner(table') = [Owner(table) EXCEPT ![r] = row.who]
  <1>1. row # None /\ table'[r] = row /\ \A s \in Records \ {r} : table'[s] = table[s]
    BY NoneIsNoValue DEF IInv, TypeOK, Update
  <1> QED
    BY <1>1 DEF Status, Owner

LEMMA SeenByExchange ==
  /\ UNCHANGED Exchange!exchange <=>
       Status(table') = Status(table) /\ Owner(table') = Owner(table) /\ links' = links
  /\ \A r, p : Exchange!Issue(r, p) <=>
       /\ Status(table)[r] = "absent"
       /\ Status(table') = [Status(table) EXCEPT ![r] = "issued"]
       /\ Owner(table') = [Owner(table) EXCEPT ![r] = p]
       /\ UNCHANGED links
  /\ \A r, answered : Exchange!Consume(r, answered) <=>
       /\ Status(table)[r] = "issued"
       /\ Status(table') = [Status(table) EXCEPT ![r] = "consumed"]
       /\ links' = IF answered THEN [links EXCEPT ![r] = Append(@, Owner(table)[r])] ELSE links
       /\ Owner(table') = Owner(table)
  /\ \A r : Exchange!Revoke(r) <=>
       /\ Status(table)[r] = "issued"
       /\ Status(table') = [Status(table) EXCEPT ![r] = "revoked"]
       /\ Owner(table') = Owner(table) /\ links' = links
  BY DEF Status, Owner, Exchange!exchange, Exchange!Issue, Exchange!Consume, Exchange!Revoke

\* A step that leaves the records and the links alone is no step of the exchange.
LEMMA QuietStutters ==
  ASSUME UNCHANGED <<table, links>> PROVE [Exchange!Next]_(Exchange!exchange)
  <1>1. table' = table /\ links' = links
    OBVIOUS
  <1>2. Status(table') = Status(table) /\ Owner(table') = Owner(table)
    BY <1>1
  <1> QED
    BY <1>1, <1>2, SeenByExchange

LEMMA InsertIssues == ASSUME IInv, NEW c \in Calls, Insert(c) PROVE Exchange!Next
  <1> DEFINE k == call[c]
  <1>1. /\ k.record \in Records /\ k.row \in Rows /\ k.row.status = "issued" /\ table[k.record] = None
        /\ k.row.who \in Principals
    BY DEF IInv, CallsFit, Fits, Insert, Rows
  <1>2. PICK r \in Records, row \in Rows, who \in Principals : r = k.record /\ row = k.row /\ who = k.row.who
    BY <1>1
  <1>3. Update(r, row) /\ UNCHANGED links
    BY <1>2 DEF Insert, Update
  <1>4. /\ Status(table') = [Status(table) EXCEPT ![r] = "issued"]
        /\ Owner(table') = [Owner(table) EXCEPT ![r] = who]
    BY <1>1, <1>2, <1>3, UpdateSeen
  <1>5. Status(table)[r] = "absent"
    BY <1>1, <1>2 DEF Status
  <1>6. Exchange!Issue(r, who)
    BY <1>3, <1>4, <1>5, SeenByExchange
  <1> QED
    BY <1>6 DEF Exchange!Next

LEMMA RevokeRevokes ==
  ASSUME IInv, NEW c \in Calls, RevokeIfIssued(c) PROVE [Exchange!Next]_(Exchange!exchange)
  <1> DEFINE k == call[c]  row == table[k.record]
             new == Row(row.who, row.issued, row.expires, "revoked", None)
  <1>1. CASE Refuse(c)
    BY <1>1, QuietStutters DEF Refuse, Proceed
  <1>2. CASE ~Refuse(c)
    <2>1. k.record \in Records /\ k.now \in Times /\ row # None
      BY DEF IInv, CallsFit, Fits, RevokeIfIssued
    <2>2. Pending(row, k.now) /\ Update(k.record, new) /\ UNCHANGED links
      BY <1>2 DEF RevokeIfIssued
    <2>3. row \in Rows
      BY <2>1 DEF IInv, TypeOK
    <2>4. new \in Rows /\ new.status = "revoked" /\ new.who = row.who
      BY <2>1, <2>2, <2>3, DecidedRow DEF Row
    <2>5. /\ Status(table)[k.record] = "issued" /\ Owner(table)[k.record] = row.who
          /\ Status(table') = [Status(table) EXCEPT ![k.record] = "revoked"]
          /\ Owner(table') = [Owner(table) EXCEPT ![k.record] = row.who]
      BY <2>1, <2>2, <2>4, UpdateSeen DEF Status, Owner, Pending
    <2>6. Owner(table') = Owner(table)
      BY <2>1, <2>5 DEF Owner
    <2>7. PICK r \in Records : r = k.record
      BY <2>1
    <2> HIDE DEF k, row, new
    <2>8. Exchange!Revoke(r)
      BY <2>2, <2>5, <2>6, <2>7, SeenByExchange
    <2> QED
      BY <2>8 DEF Exchange!Next
  <1> QED
    BY <1>1, <1>2

LEMMA ConsumeConsumes ==
  ASSUME IInv, NEW c \in Calls, ConsumeIfIssued(c) PROVE [Exchange!Next]_(Exchange!exchange)
  <1> DEFINE k == call[c]  row == table[k.record]
             new == Row(row.who, row.issued, row.expires, "consumed", k.now)
  <1>1. CASE Refuse(c)
    BY <1>1, QuietStutters DEF Refuse, Proceed
  <1>2. CASE ~Refuse(c)
    <2>1. k.record \in Records /\ k.now \in Times /\ row # None /\ k.who = row.who
      BY DEF IInv, CallsFit, Fits, ConsumeIfIssued
    <2>2. PICK answered \in BOOLEAN :
            /\ Pending(row, k.now) /\ Update(k.record, new)
            /\ links' = IF answered THEN [links EXCEPT ![k.record] = Append(@, k.who)] ELSE links
      BY <1>2 DEF ConsumeIfIssued
    <2>3. row \in Rows
      BY <2>1 DEF IInv, TypeOK
    <2>4. new \in Rows /\ new.status = "consumed" /\ new.who = row.who
      BY <2>1, <2>2, <2>3, DecidedRow DEF Row
    <2>5. /\ Status(table)[k.record] = "issued" /\ Owner(table)[k.record] = row.who
          /\ Status(table') = [Status(table) EXCEPT ![k.record] = "consumed"]
          /\ Owner(table') = [Owner(table) EXCEPT ![k.record] = row.who]
      BY <2>1, <2>2, <2>4, UpdateSeen DEF Status, Owner, Pending
    <2>6. Owner(table') = Owner(table)
      BY <2>1, <2>5 DEF Owner
    <2>7. links' = IF answered THEN [links EXCEPT ![k.record] = Append(@, Owner(table)[k.record])] ELSE links
      BY <2>1, <2>2, <2>5
    <2>8. PICK r \in Records : r = k.record
      BY <2>1
    <2> HIDE DEF k, row, new
    <2>9. Exchange!Consume(r, answered)
      BY <2>5, <2>6, <2>7, <2>8, SeenByExchange
    <2> QED
      BY <2>9 DEF Exchange!Next
  <1> QED
    BY <1>1, <1>2

\* Every other step of a request leaves the records and the links alone.
LEMMA OthersAreQuiet ==
  ASSUME NEW c \in Calls,
         \/ Request(c) \/ Authorize(c) \/ Get(c) \/ Fail(c) \/ Mint(c)
         \/ Inspect(c) \/ Deny(c) \/ DecideRevoke(c) \/ DecideConsume(c)
  PROVE  UNCHANGED <<table, links>>
  <1>1. \A k : Proceed(c, k) => UNCHANGED <<table, links>>
    BY DEF Proceed
  <1>2. Request(c) => \E k : Proceed(c, k)
    BY DEF Request
  <1>3. Authorize(c) \/ Get(c) \/ Fail(c) \/ Mint(c) \/ Deny(c) => \E k : Proceed(c, k)
    BY DEF Authorize, Get, Fail, Mint, Deny, Refuse
  <1>4. DecideConsume(c) => \E k : Proceed(c, k)
    BY DEF DecideConsume
  <1>5. DecideRevoke(c) => UNCHANGED <<table, links>>
    BY <1>1 DEF DecideRevoke
  <1>6. Inspect(c) => UNCHANGED <<table, links>>
    BY DEF Inspect
  <1> QED
    BY <1>1, <1>2, <1>3, <1>4, <1>5, <1>6

LEMMA StepSimulates == ASSUME IInv, [Next]_vars PROVE [Exchange!Next]_(Exchange!exchange)
  <1>1. CASE Suspend \/ Restore \/ Tick \/ UNCHANGED vars
    BY <1>1, QuietStutters DEF Suspend, Restore, Tick, vars
  <1>2. ASSUME NEW c \in Calls, Insert(c) \/ RevokeIfIssued(c) \/ ConsumeIfIssued(c)
        PROVE  [Exchange!Next]_(Exchange!exchange)
    BY <1>2, InsertIssues, RevokeRevokes, ConsumeConsumes
  <1>3. ASSUME NEW c \in Calls, ~(Insert(c) \/ RevokeIfIssued(c) \/ ConsumeIfIssued(c)),
               \/ Request(c) \/ Authorize(c) \/ Get(c) \/ Fail(c) \/ Mint(c)
               \/ Inspect(c) \/ Deny(c) \/ DecideRevoke(c) \/ DecideConsume(c)
        PROVE  [Exchange!Next]_(Exchange!exchange)
    BY <1>3, OthersAreQuiet, QuietStutters
  <1> QED
    BY <1>1, <1>2, <1>3 DEF Next

\* The requests, interleaved step by step, implement the one-time exchange.
THEOREM Refinement == Spec => ImplementsExchange
  <1>1. Init => Exchange!Init
    BY DEF Init, Exchange!Init
  <1>2. IInv /\ [Next]_vars => [Exchange!Next]_(Exchange!exchange)
    BY StepSimulates
  <1> QED
    BY <1>1, <1>2, Invariant, PTL DEF Spec, ImplementsExchange, Exchange!Spec

Once(st, ow, ln) == \A r \in Records : ln[r] = <<>> \/ (st[r] = "consumed" /\ ln[r] = <<ow[r]>>)

\* One record, one link: whoever races for an exchange, at most one request is answered
\* that it is linked, and it is the owner's.
THEOREM LinkedOnce == Spec => []Exchange!SingleUse
  <1>1. Init => Exchange!SingleUse
    BY DEF Init, Exchange!SingleUse
  <1>2. ASSUME IInv, Exchange!SingleUse, [Exchange!Next]_(Exchange!exchange)
        PROVE  Exchange!SingleUse'
    <2>1. Once(Status(table), Owner(table), links)
      BY <1>2 DEF Exchange!SingleUse, Once, Status, Owner
    <2>2. DOMAIN links = Records /\ DOMAIN Status(table) = Records /\ DOMAIN Owner(table) = Records
      BY <1>2 DEF IInv, TypeOK, Status, Owner
    <2>3. Once(Status(table'), Owner(table'), links')
      <3>1. CASE UNCHANGED Exchange!exchange
        BY <2>1, <3>1, SeenByExchange DEF Once
      <3>2. ASSUME NEW r \in Records, NEW p \in Principals, Exchange!Issue(r, p)
            PROVE  Once(Status(table'), Owner(table'), links')
        BY <2>1, <2>2, <3>2, SeenByExchange DEF Once
      <3>3. ASSUME NEW r \in Records, Exchange!Revoke(r)
            PROVE  Once(Status(table'), Owner(table'), links')
        BY <2>1, <2>2, <3>3, SeenByExchange DEF Once
      <3>4. ASSUME NEW r \in Records, NEW answered \in BOOLEAN, Exchange!Consume(r, answered)
            PROVE  Once(Status(table'), Owner(table'), links')
        <4>1. links[r] = <<>>
          BY <2>1, <3>4, SeenByExchange DEF Once
        <4>2. Append(<<>>, Owner(table)[r]) = <<Owner(table)[r]>>
          OBVIOUS
        <4> QED
          BY <2>1, <2>2, <3>4, <4>1, <4>2, SeenByExchange DEF Once
      <3> QED
        BY <1>2, <3>1, <3>2, <3>3, <3>4 DEF Exchange!Next
    <2> QED
      BY <2>3 DEF Exchange!SingleUse, Once, Status, Owner
  <1>3. IInv /\ [Next]_vars => [Exchange!Next]_(Exchange!exchange)
    BY StepSimulates
  <1> QED
    BY <1>1, <1>2, <1>3, Invariant, PTL DEF Spec
-------------------------------------------------------------------------------
(* The panel of the page, on the other side of the same exchange. *)

CONSTANT Slots
VARIABLES pageCall, pageLinks
Page == INSTANCE DesktopLinkPanelInvariant WITH call <- pageCall, links <- pageLinks
-------------------------------------------------------------------------------
(* The panel and its calls. *)

\* A call that is given up is awaited no more, and still says what it asks for.
LEMMA AbandonedIs ==
  ASSUME NEW c \in Page!CallStates, Page!Addressed(c)
  PROVE Page!Abandoned(c) \in Page!CallStates /\ Page!Abandoned(c).awaited = FALSE /\ Page!Addressed(Page!Abandoned(c))
<1>1. Page!Free \in Page!CallStates /\ Page!Free.awaited = FALSE /\ Page!Addressed(Page!Free)
  BY DEF Page!Free, Page!CallStates, Page!AllOps, Page!Addressed
<1>2. [c EXCEPT !.awaited = FALSE] \in Page!CallStates /\ [c EXCEPT !.awaited = FALSE].awaited = FALSE
  BY DEF Page!CallStates
<1>3. Page!Addressed([c EXCEPT !.awaited = FALSE])
  BY DEF Page!CallStates, Page!Addressed
<1> QED BY <1>1, <1>2, <1>3 DEF Page!Abandoned

LEMMA FreeIs == Page!Free \in Page!CallStates /\ Page!Free.awaited = FALSE /\ Page!Addressed(Page!Free)
BY DEF Page!Free, Page!CallStates, Page!AllOps, Page!Addressed

LEMMA SentIs ==
  ASSUME NEW op \in Page!AllOps, NEW r \in Records \cup {None}, NEW d \in Devices \cup {None}
  PROVE /\ Page!Sent(op, r, d) \in Page!CallStates
        /\ Page!Sent(op, r, d).pc = "sent" /\ Page!Sent(op, r, d).op = op /\ Page!Sent(op, r, d).record = r
        /\ Page!Sent(op, r, d).device = d
BY DEF Page!Sent, Page!Free, Page!CallStates

\* Of the calls that are not given up, each is as it was.
LEMMA GiveUpIs ==
  ASSUME Page!IInv, NEW ops
  PROVE /\ Page!GiveUp(ops) \in [Slots -> Page!CallStates]
        /\ \A t \in Slots : /\ Page!Addressed(Page!GiveUp(ops)[t])
                            /\ Page!GiveUp(ops)[t].awaited =>
                                 pageCall[t].awaited /\ pageCall[t].op \notin ops /\ Page!GiveUp(ops)[t] = pageCall[t]
<1>1. \A t \in Slots : pageCall[t] \in Page!CallStates /\ Page!Addressed(pageCall[t])
  BY DEF Page!IInv, Page!TypeOK, Page!CallFits
<1>2. \A t \in Slots : Page!Abandoned(pageCall[t]) \in Page!CallStates /\ Page!Abandoned(pageCall[t]).awaited = FALSE
                       /\ Page!Addressed(Page!Abandoned(pageCall[t]))
  BY <1>1, AbandonedIs
<1>3. \A t \in Slots : Page!GiveUp(ops)[t] = IF pageCall[t].op \in ops THEN Page!Abandoned(pageCall[t]) ELSE pageCall[t]
  BY DEF Page!GiveUp
<1>4. Page!GiveUp(ops) \in [Slots -> Page!CallStates]
  BY <1>1, <1>2 DEF Page!GiveUp
<1> QED BY <1>1, <1>2, <1>3, <1>4

LEMMA GiveUpNothing ==
  ASSUME Page!IInv
  PROVE Page!GiveUp({}) = pageCall
BY DEF Page!GiveUp, Page!IInv, Page!TypeOK

\* Some calls are given up, and a slot is used for something new.
LEMMA Moves ==
  ASSUME Page!IInv, Page!RecordsOK', panel' \in Page!PanelStates, Page!PanelFits(panel', status', owner', lapsed' \cup due'),
         NEW ops, NEW s \in Slots, NEW d \in Page!CallStates, pageCall' = [Page!GiveUp(ops) EXCEPT ![s] = d],
         Page!Addressed(d), d.awaited => d.pc # "free" /\ Page!AnswerFits(d, panel', status', owner', lapsed'),
         \A t \in Slots \ {s} : pageCall[t].awaited /\ pageCall[t].op \notin ops =>
           /\ Page!AnswerFits(pageCall[t], panel', status', owner', lapsed')
           /\ d.awaited /\ d.op \in {"issue", "revoke"} => pageCall[t].op # d.op
  PROVE Page!IInv'
<1>1. /\ Page!GiveUp(ops) \in [Slots -> Page!CallStates]
      /\ \A t \in Slots : /\ Page!Addressed(Page!GiveUp(ops)[t])
                          /\ Page!GiveUp(ops)[t].awaited =>
                               pageCall[t].awaited /\ pageCall[t].op \notin ops /\ Page!GiveUp(ops)[t] = pageCall[t]
  BY GiveUpIs
<1>2. /\ pageCall' \in [Slots -> Page!CallStates] /\ pageCall'[s] = d
      /\ \A t \in Slots \ {s} : pageCall'[t] = Page!GiveUp(ops)[t]
  BY <1>1
<1>3. \A t \in Slots : pageCall[t].awaited => pageCall[t].pc # "free"
  BY DEF Page!IInv, Page!CallFits
<1>4. ASSUME NEW t \in Slots
      PROVE Page!Addressed(pageCall'[t])
            /\ (pageCall'[t].awaited => pageCall'[t].pc # "free" /\ Page!AnswerFits(pageCall'[t], panel', status', owner', lapsed'))
  <2>1. CASE t = s
    BY <1>2, <2>1
  <2>2. CASE t # s
    BY <1>1, <1>2, <1>3, <2>2
  <2> QED BY <2>1, <2>2
<1>5. Page!OneEach(pageCall')
  <2>1. Page!OneEach(pageCall)
    BY DEF Page!IInv
  <2>2. ASSUME NEW t \in Slots, NEW u \in Slots, pageCall'[t].awaited, pageCall'[u].awaited,
               pageCall'[t].op = pageCall'[u].op, pageCall'[t].op \in {"issue", "revoke"}, t # u
        PROVE FALSE
    <3>1. CASE t = s
      BY <1>1, <1>2, <2>2, <3>1
    <3>2. CASE u = s
      BY <1>1, <1>2, <2>2, <3>2
    <3>3. CASE t # s /\ u # s
      BY <1>1, <1>2, <2>1, <2>2, <3>3 DEF Page!OneEach
    <3> QED BY <3>1, <3>2, <3>3
  <2> QED BY <2>2 DEF Page!OneEach
<1>6. Page!TypeOK'
  BY <1>2 DEF Page!TypeOK
<1>7. \A t \in Slots : Page!CallFits(pageCall'[t], panel', status', owner', lapsed')
  BY <1>4 DEF Page!CallFits
<1>8. /\ Page!PanelFits(panel, status, owner, lapsed \cup due)' /\ Page!OneEach(pageCall)'
      /\ (\A t \in Slots : Page!CallFits(pageCall[t], panel, status, owner, lapsed))'
  BY <1>5, <1>7 DEF Page!PanelFits, Page!OneEach, Page!CallFits, Page!Addressed, Page!AnswerFits,
       Page!Consumed, Page!Revoked
<1> QED BY <1>6, <1>8 DEF Page!IInv

\* Some calls are given up.
LEMMA Drops ==
  ASSUME Page!IInv, Page!RecordsOK', panel' \in Page!PanelStates, Page!PanelFits(panel', status', owner', lapsed' \cup due'),
         NEW ops, pageCall' = Page!GiveUp(ops),
         \A t \in Slots : pageCall[t].awaited /\ pageCall[t].op \notin ops =>
           Page!AnswerFits(pageCall[t], panel', status', owner', lapsed')
  PROVE Page!IInv'
<1>1. /\ Page!GiveUp(ops) \in [Slots -> Page!CallStates]
      /\ \A t \in Slots : /\ Page!Addressed(Page!GiveUp(ops)[t])
                          /\ Page!GiveUp(ops)[t].awaited =>
                               pageCall[t].awaited /\ pageCall[t].op \notin ops /\ Page!GiveUp(ops)[t] = pageCall[t]
  BY GiveUpIs
<1>2. pageCall' \in [Slots -> Page!CallStates] /\ \A t \in Slots : pageCall'[t] = Page!GiveUp(ops)[t]
  BY <1>1
<1>3. \A t \in Slots : pageCall[t].awaited => pageCall[t].pc # "free"
  BY DEF Page!IInv, Page!CallFits
<1>4. \A t \in Slots : Page!CallFits(pageCall'[t], panel', status', owner', lapsed')
  BY <1>1, <1>2, <1>3 DEF Page!CallFits
<1>5. Page!OneEach(pageCall')
  <2>1. Page!OneEach(pageCall)
    BY DEF Page!IInv
  <2> QED BY <1>1, <1>2, <2>1 DEF Page!OneEach
<1>6. Page!TypeOK'
  BY <1>2 DEF Page!TypeOK
<1>8. /\ Page!PanelFits(panel, status, owner, lapsed \cup due)' /\ Page!OneEach(pageCall)'
      /\ (\A t \in Slots : Page!CallFits(pageCall[t], panel, status, owner, lapsed))'
  BY <1>4, <1>5 DEF Page!PanelFits, Page!OneEach, Page!CallFits, Page!Addressed, Page!AnswerFits,
       Page!Consumed, Page!Revoked
<1> QED BY <1>6, <1>8 DEF Page!IInv

\* What a step that leaves the records alone has to know.
LEMMA SameRecords ==
  ASSUME Page!IInv, UNCHANGED <<Page!exchange, lapsed, due>>
  PROVE Page!RecordsOK' /\ status' = status /\ owner' = owner /\ lapsed' = lapsed /\ due' = due
BY DEF Page!IInv, Page!TypeOK, Page!RecordsOK, Page!exchange

\* Without a call that is busy, the page waits for polls and lists only.
LEMMA NotBusy ==
  ASSUME Page!IInv, ~Page!Busy, NEW t \in Slots, pageCall[t].awaited
  PROVE pageCall[t].op \in {"status", "list"}
<1>1. pageCall[t] \in Page!CallStates /\ Page!AnswerFits(pageCall[t], panel, status, owner, lapsed)
  BY DEF Page!IInv, Page!TypeOK, Page!CallFits
<1>2. panel.view # "issuing" /\ ~panel.cancelling
  BY DEF Page!Busy
<1>3. pageCall[t].op # "issue" /\ pageCall[t].op # "revoke"
  BY <1>1, <1>2 DEF Page!AnswerFits
<1> QED BY <1>1, <1>3 DEF Page!CallStates, Page!AllOps
-------------------------------------------------------------------------------
(* The steps of the page, one by one. *)

LEMMA MountFits ==
  ASSUME Page!IInv, NEW s \in Slots, Page!Mount(s)
  PROVE Page!IInv'
<1> DEFINE d == Page!Sent("list", None, None)
<1>1. panel' = Page!Idle /\ pageCall' = [Page!GiveUp(Page!AllOps) EXCEPT ![s] = d] /\ UNCHANGED <<Page!exchange, lapsed, due>>
  BY DEF Page!Mount
<1>2. d \in Page!CallStates /\ d.pc = "sent" /\ d.op = "list"
  BY SentIs DEF Page!AllOps
<1> HIDE DEF d
<1>3. panel' \in Page!PanelStates /\ panel'.exchange = None /\ panel'.view = "idle"
  BY <1>1 DEF Page!Idle, Page!SelectionRequired, Page!PanelStates
<1>4. Page!PanelFits(panel', status', owner', lapsed' \cup due')
  BY <1>3 DEF Page!PanelFits
<1>5. Page!Addressed(d) /\ Page!AnswerFits(d, panel', status', owner', lapsed')
  BY <1>2 DEF Page!Addressed, Page!AnswerFits
<1>6. \A t \in Slots : pageCall[t].op \in Page!AllOps
  BY DEF Page!IInv, Page!TypeOK, Page!CallStates
<1>7. Page!RecordsOK'
  BY <1>1, SameRecords
<1> QED BY <1>1, <1>2, <1>3, <1>4, <1>5, <1>6, <1>7, Moves

LEMMA LeaveFits ==
  ASSUME Page!IInv, Page!Leave
  PROVE Page!IInv'
<1>1. panel' = Page!SelectionRequired /\ pageCall' = Page!GiveUp(Page!AllOps) /\ UNCHANGED <<Page!exchange, lapsed, due>>
  BY DEF Page!Leave
<1>3. panel' \in Page!PanelStates /\ panel'.exchange = None /\ panel'.view = "selection_required"
  BY <1>1 DEF Page!SelectionRequired, Page!PanelStates
<1>4. Page!PanelFits(panel', status', owner', lapsed' \cup due')
  BY <1>3 DEF Page!PanelFits
<1>6. \A t \in Slots : pageCall[t].op \in Page!AllOps
  BY DEF Page!IInv, Page!TypeOK, Page!CallStates
<1>7. Page!RecordsOK'
  BY <1>1, SameRecords
<1> QED BY <1>1, <1>3, <1>4, <1>6, <1>7, Drops

LEMMA ChangeDeviceFits ==
  ASSUME Page!IInv, NEW d \in Devices \cup {None}, Page!ChangeDevice(d)
  PROVE Page!IInv'
<1>1. /\ ~Page!Busy /\ pageCall' = Page!GiveUp({"status"}) /\ UNCHANGED <<Page!exchange, lapsed, due>>
      /\ panel' = IF panel.exchange = None THEN [panel EXCEPT !.device = d]
                  ELSE [panel EXCEPT !.device = d, !.view = "idle", !.exchange = None, !.about = None]
  BY DEF Page!ChangeDevice
<1>2. panel \in Page!PanelStates /\ Page!PanelFits(panel, status, owner, lapsed \cup due)
      /\ \A t \in Slots : pageCall[t] \in Page!CallStates /\ Page!CallFits(pageCall[t], panel, status, owner, lapsed)
  BY DEF Page!IInv, Page!TypeOK
<1>3. /\ panel' \in Page!PanelStates /\ panel'.exchange = None /\ panel'.inventory = panel.inventory
      /\ panel'.linked = panel.linked
      /\ (panel'.view = "idle" \/ (panel'.view = panel.view /\ panel'.about = panel.about))
  <2>1. CASE panel.exchange = None
    BY <1>1, <1>2, <2>1 DEF Page!PanelStates
  <2>2. CASE panel.exchange # None
    BY <1>1, <1>2, <2>2 DEF Page!PanelStates
  <2> QED BY <2>1, <2>2
<1>4. Page!RecordsOK' /\ status' = status /\ owner' = owner /\ lapsed' = lapsed /\ due' = due
  BY <1>1, SameRecords
<1>5. Page!PanelFits(panel', status', owner', lapsed' \cup due')
  BY <1>2, <1>3, <1>4 DEF Page!PanelFits
<1>6. ASSUME NEW t \in Slots, pageCall[t].awaited, pageCall[t].op \notin {"status"}
      PROVE Page!AnswerFits(pageCall[t], panel', status', owner', lapsed')
  <2>1. pageCall[t].op = "list" /\ Page!AnswerFits(pageCall[t], panel, status, owner, lapsed)
    BY <1>1, <1>2, <1>6, NotBusy DEF Page!CallFits
  <2> QED BY <2>1, <1>3, <1>4 DEF Page!AnswerFits
<1> QED BY <1>1, <1>3, <1>4, <1>5, <1>6, Drops

LEMMA HandleSubmitFits ==
  ASSUME Page!IInv, NEW s \in Slots, Page!HandleSubmit(s)
  PROVE Page!IInv'
<1>1. ~Page!Busy /\ UNCHANGED <<Page!exchange, lapsed, due>>
  BY DEF Page!HandleSubmit
<1>2. panel \in Page!PanelStates /\ \A t \in Slots : pageCall[t] \in Page!CallStates
  BY DEF Page!IInv, Page!TypeOK
<1>3. Page!RecordsOK'
  BY <1>1, SameRecords
<1>4. CASE panel.device = None
  <2>1. panel' = [Page!Without("invalid_input") EXCEPT !.about = None] /\ pageCall' = Page!GiveUp({"status"})
    BY <1>4 DEF Page!HandleSubmit
  <2>2. panel' \in Page!PanelStates /\ panel'.exchange = None /\ panel'.view = "invalid_input"
    BY <2>1, <1>2 DEF Page!Without, Page!PanelStates
  <2>3. Page!PanelFits(panel', status', owner', lapsed' \cup due')
    BY <2>2 DEF Page!PanelFits
  <2>4. ASSUME NEW t \in Slots, pageCall[t].awaited, pageCall[t].op \notin {"status"}
        PROVE Page!AnswerFits(pageCall[t], panel', status', owner', lapsed')
    <3>1. pageCall[t].op = "list"
      BY <1>1, <2>4, NotBusy
    <3> QED BY <2>2, <3>1 DEF Page!AnswerFits
  <2> QED BY <1>3, <2>1, <2>2, <2>3, <2>4, Drops
<1>5. CASE panel.device # None
  <2> DEFINE d == Page!Sent("issue", None, panel.device)
  <2>1. panel' = [Page!Without("issuing") EXCEPT !.about = None] /\ pageCall' = [Page!GiveUp({"status"}) EXCEPT ![s] = d]
    BY <1>5 DEF Page!HandleSubmit
  <2>2. panel' \in Page!PanelStates /\ panel'.exchange = None /\ panel'.view = "issuing"
        /\ panel'.cancelling = panel.cancelling
    BY <2>1, <1>2 DEF Page!Without, Page!PanelStates
  <2>3. Page!PanelFits(panel', status', owner', lapsed' \cup due')
    BY <2>2 DEF Page!PanelFits
  <2>4. panel.device \in Devices
    BY <1>2, <1>5 DEF Page!PanelStates
  <2>5. d \in Page!CallStates /\ d.pc = "sent" /\ d.op = "issue" /\ d.device \in Devices
    BY <2>4, SentIs DEF Page!AllOps
  <2> HIDE DEF d
  <2>6. Page!Addressed(d) /\ Page!AnswerFits(d, panel', status', owner', lapsed')
    BY <1>1, <2>2, <2>5 DEF Page!Addressed, Page!AnswerFits, Page!Busy
  <2>7. ASSUME NEW t \in Slots \ {s}, pageCall[t].awaited, pageCall[t].op \notin {"status"}
        PROVE Page!AnswerFits(pageCall[t], panel', status', owner', lapsed') /\ pageCall[t].op # d.op
    <3>1. pageCall[t].op = "list"
      BY <1>1, <2>7, NotBusy
    <3> QED BY <2>2, <2>5, <3>1 DEF Page!AnswerFits
  <2>8. \A t \in Slots \ {s} : pageCall[t].awaited /\ pageCall[t].op \notin {"status"} =>
          /\ Page!AnswerFits(pageCall[t], panel', status', owner', lapsed')
          /\ d.awaited /\ d.op \in {"issue", "revoke"} => pageCall[t].op # d.op
    BY <2>7
  <2> QED BY <1>3, <2>1, <2>2, <2>3, <2>5, <2>6, <2>8, Moves
<1> QED BY <1>4, <1>5

LEMMA HandleCancelFits ==
  ASSUME Page!IInv, NEW s \in Slots, Page!HandleCancel(s)
  PROVE Page!IInv'
<1> DEFINE d == Page!Sent("revoke", panel.exchange, None)
<1>1. /\ panel.exchange # None /\ ~Page!Busy /\ panel' = [panel EXCEPT !.cancelling = TRUE]
      /\ pageCall' = [Page!GiveUp({"status"}) EXCEPT ![s] = d] /\ UNCHANGED <<Page!exchange, lapsed, due>>
  BY DEF Page!HandleCancel
<1>2. panel \in Page!PanelStates /\ Page!PanelFits(panel, status, owner, lapsed \cup due)
      /\ \A t \in Slots : pageCall[t] \in Page!CallStates /\ Page!CallFits(pageCall[t], panel, status, owner, lapsed)
  BY DEF Page!IInv, Page!TypeOK
<1>3. /\ panel' \in Page!PanelStates /\ panel'.exchange = panel.exchange /\ panel'.inventory = panel.inventory
      /\ panel'.linked = panel.linked /\ panel'.view = panel.view /\ panel'.about = panel.about
      /\ panel'.cancelling = TRUE
  BY <1>1, <1>2 DEF Page!PanelStates
<1>4. Page!RecordsOK' /\ status' = status /\ owner' = owner /\ lapsed' = lapsed /\ due' = due
  BY <1>1, SameRecords
<1>5. Page!PanelFits(panel', status', owner', lapsed' \cup due')
  BY <1>2, <1>3, <1>4 DEF Page!PanelFits
<1>6. panel.exchange \in Records /\ panel.about = panel.exchange
  BY <1>1, <1>2 DEF Page!PanelStates, Page!PanelFits
<1>7. d \in Page!CallStates /\ d.pc = "sent" /\ d.op = "revoke" /\ d.record = panel.exchange
  BY <1>6, SentIs DEF Page!AllOps
<1> HIDE DEF d
<1>8. Page!Addressed(d) /\ Page!AnswerFits(d, panel', status', owner', lapsed')
  BY <1>3, <1>6, <1>7 DEF Page!Addressed, Page!AnswerFits
<1>9. ASSUME NEW t \in Slots \ {s}, pageCall[t].awaited, pageCall[t].op \notin {"status"}
      PROVE Page!AnswerFits(pageCall[t], panel', status', owner', lapsed') /\ pageCall[t].op # d.op
  <2>1. pageCall[t].op = "list" /\ Page!AnswerFits(pageCall[t], panel, status, owner, lapsed)
    BY <1>1, <1>2, <1>9, NotBusy DEF Page!CallFits
  <2> QED BY <2>1, <1>3, <1>4, <1>7 DEF Page!AnswerFits
<1>10. \A t \in Slots \ {s} : pageCall[t].awaited /\ pageCall[t].op \notin {"status"} =>
         /\ Page!AnswerFits(pageCall[t], panel', status', owner', lapsed')
         /\ d.awaited /\ d.op \in {"issue", "revoke"} => pageCall[t].op # d.op
  BY <1>9
<1>11. pageCall' = [Page!GiveUp({"status"}) EXCEPT ![s] = d] /\ panel' \in Page!PanelStates /\ Page!RecordsOK'
  BY <1>1, <1>3, <1>4
<1> QED BY <1>5, <1>7, <1>8, <1>10, <1>11, Moves

LEMMA TimerFiresFits ==
  ASSUME Page!IInv, Page!TimerFires
  PROVE Page!IInv'
<1>1. /\ panel.exchange \in due /\ panel' = Page!Without("expired") /\ pageCall' = Page!GiveUp({"status"})
      /\ UNCHANGED <<Page!exchange, lapsed, due>>
  BY DEF Page!TimerFires, Page!TimerDue
<1>2. panel \in Page!PanelStates /\ Page!PanelFits(panel, status, owner, lapsed \cup due) /\ due \subseteq Records
      /\ \A t \in Slots : pageCall[t] \in Page!CallStates /\ Page!CallFits(pageCall[t], panel, status, owner, lapsed)
  BY DEF Page!IInv, Page!TypeOK, Page!RecordsOK
<1>3. /\ panel' \in Page!PanelStates /\ panel'.exchange = None
      /\ panel'.view = "expired" /\ panel'.about = panel.about /\ panel'.cancelling = panel.cancelling
  BY <1>1, <1>2 DEF Page!Without, Page!PanelStates
<1>4. Page!RecordsOK' /\ status' = status /\ owner' = owner /\ lapsed' = lapsed /\ due' = due
  BY <1>1, SameRecords
<1>5. panel.exchange # None /\ panel.about = panel.exchange
  BY <1>1, <1>2, NoneAssumption DEF Page!PanelFits
<1>6. Page!PanelFits(panel', status', owner', lapsed' \cup due')
  BY <1>1, <1>3, <1>4, <1>5 DEF Page!PanelFits
<1>7. ASSUME NEW t \in Slots, pageCall[t].awaited, pageCall[t].op \notin {"status"}
      PROVE Page!AnswerFits(pageCall[t], panel', status', owner', lapsed')
  <2>1. pageCall[t] \in Page!CallStates /\ Page!AnswerFits(pageCall[t], panel, status, owner, lapsed)
    BY <1>2, <1>7 DEF Page!CallFits
  <2>2. pageCall[t].op \in {"revoke", "list"}
    BY <2>1, <1>5, <1>7 DEF Page!AnswerFits, Page!CallStates, Page!AllOps
  <2> QED BY <2>1, <2>2, <1>3, <1>4 DEF Page!AnswerFits
<1> QED BY <1>1, <1>3, <1>4, <1>6, <1>7, Drops

LEMMA RefreshStatusFits ==
  ASSUME Page!IInv, NEW s \in Slots, Page!RefreshStatus(s)
  PROVE Page!IInv'
<1> DEFINE d == Page!Sent("status", panel.exchange, None)
<1>1. /\ panel.exchange # None /\ ~panel.cancelling /\ panel' = panel
      /\ pageCall' = [pageCall EXCEPT ![s] = d] /\ UNCHANGED <<Page!exchange, lapsed, due>>
  BY DEF Page!RefreshStatus
<1>2. panel \in Page!PanelStates /\ Page!PanelFits(panel, status, owner, lapsed \cup due)
      /\ \A t \in Slots : Page!CallFits(pageCall[t], panel, status, owner, lapsed)
  BY DEF Page!IInv, Page!TypeOK
<1>3. Page!RecordsOK' /\ status' = status /\ owner' = owner /\ lapsed' = lapsed /\ due' = due
  BY <1>1, SameRecords
<1>4. panel.exchange \in Records
  BY <1>1, <1>2 DEF Page!PanelStates
<1>5. d \in Page!CallStates /\ d.pc = "sent" /\ d.op = "status" /\ d.record = panel.exchange
  BY <1>4, SentIs DEF Page!AllOps
<1> HIDE DEF d
<1>6. Page!Addressed(d) /\ Page!AnswerFits(d, panel', status', owner', lapsed')
  BY <1>1, <1>4, <1>5 DEF Page!Addressed, Page!AnswerFits
<1>7. pageCall' = [Page!GiveUp({}) EXCEPT ![s] = d]
  BY <1>1, GiveUpNothing
<1>8. panel' \in Page!PanelStates /\ Page!PanelFits(panel', status', owner', lapsed' \cup due')
  BY <1>1, <1>2, <1>3
<1>9. \A t \in Slots \ {s} : pageCall[t].awaited => Page!AnswerFits(pageCall[t], panel', status', owner', lapsed')
  BY <1>1, <1>2, <1>3 DEF Page!CallFits
<1> QED BY <1>3, <1>5, <1>6, <1>7, <1>8, <1>9, Moves
-------------------------------------------------------------------------------
(* What a panel does with the answers it waits for. *)

\* The calls that end with a change of the panel: polls with the token they are
\* for, and a list with the link that calls for another.
NewlyLinked == panel'.view = "linked" /\ panel.view # "linked"
Ended == IF NewlyLinked THEN {"status", "list"} ELSE IF panel'.exchange = panel.exchange THEN {} ELSE {"status"}

LEMMA AfterIs ==
  ASSUME Page!IInv, NEW s \in Slots, NEW left, pageCall' = Page!After(s, left)
  PROVE pageCall' = [Page!GiveUp(Ended) EXCEPT ![s] = IF NewlyLinked THEN Page!Sent("list", None, None) ELSE left]
<1>1. CASE NewlyLinked
  BY <1>1 DEF NewlyLinked, Ended, Page!After
<1>2. CASE ~NewlyLinked /\ panel'.exchange = panel.exchange
  <2>1. Ended = {} /\ Page!GiveUp({}) = pageCall
    BY <1>2, GiveUpNothing DEF Ended
  <2>2. pageCall' = [pageCall EXCEPT ![s] = left]
    BY <1>2 DEF Page!After, NewlyLinked
  <2> QED BY <1>2, <2>1, <2>2
<1>3. CASE ~NewlyLinked /\ panel'.exchange # panel.exchange
  <2>1. Ended = {"status"}
    BY <1>3 DEF Ended
  <2>2. pageCall' = [Page!GiveUp({"status"}) EXCEPT ![s] = left]
    BY <1>3 DEF Page!After, NewlyLinked
  <2> QED BY <1>3, <2>1, <2>2
<1> QED BY <1>1, <1>2, <1>3

\* Which other calls the panel may be waiting for, and what it is then.
LEMMA Others ==
  ASSUME Page!IInv, NEW s \in Slots, pageCall[s].awaited, NEW t \in Slots \ {s}, pageCall[t].awaited
  PROVE /\ pageCall[t].op \in Page!AllOps /\ Page!AnswerFits(pageCall[t], panel, status, owner, lapsed)
        /\ pageCall[t].op \in {"status", "revoke"} => pageCall[t].record \in Records
        /\ pageCall[s].op \in {"issue", "revoke"} => pageCall[t].op # pageCall[s].op
BY DEF Page!IInv, Page!TypeOK, Page!CallFits, Page!CallStates, Page!OneEach, Page!Addressed

LEMMA IssueView ==
  ASSUME Page!IInv, NEW s \in Slots, pageCall[s].awaited, pageCall[s].op = "issue",
         NEW result, result = "ready" => pageCall[s].pc = "answered" /\ pageCall[s].result = "ready",
         panel' = Page!WorkspaceDesktopLinkPanelView(pageCall[s], result)
  PROVE /\ panel' \in Page!PanelStates /\ Page!PanelFits(panel', status, owner, lapsed \cup due)
        /\ \A t \in Slots \ {s} : pageCall[t].awaited /\ pageCall[t].op \notin Ended =>
             Page!AnswerFits(pageCall[t], panel', status, owner, lapsed)
<1>1. /\ panel \in Page!PanelStates /\ pageCall[s] \in Page!CallStates
      /\ panel.view = "issuing" /\ ~panel.cancelling /\ panel.exchange = None
      /\ result = "ready" => pageCall[s].record \in Records
  BY DEF Page!IInv, Page!TypeOK, Page!CallFits, Page!AnswerFits
<1>2. CASE result = "ready"
  <2>1. panel' = [panel EXCEPT !.view = "ready", !.exchange = pageCall[s].record, !.about = pageCall[s].record]
    BY <1>2 DEF Page!WorkspaceDesktopLinkPanelView
  <2>2. /\ panel' \in Page!PanelStates /\ panel'.view = "ready" /\ panel'.exchange = pageCall[s].record
        /\ panel'.about = pageCall[s].record /\ panel'.exchange # panel.exchange
    BY <1>1, <1>2, <2>1, NoneAssumption DEF Page!PanelStates
  <2>3. Page!PanelFits(panel', status, owner, lapsed \cup due)
    BY <2>2 DEF Page!PanelFits
  <2>4. "status" \in Ended
    BY <2>2 DEF Ended
  <2>5. ASSUME NEW t \in Slots \ {s}, pageCall[t].awaited, pageCall[t].op \notin Ended
        PROVE Page!AnswerFits(pageCall[t], panel', status, owner, lapsed)
    <3>1. pageCall[t].op \in Page!AllOps /\ pageCall[t].op # "issue" /\ Page!AnswerFits(pageCall[t], panel, status, owner, lapsed)
      BY <2>5, Others
    <3>2. pageCall[t].op = "list"
      BY <1>1, <2>4, <2>5, <3>1 DEF Page!AllOps, Page!AnswerFits
    <3> QED BY <2>2, <3>2 DEF Page!AnswerFits
  <2> QED BY <2>2, <2>3, <2>5
<1>3. CASE result # "ready"
  <2>1. panel' = Page!Without("unavailable")
    BY <1>3 DEF Page!WorkspaceDesktopLinkPanelView
  <2>2. panel' \in Page!PanelStates /\ panel'.view = "unavailable" /\ panel'.exchange = None
    BY <1>1, <2>1 DEF Page!PanelStates, Page!Without
  <2>3. Page!PanelFits(panel', status, owner, lapsed \cup due)
    BY <2>2 DEF Page!PanelFits
  <2>5. ASSUME NEW t \in Slots \ {s}, pageCall[t].awaited
        PROVE Page!AnswerFits(pageCall[t], panel', status, owner, lapsed)
    <3>1. /\ pageCall[t].op \in Page!AllOps /\ pageCall[t].op # "issue" /\ Page!AnswerFits(pageCall[t], panel, status, owner, lapsed)
          /\ pageCall[t].op = "status" => pageCall[t].record \in Records
      BY <2>5, Others
    <3>2. pageCall[t].op = "list"
      BY <1>1, <3>1, NoneAssumption DEF Page!AllOps, Page!AnswerFits
    <3> QED BY <2>2, <3>2 DEF Page!AnswerFits
  <2> QED BY <2>2, <2>3, <2>5
<1> QED BY <1>2, <1>3

\* A panel that leaves its record, for an outcome that is so.
LEMMA EndedView ==
  ASSUME Page!IInv, NEW s \in Slots, pageCall[s].awaited, pageCall[s].op = "status",
         panel' \in Page!PanelStates, panel'.exchange = None, panel'.about = panel.about,
         Page!PanelFits(panel', status, owner, lapsed \cup due)
  PROVE \A t \in Slots \ {s} : pageCall[t].awaited /\ pageCall[t].op \notin Ended =>
             Page!AnswerFits(pageCall[t], panel', status, owner, lapsed)
<1>1. /\ pageCall[s].record \in Records /\ panel.exchange = pageCall[s].record /\ ~panel.cancelling
      /\ panel.view # "linked"
  BY NoneAssumption
     DEF Page!IInv, Page!TypeOK, Page!CallFits, Page!AnswerFits, Page!Addressed, Page!PanelFits
<1>2. panel'.exchange # panel.exchange
  BY <1>1, NoneAssumption
<1>3. "status" \in Ended /\ (panel'.view = "linked" => "list" \in Ended)
  BY <1>1, <1>2 DEF Ended, NewlyLinked
<1>4. ASSUME NEW t \in Slots \ {s}, pageCall[t].awaited, pageCall[t].op \notin Ended
      PROVE Page!AnswerFits(pageCall[t], panel', status, owner, lapsed)
  <2>1. pageCall[t].op \in Page!AllOps /\ Page!AnswerFits(pageCall[t], panel, status, owner, lapsed)
    BY <1>4, Others
  <2>2. pageCall[t].op = "list" /\ panel'.view # "linked"
    BY <1>1, <1>2, <1>3, <1>4, <2>1, NoneAssumption DEF Page!AllOps, Page!AnswerFits
  <2> QED BY <2>2 DEF Page!AnswerFits
<1> QED BY <1>4

LEMMA PollView ==
  ASSUME Page!IInv, NEW s \in Slots, pageCall[s].awaited, pageCall[s].op = "status",
         NEW result, result = "ready" => pageCall[s].pc = "answered" /\ pageCall[s].result = "ready",
         panel' = Page!StatusView(pageCall[s], result)
  PROVE /\ panel' \in Page!PanelStates /\ Page!PanelFits(panel', status, owner, lapsed \cup due)
        /\ \A t \in Slots \ {s} : pageCall[t].awaited /\ pageCall[t].op \notin Ended =>
             Page!AnswerFits(pageCall[t], panel', status, owner, lapsed)
<1>1. /\ panel \in Page!PanelStates /\ pageCall[s] \in Page!CallStates /\ Page!PanelFits(panel, status, owner, lapsed \cup due)
      /\ pageCall[s].record \in Records /\ panel.exchange = pageCall[s].record
      /\ result = "ready" =>
           /\ pageCall[s].state = "consumed" => Page!Consumed(pageCall[s].record, status)
           /\ pageCall[s].state = "revoked" => Page!Revoked(pageCall[s].record, status)
           /\ pageCall[s].state = "expired" => pageCall[s].record \in lapsed
  BY DEF Page!IInv, Page!TypeOK, Page!CallFits, Page!AnswerFits, Page!Addressed
<1>2. panel.about = pageCall[s].record
  BY <1>1, NoneAssumption DEF Page!PanelFits
<1>3. \/ panel' = panel
      \/ panel' = Page!Without("unavailable")
      \/ panel' = Page!Linked /\ Page!Consumed(panel.about, status)
      \/ panel' = Page!Without("cancelled") /\ Page!Revoked(panel.about, status)
      \/ panel' = Page!Without("expired") /\ panel.about \in lapsed
  BY <1>1, <1>2 DEF Page!StatusView
<1>4. CASE panel' = panel
  <2>1. ASSUME NEW t \in Slots \ {s}, pageCall[t].awaited
        PROVE Page!AnswerFits(pageCall[t], panel, status, owner, lapsed)
    BY <2>1, Others
  <2> QED BY <1>1, <1>4, <2>1
<1>5. CASE panel' = Page!Without("unavailable")
  <2>1. panel' \in Page!PanelStates /\ panel'.view = "unavailable" /\ panel'.exchange = None /\ panel'.about = panel.about
    BY <1>1, <1>5 DEF Page!PanelStates, Page!Without
  <2>2. Page!PanelFits(panel', status, owner, lapsed \cup due)
    BY <2>1 DEF Page!PanelFits
  <2> QED BY <2>1, <2>2, EndedView
<1>6. CASE panel' = Page!Linked /\ Page!Consumed(panel.about, status)
  <2>1. panel' \in Page!PanelStates /\ panel'.view = "linked" /\ panel'.exchange = None /\ panel'.about = panel.about
        /\ panel'.inventory = "loading"
    BY <1>1, <1>6 DEF Page!PanelStates, Page!Linked, Page!Without
  <2>2. Page!PanelFits(panel', status, owner, lapsed \cup due)
    BY <1>6, <2>1 DEF Page!PanelFits
  <2> QED BY <2>1, <2>2, EndedView
<1>7. CASE panel' = Page!Without("cancelled") /\ Page!Revoked(panel.about, status)
  <2>1. panel' \in Page!PanelStates /\ panel'.view = "cancelled" /\ panel'.exchange = None /\ panel'.about = panel.about
    BY <1>1, <1>7 DEF Page!PanelStates, Page!Without
  <2>2. Page!PanelFits(panel', status, owner, lapsed \cup due)
    BY <1>7, <2>1 DEF Page!PanelFits
  <2> QED BY <2>1, <2>2, EndedView
<1>8. CASE panel' = Page!Without("expired") /\ panel.about \in lapsed
  <2>1. panel' \in Page!PanelStates /\ panel'.view = "expired" /\ panel'.exchange = None /\ panel'.about = panel.about
    BY <1>1, <1>8 DEF Page!PanelStates, Page!Without
  <2>2. Page!PanelFits(panel', status, owner, lapsed \cup due)
    BY <1>8, <2>1 DEF Page!PanelFits
  <2> QED BY <2>1, <2>2, EndedView
<1> QED BY <1>3, <1>4, <1>5, <1>6, <1>7, <1>8

LEMMA RevokeView ==
  ASSUME Page!IInv, NEW s \in Slots, pageCall[s].awaited, pageCall[s].op = "revoke",
         NEW result, result = "ready" => pageCall[s].pc = "answered" /\ pageCall[s].result = "ready",
         panel' = Page!CancelView(pageCall[s], result)
  PROVE /\ panel' \in Page!PanelStates /\ Page!PanelFits(panel', status, owner, lapsed \cup due)
        /\ \A t \in Slots \ {s} : pageCall[t].awaited /\ pageCall[t].op \notin Ended =>
             Page!AnswerFits(pageCall[t], panel', status, owner, lapsed)
<1>1. /\ panel \in Page!PanelStates /\ pageCall[s] \in Page!CallStates
      /\ pageCall[s].record \in Records /\ panel.about = pageCall[s].record /\ panel.cancelling
      /\ result = "ready" => Page!Revoked(pageCall[s].record, status)
  BY DEF Page!IInv, Page!TypeOK, Page!CallFits, Page!AnswerFits, Page!Addressed
<1> DEFINE over == [Page!Without("cancelled") EXCEPT !.cancelling = FALSE]
<1>2. over \in Page!PanelStates /\ over.view = "cancelled" /\ over.exchange = None /\ over.about = panel.about
  BY <1>1 DEF Page!PanelStates, Page!Without
<1>3. \/ panel' = over /\ Page!Revoked(panel.about, status)
      \/ panel' = [over EXCEPT !.view = "unavailable"]
      \/ panel' = [over EXCEPT !.view = "expired"] /\ panel.about \in due
      \/ panel' = [over EXCEPT !.view = "cancel_unconfirmed", !.exchange = pageCall[s].record]
  BY <1>1 DEF Page!CancelView
<1> HIDE DEF over
<1>4. /\ panel' \in Page!PanelStates /\ panel'.view # "linked"
      /\ Page!PanelFits(panel', status, owner, lapsed \cup due)
  <2>1. CASE panel' = over /\ Page!Revoked(panel.about, status)
    BY <1>2, <2>1 DEF Page!PanelFits
  <2>2. CASE panel' = [over EXCEPT !.view = "unavailable"]
    <3>1. panel' \in Page!PanelStates /\ panel'.view = "unavailable" /\ panel'.exchange = None
      BY <1>2, <2>2 DEF Page!PanelStates
    <3> QED BY <3>1 DEF Page!PanelFits
  <2>3. CASE panel' = [over EXCEPT !.view = "expired"] /\ panel.about \in due
    <3>1. panel' \in Page!PanelStates /\ panel'.view = "expired" /\ panel'.exchange = None /\ panel'.about = panel.about
      BY <1>2, <2>3 DEF Page!PanelStates
    <3> QED BY <2>3, <3>1 DEF Page!PanelFits
  <2>4. CASE panel' = [over EXCEPT !.view = "cancel_unconfirmed", !.exchange = pageCall[s].record]
    <3>1. panel' \in Page!PanelStates /\ panel'.view = "cancel_unconfirmed" /\ panel'.exchange = pageCall[s].record
          /\ panel'.about = panel.about
      BY <1>1, <1>2, <2>4 DEF Page!PanelStates
    <3> QED BY <1>1, <3>1 DEF Page!PanelFits
  <2> QED BY <1>3, <2>1, <2>2, <2>3, <2>4
<1>5. ASSUME NEW t \in Slots \ {s}, pageCall[t].awaited
      PROVE Page!AnswerFits(pageCall[t], panel', status, owner, lapsed)
  <2>1. pageCall[t].op \in Page!AllOps /\ pageCall[t].op # "revoke" /\ Page!AnswerFits(pageCall[t], panel, status, owner, lapsed)
    BY <1>5, Others
  <2>2. pageCall[t].op = "list"
    BY <1>1, <2>1 DEF Page!AllOps, Page!AnswerFits
  <2> QED BY <1>4, <2>2 DEF Page!AnswerFits
<1> QED BY <1>4, <1>5

LEMMA ListView ==
  ASSUME Page!IInv, NEW s \in Slots, pageCall[s].awaited, pageCall[s].op = "list",
         NEW result, result = "ready" => pageCall[s].pc = "answered" /\ pageCall[s].result = "ready",
         panel' = Page!InventoryView(pageCall[s], result)
  PROVE /\ panel' \in Page!PanelStates /\ Page!PanelFits(panel', status, owner, lapsed \cup due)
        /\ \A t \in Slots \ {s} : pageCall[t].awaited /\ pageCall[t].op \notin Ended =>
             Page!AnswerFits(pageCall[t], panel', status, owner, lapsed)
<1>1. /\ panel \in Page!PanelStates /\ pageCall[s] \in Page!CallStates /\ Page!PanelFits(panel, status, owner, lapsed \cup due)
      /\ result = "ready" /\ panel.view = "linked" => owner[panel.about] \in pageCall[s].devices
  BY DEF Page!IInv, Page!TypeOK, Page!CallFits, Page!AnswerFits
<1>2. /\ panel' \in Page!PanelStates /\ panel'.view = panel.view /\ panel'.exchange = panel.exchange
      /\ panel'.about = panel.about /\ panel'.cancelling = panel.cancelling
      /\ panel'.inventory = "ready" => result = "ready" /\ panel'.linked = pageCall[s].devices
  <2>1. CASE result = "ready"
    BY <1>1, <2>1 DEF Page!InventoryView, Page!PanelStates, Page!CallStates
  <2>2. CASE result # "ready"
    BY <1>1, <2>2 DEF Page!InventoryView, Page!PanelStates
  <2> QED BY <2>1, <2>2
<1>3. Page!PanelFits(panel', status, owner, lapsed \cup due)
  BY <1>1, <1>2 DEF Page!PanelFits
<1>4. ASSUME NEW t \in Slots \ {s}, pageCall[t].awaited
      PROVE Page!AnswerFits(pageCall[t], panel', status, owner, lapsed)
  <2>1. Page!AnswerFits(pageCall[t], panel, status, owner, lapsed)
    BY <1>4, Others
  <2> QED BY <1>2, <2>1 DEF Page!AnswerFits
<1> QED BY <1>2, <1>3, <1>4

\* An answer to a call that the panel waits for, or its failure.
LEMMA ViewFits ==
  ASSUME Page!IInv, NEW s \in Slots, pageCall[s].awaited,
         NEW result, result = "ready" => pageCall[s].pc = "answered" /\ pageCall[s].result = "ready",
         panel' = Page!View(pageCall[s], result)
  PROVE /\ panel' \in Page!PanelStates /\ Page!PanelFits(panel', status, owner, lapsed \cup due)
        /\ \A t \in Slots \ {s} : pageCall[t].awaited /\ pageCall[t].op \notin Ended =>
             Page!AnswerFits(pageCall[t], panel', status, owner, lapsed)
<1>1. pageCall[s].op \in Page!AllOps
  BY DEF Page!IInv, Page!TypeOK, Page!CallStates
<1>2. CASE pageCall[s].op = "issue"
  <2>1. panel' = Page!WorkspaceDesktopLinkPanelView(pageCall[s], result)
    BY <1>2 DEF Page!View
  <2> QED BY <1>2, <2>1, IssueView
<1>3. CASE pageCall[s].op = "status"
  <2>1. panel' = Page!StatusView(pageCall[s], result)
    BY <1>3 DEF Page!View
  <2> QED BY <1>3, <2>1, PollView
<1>4. CASE pageCall[s].op = "revoke"
  <2>1. panel' = Page!CancelView(pageCall[s], result)
    BY <1>4 DEF Page!View
  <2> QED BY <1>4, <2>1, RevokeView
<1>5. CASE pageCall[s].op = "list"
  <2>1. panel' = Page!InventoryView(pageCall[s], result)
    BY <1>5 DEF Page!View
  <2> QED BY <1>5, <2>1, ListView
<1> QED BY <1>1, <1>2, <1>3, <1>4, <1>5 DEF Page!AllOps

\* The slot of the call is free again, or loads the list after a link.
LEMMA AfterFits ==
  ASSUME Page!IInv, NEW s \in Slots, UNCHANGED <<Page!exchange, lapsed, due>>,
         panel' \in Page!PanelStates, Page!PanelFits(panel', status, owner, lapsed \cup due),
         \A t \in Slots \ {s} : pageCall[t].awaited /\ pageCall[t].op \notin Ended =>
             Page!AnswerFits(pageCall[t], panel', status, owner, lapsed),
         NEW left \in Page!CallStates, ~left.awaited, Page!Addressed(left), pageCall' = Page!After(s, left)
  PROVE Page!IInv'
<1> DEFINE d == IF NewlyLinked THEN Page!Sent("list", None, None) ELSE left
<1>1. Page!RecordsOK' /\ status' = status /\ owner' = owner /\ lapsed' = lapsed /\ due' = due
  BY SameRecords
<1>2. pageCall' = [Page!GiveUp(Ended) EXCEPT ![s] = d]
  BY AfterIs
<1>3. /\ Page!Sent("list", None, None) \in Page!CallStates /\ Page!Sent("list", None, None).pc = "sent"
      /\ Page!Sent("list", None, None).op = "list"
  BY SentIs DEF Page!AllOps
<1>4. d \in Page!CallStates /\ (d.awaited => d.pc = "sent" /\ d.op = "list") /\ (~d.awaited => Page!Addressed(d))
  BY <1>3 DEF Page!Addressed
<1> HIDE DEF d
<1>5. Page!Addressed(d) /\ (d.awaited => Page!AnswerFits(d, panel', status', owner', lapsed'))
  BY <1>4 DEF Page!Addressed, Page!AnswerFits
<1>6. Page!PanelFits(panel', status', owner', lapsed' \cup due')
      /\ \A t \in Slots \ {s} : pageCall[t].awaited /\ pageCall[t].op \notin Ended =>
           /\ Page!AnswerFits(pageCall[t], panel', status', owner', lapsed')
           /\ d.awaited /\ d.op \in {"issue", "revoke"} => pageCall[t].op # d.op
  BY <1>1, <1>4
<1>7. d.awaited => d.pc # "free" /\ Page!AnswerFits(d, panel', status', owner', lapsed')
  BY <1>4, <1>5
<1> QED BY <1>1, <1>2, <1>4, <1>5, <1>6, <1>7, Moves

LEMMA SettleFits ==
  ASSUME Page!IInv, NEW s \in Slots, Page!Settle(s)
  PROVE Page!IInv'
<1>1. /\ pageCall[s].pc = "answered" /\ pageCall' = Page!After(s, Page!Free) /\ UNCHANGED <<Page!exchange, lapsed, due>>
      /\ panel' = IF pageCall[s].awaited THEN Page!View(pageCall[s], pageCall[s].result) ELSE panel
  BY DEF Page!Settle, Page!Accepts
<1>2. /\ panel' \in Page!PanelStates /\ Page!PanelFits(panel', status, owner, lapsed \cup due)
      /\ \A t \in Slots \ {s} : pageCall[t].awaited /\ pageCall[t].op \notin Ended =>
           Page!AnswerFits(pageCall[t], panel', status, owner, lapsed)
  <2>1. CASE pageCall[s].awaited
    <3>1. panel' = Page!View(pageCall[s], pageCall[s].result)
      BY <1>1, <2>1
    <3> QED BY <1>1, <2>1, <3>1, ViewFits
  <2>2. CASE ~pageCall[s].awaited
    <3>1. panel' = panel
      BY <1>1, <2>2
    <3> QED BY <3>1 DEF Page!IInv, Page!TypeOK, Page!CallFits
  <2> QED BY <2>1, <2>2
<1> QED BY <1>1, <1>2, FreeIs, AfterFits

LEMMA ThrowsFits ==
  ASSUME Page!IInv, NEW s \in Slots, Page!Throws(s)
  PROVE Page!IInv'
<1> DEFINE left == IF pageCall[s].op \in {"issue", "revoke"} THEN [pageCall[s] EXCEPT !.awaited = FALSE] ELSE Page!Free
<1>1. /\ pageCall[s].awaited /\ panel' = Page!View(pageCall[s], "unavailable") /\ pageCall' = Page!After(s, left)
      /\ UNCHANGED <<Page!exchange, lapsed, due>>
  BY DEF Page!Throws
<1>2. /\ panel' \in Page!PanelStates /\ Page!PanelFits(panel', status, owner, lapsed \cup due)
      /\ \A t \in Slots \ {s} : pageCall[t].awaited /\ pageCall[t].op \notin Ended =>
           Page!AnswerFits(pageCall[t], panel', status, owner, lapsed)
  <2>1. "unavailable" # "ready"
    OBVIOUS
  <2> QED BY <1>1, <2>1, ViewFits
<1>3. pageCall[s] \in Page!CallStates /\ Page!Addressed(pageCall[s])
  BY DEF Page!IInv, Page!TypeOK, Page!CallFits
<1>4. /\ [pageCall[s] EXCEPT !.awaited = FALSE] \in Page!CallStates /\ [pageCall[s] EXCEPT !.awaited = FALSE].awaited = FALSE
      /\ Page!Addressed([pageCall[s] EXCEPT !.awaited = FALSE])
  BY <1>3 DEF Page!CallStates, Page!Addressed
<1>5. left \in Page!CallStates /\ ~left.awaited /\ Page!Addressed(left)
  BY <1>4, FreeIs
<1> HIDE DEF left
<1> QED BY <1>1, <1>2, <1>5, AfterFits

LEMMA LostFits ==
  ASSUME Page!IInv, NEW s \in Slots, Page!Lost(s)
  PROVE Page!IInv'
<1>1. panel' = panel /\ pageCall' = [pageCall EXCEPT ![s] = Page!Free] /\ UNCHANGED <<Page!exchange, lapsed, due>>
  BY DEF Page!Lost
<1>2. Page!RecordsOK' /\ status' = status /\ owner' = owner /\ lapsed' = lapsed /\ due' = due
  BY <1>1, SameRecords
<1>3. pageCall' = [Page!GiveUp({}) EXCEPT ![s] = Page!Free]
  BY <1>1, GiveUpNothing
<1>4. panel' \in Page!PanelStates /\ Page!PanelFits(panel', status', owner', lapsed' \cup due')
  BY <1>1, <1>2 DEF Page!IInv, Page!TypeOK
<1>5. \A t \in Slots \ {s} : pageCall[t].awaited => Page!AnswerFits(pageCall[t], panel', status', owner', lapsed')
  BY <1>1, <1>2 DEF Page!IInv, Page!CallFits
<1> QED BY <1>2, <1>3, <1>4, <1>5, FreeIs, Moves
-------------------------------------------------------------------------------
(* The API, the desktop and the clocks. *)

\* Records only move on: a decided one stays, the owner of an issued one too, and
\* time is not taken back.
Progress ==
  /\ Page!RecordsOK' /\ lapsed \subseteq lapsed' /\ due \subseteq due'
  /\ \A r \in Records : /\ status[r] \in {"consumed", "revoked"} => status'[r] = status[r]
                        /\ status[r] # "absent" => owner'[r] = owner[r]

LEMMA ProgressFits ==
  ASSUME Page!IInv, Progress, panel' = panel
  PROVE /\ panel' \in Page!PanelStates /\ Page!PanelFits(panel', status', owner', lapsed' \cup due')
        /\ \A t \in Slots : pageCall[t].awaited => Page!AnswerFits(pageCall[t], panel', status', owner', lapsed')
<1>1. /\ panel \in Page!PanelStates /\ Page!PanelFits(panel, status, owner, lapsed \cup due)
      /\ \A t \in Slots : pageCall[t].awaited => Page!AnswerFits(pageCall[t], panel, status, owner, lapsed)
  BY DEF Page!IInv, Page!TypeOK, Page!CallFits
<1>2. /\ \A r : Page!Consumed(r, status) => Page!Consumed(r, status') /\ owner'[r] = owner[r]
      /\ \A r : Page!Revoked(r, status) => Page!Revoked(r, status')
      /\ lapsed \subseteq lapsed' /\ lapsed \cup due \subseteq lapsed' \cup due'
  BY DEF Progress, Page!Consumed, Page!Revoked
<1>3. Page!PanelFits(panel', status', owner', lapsed' \cup due')
  BY <1>1, <1>2 DEF Page!PanelFits
<1>4. ASSUME NEW t \in Slots, pageCall[t].awaited
      PROVE Page!AnswerFits(pageCall[t], panel', status', owner', lapsed')
  <2>1. Page!AnswerFits(pageCall[t], panel, status, owner, lapsed)
    BY <1>1, <1>4
  <2>2. panel.view = "linked" => Page!Consumed(panel.about, status)
    BY <1>1 DEF Page!PanelFits
  <2> QED BY <1>2, <2>1, <2>2 DEF Page!AnswerFits
<1> QED BY <1>1, <1>3, <1>4

LEMMA NoCallFits ==
  ASSUME Page!IInv, Progress, panel' = panel, pageCall' = pageCall
  PROVE Page!IInv'
<1>1. /\ panel' \in Page!PanelStates /\ Page!PanelFits(panel', status', owner', lapsed' \cup due')
      /\ \A t \in Slots : pageCall[t].awaited => Page!AnswerFits(pageCall[t], panel', status', owner', lapsed')
  BY ProgressFits
<1>2. pageCall' = Page!GiveUp({})
  BY GiveUpNothing
<1>3. Page!RecordsOK'
  BY DEF Progress
<1> QED BY <1>1, <1>2, <1>3, Drops

\* The API answers a call; the answer of one that nobody waits for is dropped.
LEMMA AnsweredFits ==
  ASSUME Page!IInv, Progress, panel' = panel, NEW s \in Slots, NEW a \in Page!CallStates, Page!Answered(s, a),
         a.op = pageCall[s].op, a.awaited = pageCall[s].awaited, a.pc = "answered", Page!Addressed(a),
         pageCall[s].awaited => Page!AnswerFits(a, panel', status', owner', lapsed')
  PROVE Page!IInv'
<1> DEFINE d == IF pageCall[s].awaited THEN a ELSE Page!Free
<1>1. pageCall' = [Page!GiveUp({}) EXCEPT ![s] = d]
  BY GiveUpNothing DEF Page!Answered
<1>2. /\ panel' \in Page!PanelStates /\ Page!PanelFits(panel', status', owner', lapsed' \cup due')
      /\ \A t \in Slots : pageCall[t].awaited => Page!AnswerFits(pageCall[t], panel', status', owner', lapsed')
  BY ProgressFits
<1>3. d \in Page!CallStates /\ Page!Addressed(d)
      /\ (d.awaited => d = a /\ pageCall[s].awaited)
  BY FreeIs
<1> HIDE DEF d
<1>4. d.awaited => d.pc # "free" /\ Page!AnswerFits(d, panel', status', owner', lapsed')
  BY <1>3
<1>5. ASSUME d.awaited, d.op \in {"issue", "revoke"}, NEW t \in Slots \ {s}, pageCall[t].awaited
      PROVE pageCall[t].op # d.op
  <2>1. pageCall[s].awaited /\ d.op = pageCall[s].op
    BY <1>3, <1>5
  <2> QED BY <1>5, <2>1, Others
<1>6. Page!RecordsOK'
  BY DEF Progress
<1>7. \A t \in Slots \ {s} : pageCall[t].awaited /\ pageCall[t].op \notin {} =>
        /\ Page!AnswerFits(pageCall[t], panel', status', owner', lapsed')
        /\ d.awaited /\ d.op \in {"issue", "revoke"} => pageCall[t].op # d.op
  BY <1>2, <1>5
<1> QED BY <1>1, <1>2, <1>3, <1>4, <1>6, <1>7, Moves

LEMMA StillProgress ==
  ASSUME Page!IInv, UNCHANGED <<Page!exchange, lapsed, due>>
  PROVE Progress
BY SameRecords DEF Progress

LEMMA CallIs ==
  ASSUME Page!IInv, NEW s \in Slots
  PROVE /\ pageCall[s] \in Page!CallStates /\ Page!Addressed(pageCall[s])
        /\ pageCall[s].awaited => Page!AnswerFits(pageCall[s], panel, status, owner, lapsed)
BY DEF Page!IInv, Page!TypeOK, Page!CallFits

LEMMA RequestFailsFits ==
  ASSUME Page!IInv, NEW s \in Slots, Page!RequestFails(s)
  PROVE Page!IInv'
<1>1. /\ pageCall[s].pc = "sent" /\ panel' = panel /\ UNCHANGED <<Page!exchange, lapsed, due>>
      /\ \E result \in {"refused", "unavailable"} :
           Page!Answered(s, [pageCall[s] EXCEPT !.pc = "answered", !.result = result])
  BY DEF Page!RequestFails
<1>2. PICK result \in {"refused", "unavailable"} :
        Page!Answered(s, [pageCall[s] EXCEPT !.pc = "answered", !.result = result])
  BY <1>1
<1> DEFINE a == [pageCall[s] EXCEPT !.pc = "answered", !.result = result]
<1>3. /\ pageCall[s] \in Page!CallStates /\ Page!Addressed(pageCall[s])
      /\ pageCall[s].awaited => Page!AnswerFits(pageCall[s], panel, status, owner, lapsed)
  BY CallIs
<1>4. /\ a \in Page!CallStates /\ a.op = pageCall[s].op /\ a.awaited = pageCall[s].awaited /\ a.pc = "answered"
      /\ a.record = pageCall[s].record /\ a.result # "ready"
  BY <1>3 DEF Page!CallStates
<1>5. Page!Answered(s, a)
  BY <1>2
<1> HIDE DEF a
<1>6. Page!Addressed(a)
  BY <1>1, <1>3, <1>4 DEF Page!Addressed
<1>7. pageCall[s].awaited => Page!AnswerFits(a, panel, status, owner, lapsed)
  BY <1>3, <1>4 DEF Page!AnswerFits
<1>8. Progress /\ status' = status /\ owner' = owner /\ lapsed' = lapsed
  BY <1>1, StillProgress, SameRecords
<1> QED BY <1>1, <1>4, <1>5, <1>6, <1>7, <1>8, AnsweredFits

LEMMA InspectFits ==
  ASSUME Page!IInv, NEW s \in Slots, Page!Inspect(s)
  PROVE Page!IInv'
<1> DEFINE a == [pageCall[s] EXCEPT !.pc = "answered", !.result = "ready", !.device = owner[pageCall[s].record],
                                !.state = Page!Snapshot(pageCall[s].record)]
<1>1. /\ pageCall[s].pc = "sent" /\ pageCall[s].op = "status" /\ panel' = panel /\ UNCHANGED <<Page!exchange, lapsed, due>>
      /\ Page!Answered(s, a)
  BY DEF Page!Inspect
<1>2. /\ pageCall[s] \in Page!CallStates /\ Page!Addressed(pageCall[s])
      /\ pageCall[s].awaited => Page!AnswerFits(pageCall[s], panel, status, owner, lapsed)
  BY CallIs
<1>3. pageCall[s].record \in Records
  BY <1>1, <1>2 DEF Page!Addressed
<1>4. /\ Page!Snapshot(pageCall[s].record) \in Page!Words \cup {"expired"} /\ owner[pageCall[s].record] \in Devices \cup {None}
      /\ Page!Snapshot(pageCall[s].record) = "consumed" => Page!Consumed(pageCall[s].record, status)
      /\ Page!Snapshot(pageCall[s].record) = "revoked" => Page!Revoked(pageCall[s].record, status)
      /\ Page!Snapshot(pageCall[s].record) = "expired" => pageCall[s].record \in lapsed
  BY <1>3
     DEF Page!IInv, Page!TypeOK, Page!RecordsOK, Page!Snapshot, Page!Words, Page!Consumed,
         Page!Revoked
<1>5. /\ a \in Page!CallStates /\ a.op = "status" /\ a.awaited = pageCall[s].awaited /\ a.pc = "answered"
      /\ a.record = pageCall[s].record /\ a.state = Page!Snapshot(pageCall[s].record)
  BY <1>1, <1>2, <1>4 DEF Page!CallStates
<1> HIDE DEF a
<1>6. Page!Addressed(a)
  BY <1>3, <1>5 DEF Page!Addressed
<1>7. pageCall[s].awaited => Page!AnswerFits(a, panel, status, owner, lapsed)
  BY <1>1, <1>2, <1>4, <1>5 DEF Page!AnswerFits
<1>8. Progress /\ status' = status /\ owner' = owner /\ lapsed' = lapsed
  BY <1>1, StillProgress, SameRecords
<1> QED BY <1>1, <1>5, <1>6, <1>7, <1>8, AnsweredFits

LEMMA ListLinkedFits ==
  ASSUME Page!IInv, NEW s \in Slots, Page!ListLinked(s)
  PROVE Page!IInv'
<1> DEFINE a == [pageCall[s] EXCEPT !.pc = "answered", !.result = "ready", !.devices = Page!LatestConsumed]
<1>1. /\ pageCall[s].pc = "sent" /\ pageCall[s].op = "list" /\ panel' = panel /\ UNCHANGED <<Page!exchange, lapsed, due>>
      /\ Page!Answered(s, a)
  BY DEF Page!ListLinked
<1>2. /\ pageCall[s] \in Page!CallStates /\ Page!RecordsOK /\ Page!PanelFits(panel, status, owner, lapsed \cup due)
  BY DEF Page!IInv, Page!TypeOK
<1>3. Page!LatestConsumed \in SUBSET (Devices \cup {None}) /\ \A r : Page!Consumed(r, status) => owner[r] \in Page!LatestConsumed
  BY <1>2 DEF Page!RecordsOK, Page!LatestConsumed, Page!Those, Page!Consumed
<1>4. /\ a \in Page!CallStates /\ a.op = "list" /\ a.awaited = pageCall[s].awaited /\ a.pc = "answered"
      /\ a.devices = Page!LatestConsumed
  BY <1>1, <1>2, <1>3 DEF Page!CallStates
<1> HIDE DEF a
<1>5. Page!Addressed(a)
  BY <1>4 DEF Page!Addressed
<1>6. Page!AnswerFits(a, panel, status, owner, lapsed)
  BY <1>2, <1>3, <1>4 DEF Page!AnswerFits, Page!PanelFits
<1>7. Progress /\ status' = status /\ owner' = owner /\ lapsed' = lapsed
  BY <1>1, StillProgress, SameRecords
<1> QED BY <1>1, <1>4, <1>5, <1>6, <1>7, AnsweredFits

\* A new record, for a call that submits the device.
LEMMA IssueFits ==
  ASSUME Page!IInv, NEW s \in Slots, NEW r \in Records, Page!Issue(s, r)
  PROVE Page!IInv' /\ pageCall[s].device \in Devices /\ Page!Exchange!Issue(r, pageCall[s].device)
<1>1. /\ pageCall[s].pc = "sent" /\ pageCall[s].op = "issue" /\ status[r] = "absent"
      /\ Page!Exchange!Issue(r, pageCall[s].device) /\ panel' = panel /\ lapsed' = lapsed /\ due' = due
      /\ Page!Done(s, [pageCall[s] EXCEPT !.record = r])
  BY DEF Page!Issue
<1>2. /\ pageCall[s] \in Page!CallStates /\ Page!Addressed(pageCall[s]) /\ Page!RecordsOK
      /\ pageCall[s].awaited => Page!AnswerFits(pageCall[s], panel, status, owner, lapsed)
  BY CallIs DEF Page!IInv, Page!TypeOK
<1>3. pageCall[s].device \in Devices
  BY <1>1, <1>2 DEF Page!Addressed
<1>4. status' = [status EXCEPT ![r] = "issued"] /\ owner' = [owner EXCEPT ![r] = pageCall[s].device]
  BY <1>1 DEF Page!Exchange!Issue
<1>5. Progress
  BY <1>1, <1>2, <1>3, <1>4 DEF Progress, Page!RecordsOK, Page!Words
<1>6. PICK result \in {"ready", "unavailable", "refused"} :
        Page!Answered(s, [[pageCall[s] EXCEPT !.record = r] EXCEPT !.pc = "answered", !.result = result])
  BY <1>1 DEF Page!Done
<1> DEFINE a == [[pageCall[s] EXCEPT !.record = r] EXCEPT !.pc = "answered", !.result = result]
<1>7. /\ a \in Page!CallStates /\ a.op = "issue" /\ a.awaited = pageCall[s].awaited /\ a.pc = "answered"
      /\ a.record = r
  BY <1>1, <1>2 DEF Page!CallStates
<1>8. Page!Answered(s, a)
  BY <1>6
<1> HIDE DEF a
<1>9. Page!Addressed(a)
  BY <1>7 DEF Page!Addressed
<1>10. pageCall[s].awaited => Page!AnswerFits(a, panel', status', owner', lapsed')
  BY <1>1, <1>2, <1>7 DEF Page!AnswerFits
<1>11. Page!IInv'
  BY <1>1, <1>5, <1>7, <1>8, <1>9, <1>10, AnsweredFits
<1> QED BY <1>1, <1>3, <1>11

\* What a revocation may be answered: it is done, it was done, or it is too late.
LEMMA RevokeFits ==
  ASSUME Page!IInv, NEW s \in Slots, Page!Revoke(s)
  PROVE Page!IInv' /\ pageCall[s].record \in Records /\ (Page!Exchange!Revoke(pageCall[s].record) \/ UNCHANGED Page!exchange)
<1>1. pageCall[s].pc = "sent" /\ pageCall[s].op = "revoke" /\ panel' = panel /\ lapsed' = lapsed /\ due' = due
  BY DEF Page!Revoke
<1>2. /\ pageCall[s] \in Page!CallStates /\ Page!Addressed(pageCall[s]) /\ Page!RecordsOK
      /\ pageCall[s].awaited => Page!AnswerFits(pageCall[s], panel, status, owner, lapsed)
  BY CallIs DEF Page!IInv, Page!TypeOK
<1>3. pageCall[s].record \in Records
  BY <1>1, <1>2 DEF Page!Addressed
<1>4. \/ Page!Snapshot(pageCall[s].record) = "issued" /\ Page!Exchange!Revoke(pageCall[s].record) /\ Page!Done(s, pageCall[s])
      \/ Page!Snapshot(pageCall[s].record) = "revoked" /\ Page!Done(s, pageCall[s]) /\ UNCHANGED Page!exchange
      \/ Page!Answered(s, [pageCall[s] EXCEPT !.pc = "answered", !.result = "not_found"]) /\ UNCHANGED Page!exchange
  BY DEF Page!Revoke
<1>5. Progress /\ (Page!Exchange!Revoke(pageCall[s].record) \/ UNCHANGED Page!exchange)
  <2>1. CASE UNCHANGED Page!exchange
    BY <1>1, <2>1, StillProgress
  <2>2. CASE Page!Exchange!Revoke(pageCall[s].record)
    <3>1. /\ status[pageCall[s].record] = "issued" /\ owner' = owner
          /\ status' = [status EXCEPT ![pageCall[s].record] = "revoked"]
      BY <2>2 DEF Page!Exchange!Revoke
    <3> QED BY <1>1, <1>2, <1>3, <2>2, <3>1 DEF Progress, Page!RecordsOK, Page!Words
  <2> QED BY <1>4, <2>1, <2>2
<1>6. \E result \in {"ready", "unavailable", "refused", "not_found"} :
        /\ Page!Answered(s, [pageCall[s] EXCEPT !.pc = "answered", !.result = result])
        /\ result = "ready" => Page!Revoked(pageCall[s].record, status')
  <2>1. CASE Page!Snapshot(pageCall[s].record) = "issued" /\ Page!Exchange!Revoke(pageCall[s].record) /\ Page!Done(s, pageCall[s])
    <3>1. Page!Revoked(pageCall[s].record, status')
      BY <1>2, <1>3, <2>1 DEF Page!Exchange!Revoke, Page!RecordsOK, Page!Revoked
    <3> QED BY <2>1, <3>1 DEF Page!Done
  <2>2. CASE Page!Snapshot(pageCall[s].record) = "revoked" /\ Page!Done(s, pageCall[s]) /\ UNCHANGED Page!exchange
    <3>1. Page!Revoked(pageCall[s].record, status')
      BY <1>3, <2>2 DEF Page!exchange, Page!Snapshot, Page!Revoked
    <3> QED BY <2>2, <3>1 DEF Page!Done
  <2>3. CASE Page!Answered(s, [pageCall[s] EXCEPT !.pc = "answered", !.result = "not_found"]) /\ UNCHANGED Page!exchange
    BY <2>3
  <2> QED BY <1>4, <2>1, <2>2, <2>3
<1>7. PICK result \in {"ready", "unavailable", "refused", "not_found"} :
        /\ Page!Answered(s, [pageCall[s] EXCEPT !.pc = "answered", !.result = result])
        /\ result = "ready" => Page!Revoked(pageCall[s].record, status')
  BY <1>6
<1> DEFINE a == [pageCall[s] EXCEPT !.pc = "answered", !.result = result]
<1>8. /\ a \in Page!CallStates /\ a.op = "revoke" /\ a.awaited = pageCall[s].awaited /\ a.pc = "answered"
      /\ a.record = pageCall[s].record /\ a.result = result
  BY <1>1, <1>2 DEF Page!CallStates
<1>9. Page!Answered(s, a)
  BY <1>7
<1> HIDE DEF a
<1>10. Page!Addressed(a)
  BY <1>3, <1>8 DEF Page!Addressed
<1>11. pageCall[s].awaited => Page!AnswerFits(a, panel', status', owner', lapsed')
  BY <1>1, <1>2, <1>7, <1>8 DEF Page!AnswerFits
<1>12. Page!IInv'
  BY <1>1, <1>5, <1>8, <1>9, <1>10, <1>11, AnsweredFits
<1> QED BY <1>3, <1>5, <1>12

LEMMA ConsumeFits ==
  ASSUME Page!IInv, NEW r \in Records, Page!Consume(r)
  PROVE Page!IInv'
<1>1. /\ status[r] = "issued" /\ status' = [status EXCEPT ![r] = "consumed"] /\ owner' = owner
      /\ panel' = panel /\ pageCall' = pageCall /\ lapsed' = lapsed /\ due' = due
  BY DEF Page!Consume, Page!Exchange!Consume
<1>2. Progress
  BY <1>1 DEF Progress, Page!IInv, Page!TypeOK, Page!RecordsOK, Page!Words
<1> QED BY <1>1, <1>2, NoCallFits

LEMMA ClocksFit ==
  ASSUME Page!IInv, NEW r \in Records, Page!Lapse(r) \/ Page!Due(r)
  PROVE Page!IInv' /\ UNCHANGED Page!exchange
<1>1. /\ UNCHANGED Page!exchange /\ panel' = panel /\ pageCall' = pageCall
      /\ lapsed' \in {lapsed, lapsed \cup {r}} /\ due' \in {due, due \cup {r}}
  BY DEF Page!Lapse, Page!Due
<1>2. Progress
  BY <1>1 DEF Progress, Page!IInv, Page!TypeOK, Page!RecordsOK, Page!exchange
<1> QED BY <1>1, <1>2, NoCallFits
-------------------------------------------------------------------------------
LEMMA InitFits ==
  ASSUME Page!Init
  PROVE Page!IInv
<1>1. /\ status = [r \in Records |-> "absent"] /\ owner = [r \in Records |-> None]
      /\ lapsed = {} /\ due = {} /\ panel = Page!SelectionRequired /\ pageCall = [s \in Slots |-> Page!Free]
  BY DEF Page!Init, Page!Exchange!Init
<1>2. Page!RecordsOK
  BY <1>1 DEF Page!RecordsOK, Page!Words
<1>3. panel \in Page!PanelStates /\ panel.exchange = None /\ panel.view = "selection_required"
  BY <1>1 DEF Page!SelectionRequired, Page!PanelStates
<1>4. Page!PanelFits(panel, status, owner, lapsed \cup due)
  BY <1>3 DEF Page!PanelFits
<1>5. pageCall \in [Slots -> Page!CallStates] /\ \A s \in Slots : pageCall[s].awaited = FALSE /\ Page!Addressed(pageCall[s])
  BY <1>1, FreeIs
<1> QED BY <1>2, <1>3, <1>4, <1>5 DEF Page!IInv, Page!TypeOK, Page!CallFits, Page!OneEach

\* Every step keeps the invariant, and is a step of the exchange or none.
LEMMA NextFits ==
  ASSUME Page!IInv, Page!Next
  PROVE Page!IInv' /\ (Page!Exchange!Next \/ UNCHANGED Page!exchange)
<1>1. CASE Page!Leave \/ Page!TimerFires \/ \E d \in Devices \cup {None} : Page!ChangeDevice(d)
  <2>1. UNCHANGED Page!exchange
    BY <1>1 DEF Page!Leave, Page!TimerFires, Page!ChangeDevice
  <2> QED BY <1>1, <2>1, LeaveFits, TimerFiresFits, ChangeDeviceFits
<1>2. CASE \E r \in Records : Page!Consume(r)
  <2>1. PICK r \in Records : Page!Consume(r)
    BY <1>2
  <2>2. Page!Exchange!Consume(r, TRUE)
    BY <2>1 DEF Page!Consume
  <2>3. Page!Exchange!Next
    BY <2>2 DEF Page!Exchange!Next
  <2> QED BY <2>1, <2>3, ConsumeFits
<1>3. CASE \E r \in Records : Page!Lapse(r) \/ Page!Due(r)
  BY <1>3, ClocksFit
<1>4. CASE \E s \in Slots : Page!Mount(s) \/ Page!HandleSubmit(s) \/ Page!HandleCancel(s) \/ Page!RefreshStatus(s)
  <2>1. UNCHANGED Page!exchange
    BY <1>4 DEF Page!Mount, Page!HandleSubmit, Page!HandleCancel, Page!RefreshStatus
  <2> QED BY <1>4, <2>1, MountFits, HandleSubmitFits, HandleCancelFits, RefreshStatusFits
<1>5. CASE \E s \in Slots : Page!Settle(s) \/ Page!Throws(s) \/ Page!Lost(s) \/ Page!RequestFails(s) \/ Page!Inspect(s) \/ Page!ListLinked(s)
  <2>1. UNCHANGED Page!exchange
    BY <1>5
       DEF Page!Settle, Page!Throws, Page!Lost, Page!RequestFails, Page!Inspect, Page!ListLinked
  <2> QED
    BY <1>5, <2>1, SettleFits, ThrowsFits, LostFits, RequestFailsFits, InspectFits, ListLinkedFits
<1>6. CASE \E s \in Slots : Page!Revoke(s)
  <2>1. PICK s \in Slots : Page!Revoke(s)
    BY <1>6
  <2>2. Page!IInv' /\ pageCall[s].record \in Records /\ (Page!Exchange!Revoke(pageCall[s].record) \/ UNCHANGED Page!exchange)
    BY <2>1, RevokeFits
  <2> QED BY <2>2 DEF Page!Exchange!Next
<1>7. CASE \E s \in Slots, r \in Records : Page!Issue(s, r)
  <2>1. PICK s \in Slots, r \in Records : Page!Issue(s, r)
    BY <1>7
  <2>2. Page!IInv' /\ pageCall[s].device \in Devices /\ Page!Exchange!Issue(r, pageCall[s].device)
    BY <2>1, IssueFits
  <2> QED BY <2>2 DEF Page!Exchange!Next
<1> QED BY <1>1, <1>2, <1>3, <1>4, <1>5, <1>6, <1>7 DEF Page!Next

LEMMA StutterFits ==
  ASSUME Page!IInv, UNCHANGED Page!vars
  PROVE Page!IInv' /\ UNCHANGED Page!exchange
<1>1. UNCHANGED Page!exchange /\ panel' = panel /\ pageCall' = pageCall /\ UNCHANGED <<Page!exchange, lapsed, due>>
  BY DEF Page!vars
<1> QED BY <1>1, StillProgress, NoCallFits

\* What the panel says, the calls it waits for and the records keep fitting each
\* other, whatever the user, the desktop, the network and the two clocks do.
THEOREM PanelInvariant == Page!Spec => []Page!IInv
<1>1. Page!Init => Page!IInv
  BY InitFits
<1>2. Page!IInv /\ [Page!Next]_Page!vars => Page!IInv'
  BY NextFits, StutterFits
<1> QED BY <1>1, <1>2, PTL DEF Page!Spec

\* What the panel says of a record is so, and the list that it loads after a link
\* holds the linked device, whatever calls are answered late or never.
THEOREM PanelIsTruthful == Page!Spec => []OutcomeIsTrue
<1>1. Page!IInv => OutcomeIsTrue
  <2> SUFFICES ASSUME Page!IInv PROVE OutcomeIsTrue
    OBVIOUS
  <2>1. Page!RecordsOK /\ Page!PanelFits(panel, status, owner, lapsed \cup due)
    BY DEF Page!IInv, Page!TypeOK
  <2>2. DOMAIN status = Records
    BY <2>1 DEF Page!RecordsOK
  <2> QED BY <2>1, <2>2 DEF OutcomeIsTrue, Those, Page!PanelFits, Page!Consumed, Page!Revoked
<1> QED BY <1>1, PanelInvariant, PTL

\* The panel takes part in the one-time exchange and does nothing else to it:
\* each of its steps, and of the API's for it, is one of the exchange or none.
THEOREM PanelRefines == Page!Spec => Page!Exchange!Spec
<1>1. Page!Init => Page!Exchange!Init
  BY DEF Page!Init
<1>2. Page!IInv /\ [Page!Next]_Page!vars => [Page!Exchange!Next]_(Page!Exchange!exchange)
  <2>1. ASSUME Page!IInv, Page!Next \/ UNCHANGED Page!vars  PROVE Page!Exchange!Next \/ UNCHANGED Page!exchange
    BY <2>1, NextFits, StutterFits
  <2>2. UNCHANGED Page!exchange => UNCHANGED Page!Exchange!exchange
    BY DEF Page!exchange, Page!Exchange!exchange
  <2> QED BY <2>1, <2>2
<1> QED BY <1>1, <1>2, PanelInvariant, PTL DEF Page!Spec, Page!Exchange!Spec
-------------------------------------------------------------------------------
(* Outcomes. *)

Outcomes == {"linked", "cancelled"}
ByTheUser == {"selection_required", "idle", "invalid_input", "issuing"}

\* A panel that tells an outcome holds no token and waits for no cancellation.
Final(p) == p.view \in Outcomes => p.exchange = None /\ ~p.cancelling

\* An outcome is told until the user goes on to something else: no poll, timer,
\* list or cancellation that ends late takes it back or tells it of another record.
Stands ==
  panel.view \in Outcomes =>
    /\ panel'.view \in {panel.view} \union ByTheUser
    /\ panel'.view = panel.view => panel'.about = panel.about
OutcomeStands == [][Stands]_Page!vars

LEMMA ViewStands ==
  ASSUME Page!IInv, Final(panel), NEW c \in Page!CallStates, NEW result,
         c.pc # "free", Page!Addressed(c), Page!AnswerFits(c, panel, status, owner, lapsed),
         panel' = Page!View(c, result)
  PROVE Final(panel') /\ Stands
<1>1. panel \in Page!PanelStates
  BY DEF Page!IInv, Page!TypeOK
<1>2. CASE c.op = "issue"
  <2>1. panel.view = "issuing"
    BY <1>2 DEF Page!AnswerFits
  <2>2. panel' = Page!WorkspaceDesktopLinkPanelView(c, result)
    BY <1>2 DEF Page!View
  <2>3. panel'.view \in {"ready", "unavailable"}
    BY <1>1, <2>2 DEF Page!WorkspaceDesktopLinkPanelView, Page!Without, Page!PanelStates
  <2> QED BY <2>1, <2>3 DEF Final, Stands, Outcomes
<1>3. CASE c.op = "status"
  <2>1. panel.exchange \in Records /\ ~panel.cancelling
    BY <1>3 DEF Page!AnswerFits, Page!Addressed
  <2>2. panel.view \notin Outcomes
    BY <2>1, NoneAssumption DEF Final
  <2>3. panel' = Page!StatusView(c, result)
    BY <1>3 DEF Page!View
  <2>4. \/ panel' = panel
        \/ panel' = Page!Linked
        \/ \E view \in {"unavailable", "cancelled", "expired"} : panel' = Page!Without(view)
    BY <2>3 DEF Page!StatusView
  <2>5. panel' = panel \/ (panel'.exchange = None /\ panel'.cancelling = panel.cancelling)
    BY <1>1, <2>4 DEF Page!Linked, Page!Without, Page!PanelStates
  <2> QED BY <2>1, <2>2, <2>5 DEF Final, Stands
<1>4. CASE c.op = "revoke"
  <2>1. panel.view \notin Outcomes
    BY <1>4 DEF Page!AnswerFits, Final
  <2>2. panel' = Page!CancelView(c, result)
    BY <1>4 DEF Page!View
  <2> DEFINE over == [Page!Without("cancelled") EXCEPT !.cancelling = FALSE]
  <2>3. \/ panel' = over
        \/ \E view \in {"unavailable", "expired"} : panel' = [over EXCEPT !.view = view]
        \/ panel' = [over EXCEPT !.view = "cancel_unconfirmed", !.exchange = c.record]
    BY <2>2 DEF Page!CancelView
  <2>4. \/ panel'.exchange = None /\ panel'.cancelling = FALSE
        \/ panel'.view = "cancel_unconfirmed"
    BY <1>1, <2>3 DEF Page!Without, Page!PanelStates
  <2> QED BY <2>1, <2>4 DEF Final, Stands, Outcomes
<1>5. CASE c.op = "list"
  <2>1. panel' = Page!InventoryView(c, result)
    BY <1>5 DEF Page!View
  <2>2. /\ panel'.view = panel.view /\ panel'.exchange = panel.exchange
        /\ panel'.cancelling = panel.cancelling /\ panel'.about = panel.about
    BY <1>1, <2>1 DEF Page!InventoryView, Page!PanelStates
  <2> QED BY <2>2 DEF Final, Stands
<1>6. c.op \in {"issue", "status", "revoke", "list"}
  BY DEF Page!CallStates, Page!AllOps
<1> QED BY <1>2, <1>3, <1>4, <1>5, <1>6

LEMMA UserStands ==
  ASSUME Page!IInv, Final(panel),
         \/ Page!Leave \/ \E d \in Devices \cup {None} : Page!ChangeDevice(d)
         \/ \E s \in Slots : Page!Mount(s) \/ Page!HandleSubmit(s)
  PROVE Final(panel') /\ Stands
<1>1. panel \in Page!PanelStates
  BY DEF Page!IInv, Page!TypeOK
<1>2. CASE Page!Leave \/ \E s \in Slots : Page!Mount(s)
  <2>1. panel'.view \in ByTheUser /\ panel'.view \notin Outcomes
    BY <1>2
       DEF Page!Leave, Page!Mount, Page!Idle, Page!SelectionRequired, ByTheUser, Outcomes
  <2> QED BY <2>1 DEF Final, Stands
<1>3. CASE \E s \in Slots : Page!HandleSubmit(s)
  <2>1. panel'.view \in ByTheUser /\ panel'.view \notin Outcomes
    BY <1>1, <1>3
       DEF Page!HandleSubmit, Page!Without, Page!PanelStates, ByTheUser, Outcomes
  <2> QED BY <2>1 DEF Final, Stands
<1>4. ASSUME NEW d \in Devices \cup {None}, Page!ChangeDevice(d)
      PROVE Final(panel') /\ Stands
  <2>1. \/ /\ panel'.view = panel.view /\ panel'.exchange = panel.exchange
           /\ panel'.cancelling = panel.cancelling /\ panel'.about = panel.about
        \/ panel'.view = "idle"
    BY <1>1, <1>4 DEF Page!ChangeDevice, Page!PanelStates
  <2> QED BY <2>1 DEF Final, Stands, ByTheUser, Outcomes
<1> QED BY <1>2, <1>3, <1>4

LEMMA StepStands ==
  ASSUME Page!IInv, Final(panel), Page!Next
  PROVE Final(panel') /\ Stands
<1>1. panel \in Page!PanelStates /\ due \subseteq Records
  BY DEF Page!IInv, Page!TypeOK, Page!RecordsOK
<1>2. panel' = panel => Final(panel') /\ Stands
  BY DEF Stands
<1>3. CASE Page!TimerFires
  <2>1. panel.view \notin Outcomes
    BY <1>1, <1>3, NoneAssumption DEF Page!TimerFires, Page!TimerDue, Final
  <2>2. panel'.view = "expired"
    BY <1>1, <1>3 DEF Page!TimerFires, Page!Without, Page!PanelStates
  <2> QED BY <2>1, <2>2 DEF Final, Stands, Outcomes
<1>4. ASSUME NEW s \in Slots, Page!HandleCancel(s)  PROVE Final(panel') /\ Stands
  <2>1. panel.view \notin Outcomes
    BY <1>4 DEF Page!HandleCancel, Final
  <2>2. panel'.view = panel.view
    BY <1>1, <1>4 DEF Page!HandleCancel, Page!PanelStates
  <2> QED BY <2>1, <2>2 DEF Final, Stands
<1>5. ASSUME NEW s \in Slots, Page!Settle(s) \/ Page!Throws(s)  PROVE Final(panel') /\ Stands
  <2>1. pageCall[s] \in Page!CallStates /\ Page!CallFits(pageCall[s], panel, status, owner, lapsed)
    BY DEF Page!IInv, Page!TypeOK
  <2>2. CASE panel' # panel
    <3>1. pageCall[s].awaited /\ \E result : panel' = Page!View(pageCall[s], result)
      BY <1>5, <2>2 DEF Page!Settle, Page!Throws, Page!Accepts
    <3> QED BY <2>1, <3>1, ViewStands DEF Page!CallFits
  <2> QED BY <1>2, <2>2
<1>6. ASSUME NEW s \in Slots,
             \/ Page!RefreshStatus(s) \/ Page!Lost(s) \/ Page!RequestFails(s) \/ Page!Inspect(s)
             \/ Page!Revoke(s) \/ Page!ListLinked(s) \/ \E r \in Records : Page!Issue(s, r)
      PROVE panel' = panel
  BY <1>6
     DEF Page!RefreshStatus, Page!Lost, Page!RequestFails, Page!Inspect, Page!Revoke,
         Page!ListLinked, Page!Issue
<1>7. ASSUME NEW r \in Records, Page!Consume(r) \/ Page!Lapse(r) \/ Page!Due(r)
      PROVE panel' = panel
  BY <1>7 DEF Page!Consume, Page!Lapse, Page!Due
<1> QED BY <1>2, <1>3, <1>4, <1>5, <1>6, <1>7, UserStands DEF Page!Next

\* A desktop that is said to be linked, and an exchange that is said to be
\* cancelled, are said to be so until the user goes on.
THEOREM OutcomesStand == Page!Spec => OutcomeStands
<1>1. Page!Init => Final(panel)
  BY DEF Page!Init, Page!SelectionRequired, Final, Outcomes
<1>2. Page!IInv /\ Final(panel) /\ [Page!Next]_Page!vars => Final(panel)' /\ Stands
  <2>1. UNCHANGED Page!vars => panel' = panel
    BY DEF Page!vars
  <2>2. Final(panel) /\ panel' = panel => Final(panel') /\ Stands
    BY DEF Stands
  <2> QED BY <2>1, <2>2, StepStands
<1> QED BY <1>1, <1>2, PanelInvariant, PTL DEF Page!Spec, OutcomeStands
===============================================================================
