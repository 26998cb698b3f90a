-------------------------- MODULE KnowledgeBaseProofs --------------------------
(***************************************************************************)
(* What the knowledge base keeps for every number of processes, documents, *)
(* texts and requests.  A process is known by the statements it has left:  *)
(* the program of its request fixes which may follow which, and each       *)
(* statement can rely on what those before it have established about the   *)
(* document, as long as nobody else works on that document.                *)
(***************************************************************************)
EXTENDS DocumentAnalysis, KnowledgeBase, FiniteSetTheorems, SequenceTheorems,
        TLAPS

-------------------------------------------------------------------------------
(* The programs. *)

Api == {"ingest", "image", "pdf"}
Texts == {"ingest", "sync", "publish"}
Pictures == {"image", "pages"}
Ingests == Texts \cup Pictures
Decisions == {"transition", "import", "update"}
Rulings == {"in_review", "approved", "rejected", "archived"}
Drafting == Rulings \cup {"create", "publish"}
Arg == Api \cup Ingests \cup Decisions \cup Drafting \cup ReviewActions \cup {"delete"}

Label ==
  {"create", "already", "requeue", "mark_running", "settle", "analyse", "existing", "purge",
   "purge_quarantine", "embed", "split", "parents", "clear", "insert", "reread", "put",
   "put_visual", "get",
   "put_ref", "put_meta", "put_stub", "put_tombstone", "hide", "hide_quarantine", "available",
   "ready", "legal", "audit_read", "audit_write", "look", "promote", "unpark", "clear_review",
   "insert_review", "mark_quarantined", "mark_chunk", "decide", "publishable", "save_draft"}

(* Which statements a request of kind a may have left. *)
Allowed(a, x) ==
  /\ x \in {"create", "already", "requeue"} => a \in Api
  /\ x \in {"mark_running", "settle"} => a \in {"ingest", "image", "sync", "pages"}
  /\ x \in {"existing", "embed", "put"} => a \in Texts
  /\ x \in {"analyse", "split", "reread", "put_visual"} => a \in Pictures
  /\ x \in {"clear", "insert"} => a \in Ingests
  /\ x = "parents" => a \in Ingests \cup {"edit_and_approve"}
  /\ x \in {"purge", "purge_quarantine"} => a \in Ingests \cup {"delete"}
  /\ x = "get" => a \in Api \cup Decisions \cup {"publish", "delete"}
  /\ x = "put_ref" => a \in {"ingest", "image", "publish"}
  /\ x = "put_meta" => a \in Api \cup Decisions \cup {"publish"}
  /\ x = "put_stub" => a = "pdf"
  /\ x \in {"put_tombstone", "hide", "hide_quarantine"} => a = "delete"
  /\ x \in {"available", "ready", "legal"} => a = "transition"
  /\ x \in {"audit_read", "audit_write"} => a \in Decisions \cup Drafting
  /\ x = "save_draft" => a \in Drafting
  /\ x = "decide" => a \in Rulings
  /\ x = "publishable" => a = "publish"
  /\ x \in {"look", "mark_quarantined", "mark_chunk"} => a \in ReviewActions
  /\ x \in {"clear_review", "insert_review"} => a = "edit_and_approve"
  /\ x \in {"promote", "unpark"} => a = "approve"

(* Which statement may follow which. *)
Leads(x, y) ==
  \/ x = "requeue" /\ y \in {"mark_running", "get"}
  \/ x = "mark_running" /\ y \in {"existing", "analyse"}
  \/ x \in {"existing", "analyse", "hide_quarantine"} /\ y = "purge"
  \/ x = "purge" /\ y = "purge_quarantine"
  \/ x = "purge_quarantine" /\ y \in {"embed", "split"}
  \/ x = "embed" /\ y = "put"
  \/ x = "reread" /\ y = "put_visual"
  \/ x = "split" /\ y = "reread"
  \/ x = "parents" /\ y \in {"clear", "clear_review"}
  \/ x = "clear" /\ y = "insert"
  \/ x = "insert" /\ y \in {"clear", "put", "reread"}
  \/ x \in {"put", "put_visual"} /\ y \in {"settle", "get"}
  \/ x = "settle" /\ y = "get"
  \/ x = "get" /\ y \in {"put_ref", "put_meta", "put_stub", "put_tombstone"}
  \/ x = "put_ref" /\ y \in {"get", "audit_read"}
  \/ x = "put_meta" /\ y \in {"get", "audit_read"}
  \/ x = "put_tombstone" /\ y = "hide"
  \/ x = "hide" /\ y = "hide_quarantine"
  \/ x \in {"available", "ready"} /\ y \in {"ready", "legal"}
  \/ x = "legal" /\ y = "get"
  \/ x = "audit_read" /\ y = "audit_write"
  \/ x \in {"audit_write", "decide"} /\ y = "save_draft"
  \/ x = "save_draft" /\ y = "audit_read"
  \/ x = "publishable" /\ y = "existing"
  \/ x = "clear_review" /\ y = "insert_review"
  \/ x = "promote" /\ y = "unpark"

Program(s, a) ==
  /\ s \in Seq(Label)
  /\ \A i \in 1..Len(s) : Allowed(a, s[i])
  /\ \A i \in 1..(Len(s) - 1) : Leads(s[i], s[i + 1])

(* The locals of a request. *)
Job ==
  [d : Docs \cup {NoDoc}, c : Contents \cup {NoDoc}, meta : ApprovalStatus \cup {NoMeta},
   arg : Arg, id : (Docs \X Nat) \cup {<< >>}, row : DocRow \cup {NoDoc},
   chunk : ChunkRow \cup {NoChunk}, draft : Draft \cup {NoDoc}, head : Nat, n : Nat,
   failed : BOOLEAN]

(* What the locals hold while a request is served, from its next statement. *)
Bound(p, x, j) ==
  /\ j.d \in Docs
  /\ j.arg \in Ingests \cup Api => j.c \in Contents
  /\ j.arg \in Api \cup {"sync", "pages"} => j.d \notin Artifacts
  /\ j.arg = "pdf" => j.meta = NoMeta
  /\ j.arg \in Decisions => j.meta \in ApprovalStatus
  /\ j.arg \in Drafting => j.d \in Artifacts
  /\ j.arg \in Drafting /\ x \notin {"decide", "publishable"} => j.draft \in Draft
  /\ j.arg \in ReviewActions => j.id \in Docs \X Nat /\ j.id[1] = j.d
  /\ j.arg \in ReviewActions /\ x # "look" => j.chunk \in ChunkRow
  /\ p \notin Servers => j.arg \in {"sync", "pages"}

Good(p, s, j) ==
  /\ j \in Job
  /\ Program(s, j.arg)
  /\ s = << >> => j = Idle
  /\ s # << >> => Bound(p, Head(s), j)

(* The types of everything, and what each process is about. *)
ProgramsInv ==
  /\ todo \in [Procs -> Seq(Label)] /\ job \in [Procs -> Job]
  /\ \A p \in Procs : Good(p, todo[p], job[p])
ControlInv ==
  /\ TypeOK
  /\ ProgramsInv
  /\ audit \in Seq(Nat)
  /\ consented \subseteq Artifacts
  /\ DOMAIN drafts \subseteq Artifacts

-------------------------------------------------------------------------------
(* A document that comes from a draft is there by consent. *)

Published(p, s, j) ==
  s # << >> /\ j.d \in Artifacts =>
    /\ j.row # NoDoc => j.d \in consented
    /\ j.arg = "publish" /\ Head(s) # "publishable" => j.d \in consented
    /\ j.arg \in ReviewActions /\ Head(s) # "look" => j.d \in consented
    /\ j.arg \in Drafting /\ Head(s) \notin {"decide", "publishable"} =>
         j.draft.status # "approved" \/ j.arg = "approved" \/ j.d \in consented
ConsentInv ==
  /\ \A a \in Artifacts \ consented :
       /\ a \notin DOMAIN registry
       /\ IdsOf(chunks, a) = {} /\ IdsOf(quarantine, a) = {}
       /\ a \in DOMAIN drafts => drafts[a].status # "approved"
  /\ \A p \in Procs : Published(p, todo[p], job[p])

(* The last entry read is the last entry there is. *)
ChainInv ==
  /\ \A i \in DOMAIN audit : audit[i] = i - 1
  /\ \A p \in Procs : At(p, "audit_write") => job[p].head = Len(audit)

-------------------------------------------------------------------------------
(* Without overlap: what is known of a document, and what a process knows of *)
(* the one it works on.                                                      *)

Alone == \A p, q \in Procs : p # q /\ todo[p] # << >> /\ todo[q] # << >> => job[p].d # job[q].d

Gone(d) == IdsOf(chunks, d) = {} /\ IdsOf(quarantine, d) = {}

(* The rows of d in a table are edited by hand or of the text rows[d] names. *)
Matches(table, rows, d) ==
  \A id \in IdsOf(table, d) :
    d \in DOMAIN rows /\ (table[id].edited \/ table[id].content = rows[d].checksum)
(* The rows of d in a table are all of text c. *)
Holds(table, d, c) == \A id \in IdsOf(table, d) : table[id].content = c

DocumentIsSound(d) ==
  /\ d \in deleted => Gone(d) /\ ~Live(Get(d))
  /\ d \notin torn => Matches(chunks, registry, d) /\ Matches(quarantine, registry, d)
  /\ d \in withdrawn =>
       d \in DOMAIN registry /\ ~registry[d].tombstone /\ registry[d].mfg = "obsolete"

Knows(s, j) ==
  LET x == Head(s)
  IN  s # << >> =>
        /\ x \in {"put_ref", "put_meta", "put_stub", "put_tombstone", "put_visual"} => j.row = Get(j.d)
        /\ x \in {"purge", "purge_quarantine", "embed", "parents", "clear", "insert", "put"}
             => (j.arg \in Texts /\ j.d \in withdrawn => j.row = Get(j.d))
        /\ j.arg = "delete" /\ x \in {"hide", "hide_quarantine", "purge", "purge_quarantine"}
             => ~Live(Get(j.d))
        /\ x = "purge_quarantine" => j.d \in torn /\ IdsOf(chunks, j.d) = {}
        /\ x \in {"embed", "split"} => j.d \in torn /\ Gone(j.d)
        /\ j.arg \in Ingests /\ x \in {"parents", "clear", "insert", "reread", "put", "put_visual"}
             => j.d \in torn /\ Holds(chunks, j.d, j.c) /\ Holds(quarantine, j.d, j.c)
        /\ j.arg = "edit_and_approve" /\ x \in {"parents", "clear_review", "insert_review"}
             => j.chunk.edited
        /\ x \in {"clear_review", "insert_review"} => j.d \in DOMAIN registry
        /\ j.arg \in Ingests \cup Api \cup ReviewActions => j.d \notin deleted
        /\ j.arg = "transition" /\ x \in {"get", "put_meta"} /\ j.d \in withdrawn
             => j.meta = "obsolete"

DocumentInv ==
  /\ Alone
  /\ \A d \in Docs : DocumentIsSound(d)
  /\ \A p \in Procs : Knows(todo[p], job[p])

-------------------------------------------------------------------------------
(* Programs: what is left of one, and one after another. *)

LEMMA TailOfProgram ==
  ASSUME NEW a, NEW s, Program(s, a), s # << >>
  PROVE  /\ Program(Tail(s), a)
         /\ Head(s) \in Label /\ Allowed(a, Head(s))
         /\ Tail(s) # << >> =>
              /\ Head(Tail(s)) \in Label /\ Allowed(a, Head(Tail(s)))
              /\ Leads(Head(s), Head(Tail(s)))
<1>1. s \in Seq(Label) /\ Len(s) \in Nat /\ Len(s) >= 1
  BY DEF Program
<1>2. /\ Tail(s) \in Seq(Label) /\ Len(Tail(s)) = Len(s) - 1 /\ Head(s) = s[1]
      /\ \A i \in 1..(Len(s) - 1) : Tail(s)[i] = s[i + 1]
  BY <1>1
<1>3. \A i \in 1..Len(s) : s[i] \in Label /\ Allowed(a, s[i])
  BY <1>1 DEF Program
<1>4. \A i \in 1..(Len(s) - 1) : Leads(s[i], s[i + 1])
  BY DEF Program
<1>5. Program(Tail(s), a)
  <2>1. \A i \in 1..Len(Tail(s)) : Allowed(a, Tail(s)[i])
    <3> SUFFICES ASSUME NEW i \in 1..Len(Tail(s)) PROVE Allowed(a, Tail(s)[i])
      OBVIOUS
    <3>1. i \in 1..(Len(s) - 1) /\ i + 1 \in 1..Len(s)
      BY <1>1, <1>2
    <3> QED  BY <1>2, <1>3, <3>1
  <2>2. \A i \in 1..(Len(Tail(s)) - 1) : Leads(Tail(s)[i], Tail(s)[i + 1])
    <3> SUFFICES ASSUME NEW i \in 1..(Len(Tail(s)) - 1) PROVE Leads(Tail(s)[i], Tail(s)[i + 1])
      OBVIOUS
    <3>1. i \in 1..(Len(s) - 1) /\ i + 1 \in 1..(Len(s) - 1)
      BY <1>1, <1>2
    <3>2. Tail(s)[i] = s[i + 1] /\ Tail(s)[i + 1] = s[(i + 1) + 1]
      BY <1>2, <3>1
    <3> QED  BY <1>4, <3>1, <3>2
  <2> QED  BY <1>2, <2>1, <2>2 DEF Program
<1>6. Head(s) \in Label /\ Allowed(a, Head(s))
  <2>1. 1 \in 1..Len(s)
    BY <1>1
  <2> QED  BY <1>2, <1>3, <2>1
<1>7. Tail(s) # << >> =>
        /\ Head(Tail(s)) \in Label /\ Allowed(a, Head(Tail(s)))
        /\ Leads(Head(s), Head(Tail(s)))
  <2> SUFFICES ASSUME Tail(s) # << >>
               PROVE  /\ Head(Tail(s)) \in Label /\ Allowed(a, Head(Tail(s)))
                      /\ Leads(Head(s), Head(Tail(s)))
    OBVIOUS
  <2>1. Len(s) >= 2 /\ Head(Tail(s)) = s[2]
    BY <1>1, <1>2
  <2>2. 2 \in 1..Len(s) /\ 1 \in 1..(Len(s) - 1)
    BY <1>1, <2>1
  <2>3. Leads(s[1], s[1 + 1])
    BY <1>4, <2>2
  <2> QED  BY <1>2, <1>3, <2>1, <2>2, <2>3
<1> QED  BY <1>5, <1>6, <1>7

LEMMA RestOfProgram ==
  ASSUME NEW a, NEW s, Program(s, a), NEW k \in Nat
  PROVE  /\ Program(SubSeq(s, k + 1, Len(s)), a)
         /\ SubSeq(s, k + 1, Len(s)) # << >> =>
              k + 1 \in 1..Len(s) /\ Head(SubSeq(s, k + 1, Len(s))) = s[k + 1]
<1> DEFINE r == SubSeq(s, k + 1, Len(s))
<1>1. s \in Seq(Label) /\ Len(s) \in Nat
  BY DEF Program
<1>2. CASE k >= Len(s)
  <2>1. r = << >>
    BY <1>1, <1>2
  <2>2. Program(<< >>, a)
    BY DEF Program
  <2> QED  BY <2>1, <2>2
<1>3. CASE k < Len(s)
  <2>1. /\ r \in Seq(Label) /\ Len(r) = Len(s) - k
        /\ \A i \in 1..(Len(s) - k) : r[i] = s[i + k]
    BY <1>1, <1>3, SubSeqProperties
  <2>2. \A i \in 1..Len(r) : Allowed(a, r[i])
    <3> SUFFICES ASSUME NEW i \in 1..Len(r) PROVE Allowed(a, r[i])
      OBVIOUS
    <3> HIDE DEF r
    <3>1. i + k \in 1..Len(s) /\ r[i] = s[i + k]
      BY <1>1, <1>3, <2>1
    <3> QED  BY <3>1 DEF Program
  <2>3. \A i \in 1..(Len(r) - 1) : Leads(r[i], r[i + 1])
    <3> SUFFICES ASSUME NEW i \in 1..(Len(r) - 1) PROVE Leads(r[i], r[i + 1])
      OBVIOUS
    <3> HIDE DEF r
    <3>1. i \in 1..(Len(s) - k) /\ i + 1 \in 1..(Len(s) - k) /\ i + k \in 1..(Len(s) - 1)
      BY <1>1, <1>3, <2>1
    <3>2. r[i] = s[i + k] /\ r[i + 1] = s[(i + 1) + k]
      BY <2>1, <3>1
    <3>3. (i + 1) + k = (i + k) + 1
      BY <3>1
    <3>4. r[i + 1] = s[(i + k) + 1]
      BY <3>2, <3>3
    <3> QED  BY <3>1, <3>2, <3>4 DEF Program
  <2>4. Head(r) = s[k + 1] /\ k + 1 \in 1..Len(s)
    <3> HIDE DEF r
    <3> QED  BY <1>1, <1>3, <2>1
  <2> QED  BY <2>1, <2>2, <2>3, <2>4 DEF Program
<1> QED  BY <1>1, <1>2, <1>3

LEMMA OneAfterAnother ==
  ASSUME NEW a, NEW s, NEW t, Program(s, a), Program(t, a),
         s # << >> /\ t # << >> => Leads(s[Len(s)], t[1])
  PROVE  /\ Program(s \o t, a)
         /\ s # << >> => (s \o t)[1] = s[1] /\ s \o t # << >>
         /\ t # << >> => (s \o t)[Len(s \o t)] = t[Len(t)] /\ s \o t # << >>
<1> DEFINE r == s \o t
<1>1. /\ s \in Seq(Label) /\ Len(s) \in Nat /\ t \in Seq(Label) /\ Len(t) \in Nat
  BY DEF Program
<1>2. /\ r \in Seq(Label) /\ Len(r) = Len(s) + Len(t)
      /\ \A i \in 1..Len(s) : r[i] = s[i]
      /\ \A i \in 1..Len(t) : r[Len(s) + i] = t[i]
  BY <1>1
<1> HIDE DEF r
<1>3. \A i \in 1..Len(r) : Allowed(a, r[i])
  <2> SUFFICES ASSUME NEW i \in 1..Len(r) PROVE Allowed(a, r[i])
    OBVIOUS
  <2>1. CASE i \in 1..Len(s)
    BY <1>2, <2>1 DEF Program
  <2>2. CASE i - Len(s) \in 1..Len(t)
    <3>1. r[Len(s) + (i - Len(s))] = t[i - Len(s)] /\ Len(s) + (i - Len(s)) = i
      BY <1>1, <1>2, <2>2
    <3> QED  BY <3>1, <2>2 DEF Program
  <2> QED  BY <1>1, <1>2, <2>1, <2>2
<1>4. \A i \in 1..(Len(r) - 1) : Leads(r[i], r[i + 1])
  <2> SUFFICES ASSUME NEW i \in 1..(Len(r) - 1) PROVE Leads(r[i], r[i + 1])
    OBVIOUS
  <2>1. CASE i \in 1..(Len(s) - 1)
    <3>1. r[i] = s[i] /\ r[i + 1] = s[i + 1]
      BY <1>1, <1>2, <2>1
    <3> QED  BY <3>1, <2>1 DEF Program
  <2>2. CASE i = Len(s)
    <3>1. Len(s) >= 1 /\ Len(t) >= 1 /\ s # << >> /\ t # << >>
      BY <1>1, <1>2, <2>2
    <3>2. r[i] = s[Len(s)] /\ r[i + 1] = t[1]
      BY <1>1, <1>2, <2>2, <3>1
    <3> QED  BY <3>1, <3>2
  <2>3. CASE i - Len(s) \in 1..(Len(t) - 1)
    <3> DEFINE k == i - Len(s)
    <3>1. k \in 1..(Len(t) - 1) /\ k + 1 \in 1..Len(t) /\ k \in 1..Len(t)
      BY <1>1, <2>3
    <3>2. Len(s) + k = i /\ Len(s) + (k + 1) = i + 1
      BY <1>1
    <3>3. r[i] = t[k] /\ r[i + 1] = t[k + 1]
      <4> HIDE DEF k
      <4> QED  BY <1>2, <3>1, <3>2
    <3> HIDE DEF k
    <3> QED  BY <3>1, <3>3 DEF Program
  <2> QED  BY <1>1, <1>2, <2>1, <2>2, <2>3
<1>5. s # << >> => r[1] = s[1] /\ r # << >>
  BY <1>1, <1>2
<1>6. t # << >> => r[Len(r)] = t[Len(t)] /\ r # << >>
  BY <1>1, <1>2
<1> QED  BY <1>2, <1>3, <1>4, <1>5, <1>6 DEF Program, r

(* A program that begins with x and ends with y. *)
Runs(s, a, x, y) == Program(s, a) /\ s # << >> /\ s[1] = x /\ s[Len(s)] = y

LEMMA RunsOn ==
  ASSUME NEW a, NEW s, NEW t, NEW x, NEW y, NEW u, NEW v,
         Runs(s, a, x, y), Runs(t, a, u, v), Leads(y, u)
  PROVE  Runs(s \o t, a, x, v)
<1>1. /\ Program(s, a) /\ s # << >> /\ s[1] = x /\ s[Len(s)] = y
      /\ Program(t, a) /\ t # << >> /\ t[1] = u /\ t[Len(t)] = v
  BY DEF Runs
<1> QED  BY <1>1, OneAfterAnother DEF Runs

LEMMA RunsInto ==
  ASSUME NEW a, NEW s, NEW t, NEW x, NEW y,
         Runs(s, a, x, y), Program(t, a), t # << >> => Leads(y, t[1])
  PROVE  Program(s \o t, a) /\ s \o t # << >> /\ (s \o t)[1] = x
<1>1. Program(s, a) /\ s # << >> /\ s[1] = x /\ s[Len(s)] = y
  BY DEF Runs
<1> QED  BY <1>1, OneAfterAnother

LEMMA OneStatement ==
  ASSUME NEW a, NEW x \in Label, Allowed(a, x)
  PROVE  Runs(<<x>>, a, x, x)
<1>1. <<x>> \in Seq(Label) /\ Len(<<x>>) = 1 /\ <<x>>[1] = x /\ <<x>> # << >>
  OBVIOUS
<1> QED  BY <1>1 DEF Program, Runs

LEMMA TwoStatements ==
  ASSUME NEW a, NEW x \in Label, NEW y \in Label, Allowed(a, x), Allowed(a, y), Leads(x, y)
  PROVE  Runs(<<x, y>>, a, x, y)
<1>1. Runs(<<x>>, a, x, x) /\ Runs(<<y>>, a, y, y)
  BY OneStatement
<1>2. Runs(<<x>> \o <<y>>, a, x, y)
  BY <1>1, RunsOn
<1>3. <<x>> \o <<y>> = <<x, y>>
  <2>1. <<x>> \in Seq(Label) /\ <<y>> \in Seq(Label) /\ <<x, y>> \in Seq(Label)
    OBVIOUS
  <2>2. /\ <<x>> \o <<y>> \in Seq(Label) /\ Len(<<x>> \o <<y>>) = 2
        /\ (<<x>> \o <<y>>)[1] = x /\ (<<x>> \o <<y>>)[2] = y
    OBVIOUS
  <2>3. Len(<<x, y>>) = 2 /\ <<x, y>>[1] = x /\ <<x, y>>[2] = y
    OBVIOUS
  <2>4. \A i \in 1..2 : i = 1 \/ i = 2
    OBVIOUS
  <2> QED  BY <2>1, <2>2, <2>3, <2>4, SeqEqual
<1> QED  BY <1>2, <1>3

LEMMA ThreeStatements ==
  ASSUME NEW a, NEW x \in Label, NEW y \in Label, NEW z \in Label,
         Allowed(a, x), Allowed(a, y), Allowed(a, z), Leads(x, y), Leads(y, z)
  PROVE  Runs(<<x, y, z>>, a, x, z)
<1>1. Runs(<<x, y>>, a, x, y) /\ Runs(<<z>>, a, z, z)
  BY OneStatement, TwoStatements
<1>2. Runs(<<x, y>> \o <<z>>, a, x, z)
  BY <1>1, RunsOn
<1>3. <<x, y>> \o <<z>> = <<x, y, z>>
  <2>1. <<x, y>> \in Seq(Label) /\ <<z>> \in Seq(Label) /\ <<x, y, z>> \in Seq(Label)
    OBVIOUS
  <2>2. /\ <<x, y>> \o <<z>> \in Seq(Label) /\ Len(<<x, y>> \o <<z>>) = 3
        /\ (<<x, y>> \o <<z>>)[1] = x /\ (<<x, y>> \o <<z>>)[2] = y /\ (<<x, y>> \o <<z>>)[3] = z
    OBVIOUS
  <2>3. Len(<<x, y, z>>) = 3 /\ <<x, y, z>>[1] = x /\ <<x, y, z>>[2] = y /\ <<x, y, z>>[3] = z
    OBVIOUS
  <2>4. \A i \in 1..3 : i = 1 \/ i = 2 \/ i = 3
    OBVIOUS
  <2> QED  BY <2>1, <2>2, <2>3, <2>4, SeqEqual
<1> QED  BY <1>2, <1>3

-------------------------------------------------------------------------------
(* Rows and tables. *)

IsTable(table) == \A id \in DOMAIN table : id \in Docs \X Nat /\ table[id] \in ChunkRow
IsRegistry(rows) == DOMAIN rows \subseteq Docs /\ \A d \in DOMAIN rows : rows[d] \in DocRow

LEMMA StoreIsTables == StoreTypeOK <=> IsRegistry(registry) /\ IsTable(chunks) /\ IsTable(quarantine)
BY DEF StoreTypeOK, IsTable, IsRegistry

LEMMA PutIsTable ==
  ASSUME NEW table, IsTable(table), NEW id \in Docs \X Nat, NEW row \in ChunkRow
  PROVE  IsTable(Put(table, id, row))
BY DEF IsTable, Put

LEMMA WithoutIsTable ==
  ASSUME NEW table, IsTable(table), NEW keys
  PROVE  IsTable(Without(table, keys))
BY DEF IsTable, Without

LEMMA HiddenIsTable ==
  ASSUME NEW table, IsTable(table), NEW d
  PROVE  IsTable(Hidden(table, d))
<1>1. \A row \in ChunkRow : [row EXCEPT !.tombstone = TRUE] \in ChunkRow
  BY DEF ChunkRow
<1> QED  BY <1>1 DEF IsTable, Hidden

LEMMA PutIsRegistry ==
  ASSUME NEW rows, IsRegistry(rows), NEW d \in Docs, NEW row \in DocRow
  PROVE  IsRegistry(Put(rows, d, row))
BY DEF IsRegistry, Put

LEMMA WithParentsIsRegistry ==
  ASSUME IsRegistry(registry), NEW d \in Docs
  PROVE  IsRegistry(WithParents(d))
<1>1. StubDocument \in DocRow
  BY DEF StubDocument, DocRow
<1> QED  BY <1>1, PutIsRegistry DEF WithParents

LEMMA GetIsRow ==
  ASSUME IsRegistry(registry), NEW d
  PROVE  Get(d) \in DocRow \cup {NoDoc}
BY DEF IsRegistry, Get

LEMMA DecidedIsRow ==
  ASSUME NEW row \in ChunkRow, NEW action
  PROVE  /\ Decided(row, action) \in ChunkRow
         /\ Decided(row, action).content = row.content
         /\ Decided(row, action).edited = (row.edited \/ action = "edit_and_approve")
<1>1. /\ "manual_approved" \in Statuses /\ "review_required" \in Statuses
      /\ "rejected" \in Statuses
  BY DEF Statuses, BlockingStatuses
<1>2. \A status \in Statuses, edited, hidden \in BOOLEAN :
        LET new == [row EXCEPT !.status = status, !.edited = edited, !.tombstone = hidden]
        IN  new \in ChunkRow /\ new.content = row.content /\ new.edited = edited
  BY DEF ChunkRow
<1>3. row.edited \in BOOLEAN /\ row.tombstone \in BOOLEAN
  BY DEF ChunkRow
<1>4. CASE action \in {"approve", "edit_and_approve"}
  <2> DEFINE new == [row EXCEPT !.status = "manual_approved",
                                !.edited = @ \/ action = "edit_and_approve"]
  <2>1. Decided(row, action) = new
    BY <1>4 DEF Decided
  <2>2. new \in ChunkRow /\ new.content = row.content
        /\ new.edited = (row.edited \/ action = "edit_and_approve")
    BY <1>1, <1>3 DEF ChunkRow
  <2> QED  BY <2>1, <2>2
<1>5. CASE action = "reprocess"
  <2> DEFINE new == [row EXCEPT !.status = "review_required"]
  <2>1. Decided(row, action) = new
    BY <1>5 DEF Decided
  <2>2. new \in ChunkRow /\ new.content = row.content /\ new.edited = row.edited
    BY <1>1, <1>3 DEF ChunkRow
  <2> QED  BY <1>3, <1>5, <2>1, <2>2
<1>6. CASE action \notin {"approve", "edit_and_approve", "reprocess"}
  <2> DEFINE new == [row EXCEPT !.status = "rejected",
                                !.tombstone = @ \/ action = "mark_non_content"]
  <2>1. Decided(row, action) = new
    BY <1>6 DEF Decided
  <2>2. new \in ChunkRow /\ new.content = row.content /\ new.edited = row.edited
    BY <1>1, <1>3 DEF ChunkRow
  <2> QED  BY <1>3, <1>6, <2>1, <2>2
<1> QED  BY <1>4, <1>5, <1>6

LEMMA NewChunkIsRow ==
  ASSUME NEW c \in Contents
  PROVE  NewChunk(c) \in ChunkRow /\ NewChunk(c).content = c
<1>1. Quality[c] \in Statuses
  BY QualityAssumption DEF Statuses, BlockingStatuses
<1> QED  BY <1>1 DEF NewChunk, ChunkRow

-------------------------------------------------------------------------------
(* Steps of a process. *)

SameRequest(j, k) ==
  /\ j.d = k.d /\ j.c = k.c /\ j.meta = k.meta /\ j.arg = k.arg /\ j.id = k.id
  /\ j.chunk = k.chunk /\ j.draft = k.draft

LEMMA IdleIsJob == Idle \in Job
BY DEF Idle, Request, Job, Arg, Api

LEMMA NoProgram == \A a : Program(<< >>, a)
BY DEF Program

(* Only process p moves. *)
Moved(p, labels, locals) ==
  /\ todo'[p] = labels
  /\ labels # << >> => job'[p] = locals
  /\ \A q \in Procs \ {p} : todo'[q] = todo[q] /\ job'[q] = job[q]
  /\ ops' = ops

LEMMA MoveMoves ==
  ASSUME ProgramsInv, NEW p \in Procs, NEW labels, NEW locals, Move(p, labels, locals)
  PROVE  Moved(p, labels, locals)
BY DEF ProgramsInv, Move, Moved

LEMMA GoodMove ==
  ASSUME ProgramsInv, NEW p \in Procs, NEW labels, NEW locals \in Job,
         Move(p, labels, locals), Program(labels, locals.arg),
         labels # << >> => Bound(p, Head(labels), locals)
  PROVE  ProgramsInv'
<1>1. Moved(p, labels, locals)
  BY MoveMoves
<1>2. labels \in Seq(Label)
  BY DEF Program
<1>3. /\ todo' \in [Procs -> Seq(Label)] /\ job' \in [Procs -> Job]
  BY <1>2, IdleIsJob DEF Move, ProgramsInv
<1>4. Good(p, todo'[p], job'[p])
  <2>1. CASE labels = << >>
    <3>1. todo'[p] = << >> /\ job'[p] = Idle
      BY <2>1 DEF Move, ProgramsInv
    <3> QED  BY <3>1, IdleIsJob, NoProgram DEF Good
  <2>2. CASE labels # << >>
    BY <1>1, <2>2 DEF Moved, Good
  <2> QED  BY <2>1, <2>2
<1>5. \A q \in Procs : Good(q, todo'[q], job'[q])
  BY <1>1, <1>4 DEF Moved, ProgramsInv
<1> QED  BY <1>3, <1>5 DEF ProgramsInv

LEMMA BoundRemains ==
  ASSUME NEW p, NEW x, NEW j, Bound(p, x, j), x \notin {"decide", "publishable", "look"},
         NEW y, NEW k, SameRequest(k, j)
  PROVE  Bound(p, y, k)
BY DEF Bound, SameRequest

LEMMA GoesOn ==
  ASSUME ProgramsInv, NEW p \in Procs, todo[p] # << >>,
         Head(todo[p]) \notin {"decide", "publishable", "look"},
         NEW labels, Program(labels, job[p].arg),
         NEW locals \in Job, SameRequest(locals, job[p]), Move(p, labels, locals)
  PROVE  ProgramsInv'
<1>1. Bound(p, Head(todo[p]), job[p])
  BY DEF ProgramsInv, Good
<1>2. Bound(p, Head(labels), locals)
  BY <1>1, BoundRemains
<1>3. locals.arg = job[p].arg
  BY DEF SameRequest
<1> QED  BY <1>2, <1>3, GoodMove

LEMMA ContinuesOn ==
  ASSUME ProgramsInv, NEW p \in Procs, todo[p] # << >>,
         Head(todo[p]) \notin {"decide", "publishable", "look"},
         NEW locals \in Job, SameRequest(locals, job[p]), Continue(p, locals)
  PROVE  ProgramsInv'
<1>1. Program(todo[p], job[p].arg)
  BY DEF ProgramsInv, Good
<1>2. Program(Tail(todo[p]), job[p].arg)
  BY <1>1, TailOfProgram
<1> QED  BY <1>2, GoesOn DEF Continue

LEMMA Aborts ==
  ASSUME ProgramsInv, NEW p \in Procs, Abort(p)
  PROVE  ProgramsInv'
<1>1. job[p] \in Job
  BY DEF ProgramsInv
<1> QED  BY <1>1, GoodMove, NoProgram DEF Abort

LEMMA JobUpdates ==
  ASSUME NEW j \in Job
  PROVE  /\ SameRequest(j, j)
         /\ \A row \in DocRow \cup {NoDoc} :
              [j EXCEPT !.row = row] \in Job /\ SameRequest([j EXCEPT !.row = row], j)
         /\ \A k \in Nat :
              [j EXCEPT !.head = k] \in Job /\ SameRequest([j EXCEPT !.head = k], j)
         /\ [j EXCEPT !.n = @ + 1] \in Job /\ SameRequest([j EXCEPT !.n = @ + 1], j)
         /\ [j EXCEPT !.failed = TRUE] \in Job /\ SameRequest([j EXCEPT !.failed = TRUE], j)
<1>1. SameRequest(j, j)
  BY DEF SameRequest
<1>2. \A row \in DocRow \cup {NoDoc} :
        [j EXCEPT !.row = row] \in Job /\ SameRequest([j EXCEPT !.row = row], j)
  BY DEF Job, SameRequest
<1>3. \A k \in Nat :
        [j EXCEPT !.head = k] \in Job /\ SameRequest([j EXCEPT !.head = k], j)
  BY DEF Job, SameRequest
<1>4. j.n \in Nat /\ j.n + 1 \in Nat
  BY DEF Job
<1>5. [j EXCEPT !.n = @ + 1] \in Job /\ SameRequest([j EXCEPT !.n = @ + 1], j)
  BY <1>4 DEF Job, SameRequest
<1>6. [j EXCEPT !.failed = TRUE] \in Job /\ SameRequest([j EXCEPT !.failed = TRUE], j)
  BY DEF Job, SameRequest
<1> QED  BY <1>1, <1>2, <1>3, <1>5, <1>6

-------------------------------------------------------------------------------
(* The programs of the requests. *)

LEMMA TextProgram ==
  ASSUME NEW a \in Texts
  PROVE  Runs(IngestText, a, "existing", "put")
<1>1. /\ Runs(<<"existing", "purge">>, a, "existing", "purge")
      /\ Runs(<<"purge_quarantine", "embed", "put">>, a, "purge_quarantine", "put")
  <2>1. \A x \in {"existing", "purge", "purge_quarantine", "embed", "put"} :
          x \in Label /\ Allowed(a, x)
    BY DEF Label, Allowed, Texts, Ingests
  <2>2. /\ Leads("existing", "purge") /\ Leads("purge_quarantine", "embed")
        /\ Leads("embed", "put")
    BY DEF Leads
  <2> QED  BY <2>1, <2>2, TwoStatements, ThreeStatements
<1>2. Leads("purge", "purge_quarantine")
  BY DEF Leads
<1>3. IngestText = <<"existing", "purge">> \o <<"purge_quarantine", "embed", "put">>
  BY DEF IngestText
<1> QED  BY <1>1, <1>2, <1>3, RunsOn

LEMMA PictureProgram ==
  ASSUME NEW a \in Pictures
  PROVE  Runs(StoreVisual, a, "analyse", "put_visual") /\ Len(StoreVisual) = 6
<1>1. /\ Runs(<<"analyse", "purge", "purge_quarantine">>, a, "analyse", "purge_quarantine")
      /\ Runs(<<"split", "reread", "put_visual">>, a, "split", "put_visual")
  <2>1. \A x \in {"analyse", "purge", "purge_quarantine", "split", "reread", "put_visual"} :
          x \in Label /\ Allowed(a, x)
    BY DEF Label, Allowed, Pictures, Ingests
  <2>2. /\ Leads("analyse", "purge") /\ Leads("purge", "purge_quarantine")
        /\ Leads("split", "reread") /\ Leads("reread", "put_visual")
    BY DEF Leads
  <2> QED  BY <2>1, <2>2, ThreeStatements
<1>2. Leads("purge_quarantine", "split")
  BY DEF Leads
<1>3. StoreVisual = <<"analyse", "purge", "purge_quarantine">> \o <<"split", "reread", "put_visual">>
  BY DEF StoreVisual
<1>4. Len(StoreVisual) = 6
  BY DEF StoreVisual
<1> QED  BY <1>1, <1>2, <1>3, <1>4, RunsOn

LEMMA AttachProgram ==
  ASSUME NEW a \in Api, NEW meta
  PROVE  Program(Attach(meta), a) /\ (Attach(meta) # << >> => Attach(meta)[1] = "get")
<1>1. Allowed(a, "get") /\ Allowed(a, "put_meta") /\ Leads("get", "put_meta")
  BY DEF Allowed, Api, Leads
<1>2. "get" \in Label /\ "put_meta" \in Label
  BY DEF Label
<1>3. Runs(<<"get", "put_meta">>, a, "get", "put_meta")
  BY <1>1, <1>2, TwoStatements
<1> QED  BY <1>3, NoProgram DEF Attach, Runs

LEMMA AuditedProgram ==
  ASSUME NEW a \in Decisions \cup Drafting
  PROVE  Runs(Audited, a, "audit_read", "audit_write")
<1>1. Allowed(a, "audit_read") /\ Allowed(a, "audit_write") /\ Leads("audit_read", "audit_write")
  BY DEF Allowed, Leads
<1>2. "audit_read" \in Label /\ "audit_write" \in Label
  BY DEF Label
<1> QED  BY <1>1, <1>2, TwoStatements DEF Audited

LEMMA SaveMetaProgram ==
  ASSUME NEW a \in Decisions
  PROVE  Runs(SaveMeta, a, "get", "audit_write")
<1>1. Allowed(a, "get") /\ Allowed(a, "put_meta") /\ Leads("get", "put_meta")
  BY DEF Allowed, Leads
<1>2. "get" \in Label /\ "put_meta" \in Label /\ Leads("put_meta", "audit_read")
  BY DEF Label, Leads
<1>3. Runs(<<"get", "put_meta">>, a, "get", "put_meta")
  BY <1>1, <1>2, TwoStatements
<1> QED  BY <1>2, <1>3, AuditedProgram, RunsOn DEF SaveMeta

(* The writes of a text begin with the parents and end with an insertion. *)
LEMMA WritesProgram ==
  ASSUME NEW a \in Ingests, NEW c \in Contents
  PROVE  Runs(<<"parents">> \o Writes(c), a, "parents", "insert")
<1> DEFINE w == Writes(c)
           n == 2 * Pieces[c]
<1>1. Pieces[c] \in Nat /\ Pieces[c] >= 1
  BY PiecesAssumption
<1>2. n \in Nat /\ n >= 2 /\ n % 2 = 0
  BY <1>1
<1>3. /\ Len(w) = n /\ DOMAIN w = 1..n
      /\ \A i \in 1..n : w[i] = IF i % 2 = 1 THEN "clear" ELSE "insert"
  BY <1>2 DEF Writes
<1>4. "clear" \in Label /\ "insert" \in Label /\ "parents" \in Label
  BY DEF Label
<1>5. w \in Seq(Label)
  BY <1>2, <1>4 DEF Writes
<1> HIDE DEF w, n
<1>6. Program(w, a)
  <2>1. \A i \in 1..Len(w) : Allowed(a, w[i])
    <3>1. Allowed(a, "clear") /\ Allowed(a, "insert")
      BY DEF Allowed
    <3> QED  BY <1>3, <3>1
  <2>2. \A i \in 1..(Len(w) - 1) : Leads(w[i], w[i + 1])
    <3> SUFFICES ASSUME NEW i \in 1..(n - 1) PROVE Leads(w[i], w[i + 1])
      BY <1>3
    <3>1. i \in 1..n /\ i + 1 \in 1..n
      BY <1>2
    <3>2. CASE i % 2 = 1
      <4>1. (i + 1) % 2 # 1
        BY <3>2
      <4> QED  BY <1>3, <3>1, <3>2, <4>1 DEF Leads
    <3>3. CASE i % 2 # 1
      <4>1. (i + 1) % 2 = 1
        BY <3>3
      <4> QED  BY <1>3, <3>1, <3>3, <4>1 DEF Leads
    <3> QED  BY <3>2, <3>3
  <2> QED  BY <1>5, <2>1, <2>2 DEF Program
<1>7. w # << >> /\ w[1] = "clear" /\ w[Len(w)] = "insert"
  <2>1. 1 % 2 = 1 /\ n % 2 # 1 /\ 1 \in 1..n /\ n \in 1..n
    BY <1>2
  <2> QED  BY <1>2, <1>3, <2>1
<1>8. Allowed(a, "parents") /\ Leads("parents", "clear")
  BY DEF Allowed, Leads
<1>9. Runs(<<"parents">>, a, "parents", "parents") /\ Runs(w, a, "clear", "insert")
  BY <1>4, <1>6, <1>7, <1>8, OneStatement DEF Runs
<1> QED  BY <1>8, <1>9, RunsOn DEF w

(* The programs of an API ingest, of the worker and of a publication. *)
LEMMA IngestPrograms ==
  /\ \A meta : Program(RunText(meta), "ingest") /\ RunText(meta) # << >>
                /\ RunText(meta)[1] = "mark_running"
  /\ \A meta : Program(RunVisual(meta), "image") /\ RunVisual(meta) # << >>
                /\ RunVisual(meta)[1] = "mark_running"
  /\ Runs(RegisterPdf, "pdf", "get", "put_stub")
  /\ Runs(<<"mark_running">> \o IngestText \o <<"settle">>, "sync", "mark_running", "settle")
  /\ Runs(<<"mark_running">> \o StoreVisual \o <<"settle">>, "pages", "mark_running", "settle")
<1>1. \A x \in {"mark_running", "settle", "get", "put_ref", "put_stub", "put_meta"} : x \in Label
  BY DEF Label
<1>2. \A a \in {"ingest", "image"} :
        Allowed(a, "mark_running") /\ Allowed(a, "settle") /\ Allowed(a, "get") /\ Allowed(a, "put_ref")
  BY DEF Allowed, Api
<1>3. /\ \A a \in {"sync", "pages"} : Allowed(a, "mark_running") /\ Allowed(a, "settle")
      /\ Allowed("pdf", "get") /\ Allowed("pdf", "put_stub")
  BY DEF Allowed, Api
<1>4. /\ Leads("mark_running", "existing") /\ Leads("mark_running", "analyse")
      /\ Leads("put", "settle") /\ Leads("put_visual", "settle") /\ Leads("settle", "get") /\ Leads("get", "put_ref")
      /\ Leads("put_ref", "get") /\ Leads("get", "put_stub")
  BY DEF Leads
<1>5. \A a \in {"ingest", "image", "sync", "pages"} :
        /\ Runs(<<"mark_running">>, a, "mark_running", "mark_running")
        /\ Runs(<<"settle">>, a, "settle", "settle")
  BY <1>1, <1>2, <1>3, OneStatement
<1>6. \A a \in {"ingest", "image"} : Runs(<<"settle", "get", "put_ref">>, a, "settle", "put_ref")
  BY <1>1, <1>2, <1>4, ThreeStatements
<1>7. /\ \A a \in {"ingest", "sync"} : Runs(IngestText, a, "existing", "put")
      /\ \A a \in {"image", "pages"} : Runs(StoreVisual, a, "analyse", "put_visual")
  BY TextProgram, PictureProgram DEF Texts, Pictures
<1>8. /\ \A a \in {"ingest", "sync"} :
           Runs(<<"mark_running">> \o IngestText, a, "mark_running", "put")
      /\ \A a \in {"image", "pages"} :
           Runs(<<"mark_running">> \o StoreVisual, a, "mark_running", "put_visual")
  BY <1>4, <1>5, <1>7, RunsOn
<1>9. /\ Runs(<<"mark_running">> \o IngestText \o <<"settle", "get", "put_ref">>, "ingest",
              "mark_running", "put_ref")
      /\ Runs(<<"mark_running">> \o StoreVisual \o <<"settle", "get", "put_ref">>, "image",
              "mark_running", "put_ref")
      /\ Runs(<<"mark_running">> \o IngestText \o <<"settle">>, "sync", "mark_running", "settle")
      /\ Runs(<<"mark_running">> \o StoreVisual \o <<"settle">>, "pages", "mark_running", "settle")
  BY <1>4, <1>5, <1>6, <1>8, RunsOn
<1>10. Runs(RegisterPdf, "pdf", "get", "put_stub")
  BY <1>1, <1>3, <1>4, TwoStatements DEF RegisterPdf
<1>11. \A a \in {"ingest", "image"} : a \in Api
  BY DEF Api
<1>12. \A meta : Program(RunText(meta), "ingest") /\ RunText(meta) # << >>
                 /\ RunText(meta)[1] = "mark_running"
  BY <1>4, <1>9, <1>11, AttachProgram, RunsInto DEF RunText
<1>13. \A meta : Program(RunVisual(meta), "image") /\ RunVisual(meta) # << >>
                 /\ RunVisual(meta)[1] = "mark_running"
  BY <1>4, <1>9, <1>11, AttachProgram, RunsInto DEF RunVisual
<1> QED  BY <1>9, <1>10, <1>12, <1>13

LEMMA LabelsOfProgram ==
  ASSUME NEW j, j.arg \in Api
  PROVE  /\ Program(LabelsOf(j), j.arg)
         /\ LabelsOf(j) # << >> /\ LabelsOf(j)[1] \in {"mark_running", "get"}
         /\ Program(<<"requeue">> \o LabelsOf(j), j.arg)
         /\ <<"requeue">> \o LabelsOf(j) # << >> /\ (<<"requeue">> \o LabelsOf(j))[1] = "requeue"
<1>1. /\ Program(LabelsOf(j), j.arg)
      /\ LabelsOf(j) # << >> /\ LabelsOf(j)[1] \in {"mark_running", "get"}
  BY IngestPrograms DEF LabelsOf, Api, Runs
<1>2. Runs(<<"requeue">>, j.arg, "requeue", "requeue")
  <2>1. "requeue" \in Label /\ Allowed(j.arg, "requeue")
    BY DEF Label, Allowed, Api
  <2> QED  BY <2>1, OneStatement
<1>3. Leads("requeue", LabelsOf(j)[1])
  BY <1>1 DEF Leads
<1> QED  BY <1>1, <1>2, <1>3, RunsInto

LEMMA PublishProgram ==
  Runs(<<"publishable">> \o IngestText \o <<"get", "put_meta", "get", "put_ref">>
         \o Audited \o <<"save_draft">> \o Audited, "publish", "publishable", "audit_write")
<1>1. \A x \in {"publishable", "get", "put_meta", "put_ref", "save_draft"} :
        x \in Label /\ Allowed("publish", x)
  BY DEF Label, Allowed, Drafting
<1>2. /\ Leads("publishable", "existing") /\ Leads("put", "get") /\ Leads("get", "put_meta")
      /\ Leads("put_meta", "get") /\ Leads("get", "put_ref") /\ Leads("put_ref", "audit_read")
      /\ Leads("audit_write", "save_draft") /\ Leads("save_draft", "audit_read")
  BY DEF Leads
<1>3. "publish" \in Texts /\ "publish" \in Decisions \cup Drafting
  BY DEF Texts, Drafting
<1>4. /\ Runs(<<"publishable">>, "publish", "publishable", "publishable")
      /\ Runs(<<"save_draft">>, "publish", "save_draft", "save_draft")
      /\ Runs(<<"get", "put_meta">>, "publish", "get", "put_meta")
      /\ Runs(<<"get", "put_ref">>, "publish", "get", "put_ref")
  BY <1>1, <1>2, OneStatement, TwoStatements
<1>5. <<"get", "put_meta", "get", "put_ref">> = <<"get", "put_meta">> \o <<"get", "put_ref">>
  OBVIOUS
<1>6. Runs(<<"get", "put_meta", "get", "put_ref">>, "publish", "get", "put_ref")
  BY <1>2, <1>4, <1>5, RunsOn
<1>7. Runs(<<"publishable">> \o IngestText, "publish", "publishable", "put")
  BY <1>2, <1>3, <1>4, TextProgram, RunsOn
<1>8. Runs(<<"publishable">> \o IngestText \o <<"get", "put_meta", "get", "put_ref">>,
           "publish", "publishable", "put_ref")
  BY <1>2, <1>6, <1>7, RunsOn
<1>9. Runs(Audited, "publish", "audit_read", "audit_write")
  BY <1>3, AuditedProgram
<1>10. Runs(<<"publishable">> \o IngestText \o <<"get", "put_meta", "get", "put_ref">> \o Audited,
            "publish", "publishable", "audit_write")
  BY <1>2, <1>8, <1>9, RunsOn
<1>11. Runs(<<"publishable">> \o IngestText \o <<"get", "put_meta", "get", "put_ref">> \o Audited
              \o <<"save_draft">>, "publish", "publishable", "save_draft")
  BY <1>2, <1>4, <1>10, RunsOn
<1> QED  BY <1>2, <1>9, <1>11, RunsOn

LEMMA RequestPrograms ==
  /\ \A a \in Api : Runs(<<"create">>, a, "create", "create")
  /\ \A a \in Api : Runs(<<"already">>, a, "already", "already")
  /\ Runs(<<"get", "put_tombstone", "hide", "hide_quarantine", "purge", "purge_quarantine">>,
          "delete", "get", "purge_quarantine")
  /\ Runs(<<"legal">> \o SaveMeta, "transition", "legal", "audit_write")
  /\ Runs(<<"ready">> \o <<"legal">> \o SaveMeta, "transition", "ready", "audit_write")
  /\ Runs(<<"available", "ready", "ready", "legal">> \o SaveMeta, "transition",
          "available", "audit_write")
  /\ Runs(Audited \o <<"save_draft">>, "create", "audit_read", "save_draft")
  /\ \A a \in Rulings : Runs(<<"decide", "save_draft">> \o Audited, a, "decide", "audit_write")
<1>1. Runs(<<"get", "put_tombstone", "hide", "hide_quarantine", "purge", "purge_quarantine">>,
           "delete", "get", "purge_quarantine")
  <2>1. \A x \in {"get", "put_tombstone", "hide", "hide_quarantine", "purge", "purge_quarantine"} :
          x \in Label /\ Allowed("delete", x)
    BY DEF Label, Allowed, Ingests
  <2>2. /\ Leads("get", "put_tombstone") /\ Leads("put_tombstone", "hide")
        /\ Leads("hide", "hide_quarantine") /\ Leads("hide_quarantine", "purge")
        /\ Leads("purge", "purge_quarantine")
    BY DEF Leads
  <2>3. /\ Runs(<<"get", "put_tombstone", "hide">>, "delete", "get", "hide")
        /\ Runs(<<"hide_quarantine", "purge", "purge_quarantine">>, "delete",
                "hide_quarantine", "purge_quarantine")
    BY <2>1, <2>2, ThreeStatements
  <2>4. <<"get", "put_tombstone", "hide", "hide_quarantine", "purge", "purge_quarantine">>
          = <<"get", "put_tombstone", "hide">> \o <<"hide_quarantine", "purge", "purge_quarantine">>
    OBVIOUS
  <2> QED  BY <2>2, <2>3, <2>4, RunsOn
<1>2. /\ \A a \in Api : Runs(<<"create">>, a, "create", "create")
      /\ \A a \in Api : Runs(<<"already">>, a, "already", "already")
  <2>1. \A a \in Api, x \in {"create", "already"} : x \in Label /\ Allowed(a, x)
    BY DEF Label, Allowed, Api
  <2> QED  BY <2>1, OneStatement
<1>3. Runs(SaveMeta, "transition", "get", "audit_write")
  BY SaveMetaProgram DEF Decisions
<1>4. /\ \A x \in {"available", "ready", "legal"} : x \in Label /\ Allowed("transition", x)
      /\ Leads("available", "ready") /\ Leads("ready", "ready") /\ Leads("ready", "legal")
      /\ Leads("legal", "get")
  BY DEF Label, Allowed, Leads
<1>5. /\ Runs(<<"legal">>, "transition", "legal", "legal")
      /\ Runs(<<"ready">>, "transition", "ready", "ready")
      /\ Runs(<<"available", "ready">>, "transition", "available", "ready")
      /\ Runs(<<"ready", "legal">>, "transition", "ready", "legal")
  BY <1>4, OneStatement, TwoStatements
<1>6. <<"available", "ready", "ready", "legal">> = <<"available", "ready">> \o <<"ready", "legal">>
  OBVIOUS
<1>7. Runs(<<"available", "ready", "ready", "legal">>, "transition", "available", "legal")
  BY <1>4, <1>5, <1>6, RunsOn
<1>8. /\ Runs(<<"legal">> \o SaveMeta, "transition", "legal", "audit_write")
      /\ Runs(<<"available", "ready", "ready", "legal">> \o SaveMeta, "transition",
              "available", "audit_write")
      /\ Runs(<<"ready">> \o <<"legal">>, "transition", "ready", "legal")
  BY <1>3, <1>4, <1>5, <1>7, RunsOn
<1>9. Runs(<<"ready">> \o <<"legal">> \o SaveMeta, "transition", "ready", "audit_write")
  BY <1>3, <1>4, <1>8, RunsOn
<1>10. \A a \in Drafting : "save_draft" \in Label /\ Allowed(a, "save_draft")
  BY DEF Label, Allowed
<1>11. Runs(Audited \o <<"save_draft">>, "create", "audit_read", "save_draft")
  <2>1. "create" \in Drafting /\ Leads("audit_write", "save_draft")
    BY DEF Drafting, Leads
  <2>2. Runs(<<"save_draft">>, "create", "save_draft", "save_draft")
    BY <1>10, <2>1, OneStatement
  <2>3. Runs(Audited, "create", "audit_read", "audit_write")
    BY <2>1, AuditedProgram
  <2> QED  BY <2>1, <2>2, <2>3, RunsOn
<1>12. \A a \in Rulings : Runs(<<"decide", "save_draft">> \o Audited, a, "decide", "audit_write")
  <2>1. \A a \in Rulings : a \in Drafting /\ "decide" \in Label /\ Allowed(a, "decide")
    BY DEF Rulings, Drafting, Label, Allowed
  <2>2. Leads("decide", "save_draft") /\ Leads("save_draft", "audit_read")
    BY DEF Leads
  <2>3. \A a \in Rulings : Runs(<<"decide", "save_draft">>, a, "decide", "save_draft")
    BY <1>10, <2>1, <2>2, TwoStatements
  <2>4. \A a \in Rulings : Runs(Audited, a, "audit_read", "audit_write")
    BY <2>1, AuditedProgram
  <2> QED  BY <2>2, <2>3, <2>4, RunsOn
<1> QED  BY <1>1, <1>2, <1>8, <1>9, <1>11, <1>12

LEMMA ReviewPrograms ==
  /\ \A a \in ReviewActions :
       /\ Runs(<<"look">>, a, "look", "look")
       /\ Runs(<<"mark_quarantined">>, a, "mark_quarantined", "mark_quarantined")
       /\ Runs(<<"mark_chunk">>, a, "mark_chunk", "mark_chunk")
  /\ Runs(<<"parents", "clear_review", "insert_review">>, "edit_and_approve", "parents",
          "insert_review")
  /\ Runs(<<"promote", "unpark">>, "approve", "promote", "unpark")
<1>1. \A a \in ReviewActions, x \in {"look", "mark_quarantined", "mark_chunk"} :
        x \in Label /\ Allowed(a, x)
  BY DEF Label, Allowed
<1>2. \A x \in {"parents", "clear_review", "insert_review"} :
        x \in Label /\ Allowed("edit_and_approve", x)
  BY DEF Label, Allowed
<1>3. \A x \in {"promote", "unpark"} : x \in Label /\ Allowed("approve", x)
  BY DEF Label, Allowed
<1>4. /\ Leads("parents", "clear_review") /\ Leads("clear_review", "insert_review")
      /\ Leads("promote", "unpark")
  BY DEF Leads
<1> QED  BY <1>1, <1>2, <1>3, <1>4, OneStatement, TwoStatements, ThreeStatements

-------------------------------------------------------------------------------
(* Requests. *)

(* What is known of a request as it begins. *)
Asks(p, r, s) ==
  /\ Begin(p, r, s)
  /\ r \in Job /\ Program(s, r.arg) /\ s # << >> /\ Bound(p, Head(s), r)
  /\ Free(r.d) /\ r.row = NoDoc
  /\ r.arg \in ReviewActions => InReview(r.id)
  /\ \/ Head(s) \in {"create", "mark_running"} /\ r.arg \in Api \cup {"sync", "pages"}
     \/ Head(s) = "get" /\ r.arg \in {"delete", "import", "update"}
     \/ Head(s) \in {"legal", "ready", "available"} /\ r.arg = "transition"
     \/ Head(s) = "look" /\ r.arg \in ReviewActions
     \/ Head(s) = "audit_read" /\ r.arg = "create" /\ r.draft = NewDraft
     \/ Head(s) = "decide" /\ r.arg \in Rulings
     \/ Head(s) = "publishable" /\ r.arg = "publish"

LEMMA StatusNames ==
  /\ \A status \in {"draft", "approved", "obsolete"} : status \in ApprovalStatus
  /\ NewDraft \in Draft /\ NewDraft.status = "draft"
  /\ DOMAIN Sources = Rulings
  /\ \A status \in Rulings : status \in DraftStatus
BY DEF ApprovalStatus, LifecycleRank, NewDraft, Draft, DraftStatus, Sources, Rulings

LEMMA RequestIsJob ==
  ASSUME NEW d \in Docs
  PROVE  /\ Request(d) \in Job /\ Request(d).d = d /\ Request(d).row = NoDoc
BY DEF Request, Job, Arg, Api

LEMMA AuthorAsks ==
  ASSUME ControlInv, NEW p \in Servers, NEW d \in Docs, Free(d), Author(p, d)
  PROVE  \E r, s : Asks(p, r, s)
<1>1. CASE d \notin Artifacts /\ \E kind \in Api, c \in Contents, meta \in ApprovalStatus \cup {NoMeta} :
             ApiIngest(p, kind, d, c, meta) /\ (kind = "pdf" => meta = NoMeta)
  <2>1. PICK kind \in Api, c \in Contents, meta \in ApprovalStatus \cup {NoMeta} :
               ApiIngest(p, kind, d, c, meta) /\ (kind = "pdf" => meta = NoMeta)
    BY <1>1
  <2> DEFINE r == IngestRequest(kind, d, c, meta)
             s == <<"create">>
  <2>2. Begin(p, r, s)
    BY <2>1 DEF ApiIngest
  <2>3. /\ r \in Job /\ r.d = d /\ r.arg = kind /\ r.c = c /\ r.meta = meta /\ r.row = NoDoc
    BY DEF IngestRequest, Request, Job, Arg
  <2>4. Runs(s, kind, "create", "create") /\ Head(s) = "create"
    BY RequestPrograms
  <2>5. kind \notin ReviewActions \cup Decisions \cup Drafting
    BY DEF Api, ReviewActions, Decisions, Drafting, Rulings
  <2> HIDE DEF r, s
  <2>6. Bound(p, Head(s), r)
    BY <1>1, <2>1, <2>3, <2>5 DEF Bound, Api
  <2>7. Asks(p, r, s)
    BY <2>2, <2>3, <2>4, <2>5, <2>6 DEF Asks, Runs
  <2> QED  BY <2>7
<1>2. CASE Delete(p, d)
  <2> DEFINE r == [Request(d) EXCEPT !.arg = "delete"]
             s == <<"get", "put_tombstone", "hide", "hide_quarantine", "purge", "purge_quarantine">>
  <2>1. Begin(p, r, s)
    BY <1>2 DEF Delete
  <2>2. /\ r \in Job /\ r.d = d /\ r.arg = "delete" /\ r.row = NoDoc
    BY DEF Request, Job, Arg
  <2>3. Runs(s, "delete", "get", "purge_quarantine") /\ Head(s) = "get"
    BY RequestPrograms
  <2>4. "delete" \notin Api \cup Ingests \cup Decisions \cup Drafting \cup ReviewActions
    BY DEF Api, Ingests, Texts, Pictures, Decisions, Drafting, Rulings, ReviewActions
  <2> HIDE DEF r, s
  <2>5. Bound(p, Head(s), r)
    BY <2>2, <2>4 DEF Bound, Api, Ingests, Texts, Pictures
  <2>6. Asks(p, r, s)
    BY <2>1, <2>2, <2>3, <2>4, <2>5 DEF Asks, Runs
  <2> QED  BY <2>6
<1>3. Metas \subseteq ApprovalStatus
  BY KnowledgeBaseAssumption
<1> QED
  <2>1. CASE "ingest" \in Kinds /\ d \notin Artifacts
             /\ \E c \in Contents, meta \in Metas \cup {NoMeta} : ApiIngest(p, "ingest", d, c, meta)
    BY <1>1, <1>3, <2>1 DEF Api
  <2>2. CASE "visual" \in Kinds /\ d \notin Artifacts
             /\ \E c \in Contents, kind \in {"image", "pdf"} : ApiIngest(p, kind, d, c, NoMeta)
    BY <1>1, <2>2 DEF Api
  <2>3. CASE "delete" \in Kinds /\ Delete(p, d)
    BY <1>2, <2>3
  <2> QED  BY <2>1, <2>2, <2>3 DEF Author

LEMMA DecisionAsks ==
  ASSUME ControlInv, NEW p \in Servers, NEW d \in Docs, Free(d),
         NEW kind \in Decisions, NEW status \in ApprovalStatus, NEW s, NEW x, NEW y,
         Begin(p, Decision(d, kind, status), s), Runs(s, kind, x, y),
         IF kind = "transition" THEN x \in {"legal", "ready", "available"} ELSE x = "get"
  PROVE  Asks(p, Decision(d, kind, status), s)
<1> DEFINE r == Decision(d, kind, status)
<1>1. /\ r \in Job /\ r.d = d /\ r.arg = kind /\ r.meta = status /\ r.row = NoDoc
  BY DEF Decision, Request, Job, Arg
<1>2. kind \notin Api \cup Ingests \cup Drafting \cup ReviewActions
  BY DEF Api, Ingests, Texts, Pictures, Decisions, Drafting, Rulings, ReviewActions
<1> HIDE DEF r
<1>3. Bound(p, Head(s), r)
  BY <1>1, <1>2 DEF Bound, Api, Ingests, Texts, Pictures
<1>4. Head(s) = x /\ s # << >> /\ Program(s, kind)
  BY DEF Runs
<1>5. kind # "transition" => kind \in {"import", "update"}
  BY DEF Decisions
<1>6. Asks(p, r, s)
  BY <1>1, <1>2, <1>3, <1>4, <1>5 DEF Asks, r
<1> QED  BY <1>6 DEF r

LEMMA ApproverAsks ==
  ASSUME ControlInv, NEW p \in Servers, NEW d \in Docs, Free(d), Approver(p, d)
  PROVE  \E r, s : Asks(p, r, s)
<1>1. Metas \subseteq ApprovalStatus /\ "approved" \in ApprovalStatus
  BY KnowledgeBaseAssumption, StatusNames
<1>2. "transition" \in Decisions /\ "import" \in Decisions /\ "update" \in Decisions
  BY DEF Decisions
<1>3. ASSUME NEW status \in Metas, Transition(p, d, status)
      PROVE  \E r, s : Asks(p, r, s)
  <2> DEFINE s == (IF status = "approved" THEN <<"ready">> ELSE << >>) \o <<"legal">> \o SaveMeta
  <2>1. Begin(p, Decision(d, "transition", status), s)
    BY <1>3 DEF Transition
  <2>2. \E x \in {"legal", "ready"} : Runs(s, "transition", x, "audit_write")
    <3>1. CASE status = "approved"
      BY <3>1, RequestPrograms
    <3>2. CASE status # "approved"
      <4>1. s = << >> \o <<"legal">> \o SaveMeta
        BY <3>2
      <4>2. << >> \o <<"legal">> = <<"legal">>
        OBVIOUS
      <4> QED  BY <4>1, <4>2, RequestPrograms
    <3> QED  BY <3>1, <3>2
  <2> HIDE DEF s
  <2> QED  BY <1>1, <1>2, <2>1, <2>2, DecisionAsks
<1>4. ASSUME BatchApprove(p, d)
      PROVE  \E r, s : Asks(p, r, s)
  BY <1>1, <1>2, <1>4, RequestPrograms, DecisionAsks DEF BatchApprove
<1>5. ASSUME NEW status \in Metas, ImportExternal(p, d, status) \/ UpdateMetadata(p, d, status)
      PROVE  \E r, s : Asks(p, r, s)
  BY <1>1, <1>2, <1>5, SaveMetaProgram, DecisionAsks DEF ImportExternal, UpdateMetadata
<1>6. ASSUME NEW id \in {d} \X (0..1), NEW action \in ReviewActions, Review(p, id, action)
      PROVE  \E r, s : Asks(p, r, s)
  <2> DEFINE r == [Request(id[1]) EXCEPT !.arg = action, !.id = id]
             s == <<"look">>
  <2>1. Begin(p, r, s) /\ InReview(id)
    BY <1>6 DEF Review
  <2>2. id[1] = d /\ id \in Docs \X Nat
    OBVIOUS
  <2>3. /\ r \in Job /\ r.d = d /\ r.arg = action /\ r.id = id /\ r.row = NoDoc
    BY <2>2 DEF Request, Job, Arg
  <2>4. Runs(s, action, "look", "look") /\ Head(s) = "look"
    BY ReviewPrograms
  <2>5. action \notin Api \cup Ingests \cup Decisions \cup Drafting
    BY DEF Api, Ingests, Texts, Pictures, Decisions, Drafting, Rulings, ReviewActions
  <2> HIDE DEF r, s
  <2>6. Bound(p, Head(s), r)
    BY <2>2, <2>3, <2>4, <2>5 DEF Bound, Api, Ingests, Texts, Pictures
  <2>7. Asks(p, r, s)
    BY <2>1, <2>3, <2>4, <2>5, <2>6 DEF Asks, Runs
  <2> QED  BY <2>7
<1> QED  BY <1>3, <1>4, <1>5, <1>6 DEF Approver

LEMMA EditorAsks ==
  ASSUME ControlInv, NEW p \in Servers, NEW d \in Docs, Free(d), d \in Artifacts, Editor(p, d)
  PROVE  \E r, s : Asks(p, r, s)
<1>1. \A kind \in Drafting, draft \in {NoDoc, NewDraft} :
        LET r == [DraftRequest(d, kind) EXCEPT !.draft = draft]
        IN  /\ r \in Job /\ r.d = d /\ r.arg = kind /\ r.draft = draft /\ r.row = NoDoc
            /\ r.c = DraftText
  BY StatusNames, DraftAssumption DEF DraftRequest, Request, Job, Arg
<1>2. \A kind \in Drafting :
        LET r == DraftRequest(d, kind)
        IN  /\ r \in Job /\ r.d = d /\ r.arg = kind /\ r.row = NoDoc /\ r.c = DraftText
  BY StatusNames, DraftAssumption DEF DraftRequest, Request, Job, Arg
<1>3. \A kind \in Drafting :
        kind \notin Api \cup Pictures \cup {"sync"} \cup Decisions \cup ReviewActions
  BY DEF Api, Pictures, Decisions, Drafting, Rulings, ReviewActions
<1>4. DraftText \in Contents
  BY DraftAssumption
<1>5. CASE CreateDraft(p, d)
  <2> DEFINE r == [DraftRequest(d, "create") EXCEPT !.draft = NewDraft]
             s == Audited \o <<"save_draft">>
  <2>1. Begin(p, r, s)
    BY <1>5 DEF CreateDraft
  <2>2. "create" \in Drafting
    BY DEF Drafting
  <2>3. /\ r \in Job /\ r.d = d /\ r.arg = "create" /\ r.draft = NewDraft /\ r.row = NoDoc
        /\ r.c = DraftText
    BY <1>1, <2>2
  <2>4. Runs(s, "create", "audit_read", "save_draft")
    BY RequestPrograms
  <2> HIDE DEF r, s
  <2>5. Bound(p, Head(s), r)
    BY <1>3, <1>4, <2>2, <2>3, StatusNames DEF Bound, Api, Ingests, Texts, Pictures
  <2>6. Asks(p, r, s)
    BY <1>3, <2>1, <2>2, <2>3, <2>4, <2>5 DEF Asks, Runs
  <2> QED  BY <2>6
<1>6. ASSUME NEW status \in DOMAIN Sources, DecideDraft(p, d, status)
      PROVE  \E r, s : Asks(p, r, s)
  <2> DEFINE r == DraftRequest(d, status)
             s == <<"decide", "save_draft">> \o Audited
  <2>1. Begin(p, r, s)
    BY <1>6 DEF DecideDraft
  <2>2. status \in Drafting /\ status \in Rulings
    BY <1>6, StatusNames DEF Drafting
  <2>3. /\ r \in Job /\ r.d = d /\ r.arg = status /\ r.row = NoDoc /\ r.c = DraftText
    BY <1>2, <2>2
  <2>4. Runs(s, status, "decide", "audit_write")
    BY <2>2, RequestPrograms
  <2> HIDE DEF r, s
  <2>5. Head(s) = "decide" /\ s # << >> /\ Program(s, status)
    BY <2>4 DEF Runs
  <2>6. Bound(p, Head(s), r)
    BY <1>3, <1>4, <2>2, <2>3, <2>5 DEF Bound, Api, Ingests, Texts, Pictures
  <2>7. Asks(p, r, s)
    BY <1>3, <2>1, <2>2, <2>3, <2>5, <2>6 DEF Asks
  <2> QED  BY <2>7
<1>7. CASE Publish(p, d)
  <2> DEFINE r == DraftRequest(d, "publish")
             s == <<"publishable">> \o IngestText \o <<"get", "put_meta", "get", "put_ref">>
                    \o Audited \o <<"save_draft">> \o Audited
  <2>1. Begin(p, r, s)
    BY <1>7 DEF Publish
  <2>2. "publish" \in Drafting
    BY DEF Drafting
  <2>3. /\ r \in Job /\ r.d = d /\ r.arg = "publish" /\ r.row = NoDoc /\ r.c = DraftText
    BY <1>2, <2>2
  <2>4. Runs(s, "publish", "publishable", "audit_write")
    BY PublishProgram
  <2> HIDE DEF r, s
  <2>5. Head(s) = "publishable" /\ s # << >> /\ Program(s, "publish")
    BY <2>4 DEF Runs
  <2>6. Bound(p, Head(s), r)
    BY <1>3, <1>4, <2>2, <2>3, <2>5 DEF Bound, Api, Ingests, Texts, Pictures
  <2>7. Asks(p, r, s)
    BY <1>3, <2>1, <2>2, <2>3, <2>5, <2>6 DEF Asks
  <2> QED  BY <2>7
<1> QED  BY <1>5, <1>6, <1>7 DEF Editor

LEMMA WorkerAsks ==
  ASSUME ControlInv, NEW p \in Workers, NEW d \in Docs, Free(d), d \notin Artifacts,
         NEW c \in Contents, WorkerText(p, d, c) \/ WorkerPdf(p, d, c)
  PROVE  \E r, s : Asks(p, r, s)
<1>1. \A kind \in {"sync", "pages"} :
        LET r == IngestRequest(kind, d, c, NoMeta)
        IN  /\ r \in Job /\ r.d = d /\ r.arg = kind /\ r.c = c /\ r.row = NoDoc
            /\ \A x : Bound(p, x, r)
            /\ kind \notin ReviewActions
  <2> SUFFICES ASSUME NEW kind \in {"sync", "pages"}, NEW r, r = IngestRequest(kind, d, c, NoMeta)
               PROVE  /\ r \in Job /\ r.d = d /\ r.arg = kind /\ r.c = c /\ r.row = NoDoc
                      /\ \A x : Bound(p, x, r)
                      /\ kind \notin ReviewActions
    OBVIOUS
  <2>1. r \in Job /\ r.d = d /\ r.arg = kind /\ r.c = c /\ r.row = NoDoc
    BY DEF IngestRequest, Request, Job, Arg, Ingests, Texts, Pictures
  <2>2. kind \notin ReviewActions \cup Decisions \cup Drafting /\ kind # "pdf"
    BY DEF ReviewActions, Decisions, Drafting, Rulings
  <2> QED  BY <2>1, <2>2 DEF Bound
<1> DEFINE s == <<"mark_running">> \o IngestText \o <<"settle">>
           t == <<"mark_running">> \o StoreVisual \o <<"settle">>
<1>2. /\ Runs(s, "sync", "mark_running", "settle") /\ Runs(t, "pages", "mark_running", "settle")
  BY IngestPrograms
<1>3. \/ Begin(p, IngestRequest("sync", d, c, NoMeta), s)
      \/ Begin(p, IngestRequest("pages", d, c, NoMeta), t)
  BY DEF WorkerText, WorkerPdf
<1> HIDE DEF s, t
<1>4. CASE Begin(p, IngestRequest("sync", d, c, NoMeta), s)
  <2>1. Asks(p, IngestRequest("sync", d, c, NoMeta), s)
    BY <1>1, <1>2, <1>4 DEF Asks, Runs
  <2> QED  BY <2>1
<1>5. CASE Begin(p, IngestRequest("pages", d, c, NoMeta), t)
  <2>1. Asks(p, IngestRequest("pages", d, c, NoMeta), t)
    BY <1>1, <1>2, <1>5 DEF Asks, Runs
  <2> QED  BY <2>1
<1> QED  BY <1>3, <1>4, <1>5

LEMMA AskAsks ==
  ASSUME ControlInv, Ask
  PROVE  \E p \in Procs : \E r, s : Asks(p, r, s)
<1>1. PICK d \in Docs :
        /\ Free(d)
        /\ \/ \E p \in Servers : Author(p, d) \/ Approver(p, d)
           \/ \E p \in Servers : d \in Artifacts /\ Editor(p, d)
           \/ \E p \in Workers, c \in Contents :
                d \notin Artifacts /\ (WorkerText(p, d, c) \/ WorkerPdf(p, d, c))
  BY DEF Ask
<1>2. Servers \subseteq Procs /\ Workers \subseteq Procs
  BY KnowledgeBaseAssumption DEF Workers
<1> QED  BY <1>1, <1>2, AuthorAsks, ApproverAsks, EditorAsks, WorkerAsks

-------------------------------------------------------------------------------
(* Types are kept and programs are followed. *)

LEMMA AtKnows ==
  ASSUME ProgramsInv, NEW p \in Procs, NEW x, At(p, x)
  PROVE  /\ todo[p] # << >> /\ Head(todo[p]) = x /\ job[p] \in Job
         /\ x \in Label /\ Allowed(job[p].arg, x) /\ Bound(p, x, job[p])
         /\ Program(todo[p], job[p].arg) /\ Program(Tail(todo[p]), job[p].arg)
         /\ Tail(todo[p]) # << >> => Leads(x, Head(Tail(todo[p])))
<1>1. /\ todo[p] # << >> /\ Head(todo[p]) = x /\ job[p] \in Job
      /\ Program(todo[p], job[p].arg) /\ Bound(p, x, job[p])
  BY DEF At, ProgramsInv, Good
<1> QED  BY <1>1, TailOfProgram

LEMMA ArgsOfLabels ==
  ASSUME NEW a, NEW x, Allowed(a, x)
  PROVE  /\ x \in {"create", "already", "requeue", "mark_running", "settle", "existing", "embed",
                   "analyse", "split", "reread", "clear", "insert", "put", "put_visual", "put_stub"}
              => a \in Ingests \cup Api
         /\ x \in {"create", "already", "requeue"} => a \in Api
         /\ x \in {"clear", "insert", "put", "put_visual", "existing", "embed", "split"}
              => a \in Ingests
         /\ x \in {"look", "promote", "unpark", "clear_review", "insert_review",
                   "mark_quarantined", "mark_chunk"} => a \in ReviewActions
         /\ x \in {"decide", "publishable", "save_draft"} => a \in Drafting
BY DEF Allowed, Api, Ingests, Texts, Pictures, ReviewActions, Drafting, Rulings

LEMMA MarkIsTyped ==
  ASSUME ControlInv, NEW p \in Procs, NEW x, At(p, x), job[p].arg \in Ingests \cup Api,
         NEW status \in RunStatus, Mark(p, status)
  PROVE  /\ runs' \in [Docs \X Contents -> RunStatus]
         /\ processing' \in [Docs -> RunStatus]
<1>1. job[p].d \in Docs /\ job[p].c \in Contents
  BY AtKnows DEF ControlInv, Bound
<1>2. /\ runs \in [Docs \X Contents -> RunStatus] /\ processing \in [Docs -> RunStatus]
  BY DEF ControlInv, TypeOK
<1> QED  BY <1>1, <1>2 DEF Mark

(* What a step on tables and programs has to keep. *)
StepIsTyped ==
  /\ ProgramsInv' /\ ops' = ops
  /\ IsRegistry(registry') /\ IsTable(chunks') /\ IsTable(quarantine')
  /\ runs' \in [Docs \X Contents -> RunStatus] /\ processing' \in [Docs -> RunStatus]

LEMMA TablesAreTyped ==
  ASSUME ControlInv
  PROVE  /\ IsRegistry(registry) /\ IsTable(chunks) /\ IsTable(quarantine)
         /\ runs \in [Docs \X Contents -> RunStatus] /\ processing \in [Docs -> RunStatus]
         /\ ProgramsInv
BY StoreIsTables DEF ControlInv, TypeOK

(* Steps that change no table. *)
LEMMA QuietStepIsTyped ==
  ASSUME ControlInv, NEW p \in Procs,
         \/ Create(p) \/ Already(p) \/ Requeue(p) \/ MarkRunning(p) \/ Settle(p)
         \/ Analyse(p) \/ ReadExisting(p) \/ Read(p) \/ Split(p) \/ EmbedFails(p)
         \/ AuditRead(p) \/ AuditWrite(p) \/ Available(p) \/ Ready(p) \/ Legal(p) \/ SaveDraft(p),
         audit \in Seq(Nat)
  PROVE  StepIsTyped /\ UNCHANGED tables
<1> DEFINE j == job[p]
           a == job[p].arg
<1>1. /\ IsRegistry(registry) /\ IsTable(chunks) /\ IsTable(quarantine)
      /\ runs \in [Docs \X Contents -> RunStatus] /\ processing \in [Docs -> RunStatus]
      /\ ProgramsInv
  BY TablesAreTyped
<1>2. \A x : At(p, x) =>
        /\ todo[p] # << >> /\ Head(todo[p]) = x /\ j \in Job
        /\ x \in Label /\ Allowed(a, x) /\ Bound(p, x, j)
        /\ Program(todo[p], a) /\ Program(Tail(todo[p]), a)
  BY <1>1, AtKnows
<1>3. SUFFICES ProgramsInv' /\ ops' = ops /\ UNCHANGED tables
               /\ runs' \in [Docs \X Contents -> RunStatus] /\ processing' \in [Docs -> RunStatus]
  BY <1>1 DEF tables, StepIsTyped
<1>4. ASSUME NEW x, At(p, x), x \notin {"decide", "publishable", "look"}, Continue(p, j)
      PROVE  ProgramsInv' /\ ops' = ops
  BY <1>1, <1>2, <1>4, JobUpdates, ContinuesOn DEF Continue, Move
<1>5. ASSUME NEW x, At(p, x), x \notin {"decide", "publishable", "look"},
             NEW labels, Program(labels, a), Move(p, labels, j)
      PROVE  ProgramsInv' /\ ops' = ops
  BY <1>1, <1>2, <1>5, JobUpdates, GoesOn DEF Move
<1>6. ASSUME Abort(p)
      PROVE  ProgramsInv' /\ ops' = ops
  BY <1>1, <1>6, Aborts DEF Abort, Move
<1>7. \A status \in {"queued", "running", "failed", "succeeded"} : status \in RunStatus
  BY DEF RunStatus
<1>8. CASE Create(p)
  <2>1. At(p, "create") /\ a \in Api
    BY <1>2, <1>8, ArgsOfLabels DEF Create
  <2>2. /\ Program(<<"already">>, a) /\ Program(LabelsOf(j), a)
        /\ Program(<<"requeue">> \o LabelsOf(j), a)
    BY <2>1, RequestPrograms, LabelsOfProgram DEF Runs
  <2>3. ProgramsInv' /\ ops' = ops
    BY <1>5, <1>8, <2>1, <2>2 DEF Create
  <2>4. UNCHANGED tables
    BY <1>8 DEF Create
  <2>5. runs' \in [Docs \X Contents -> RunStatus] /\ processing' \in [Docs -> RunStatus]
    BY <1>1, <1>7, <1>8, <2>1, MarkIsTyped DEF Create, runTables
  <2> QED  BY <2>3, <2>4, <2>5
<1>9. CASE Already(p)
  <2>1. At(p, "already") /\ a \in Api
    BY <1>2, <1>9, ArgsOfLabels DEF Already
  <2>2. /\ Program(Attach(j.meta), a) /\ Program(<<"requeue">> \o LabelsOf(j), a)
    BY <2>1, AttachProgram, LabelsOfProgram
  <2>3. ProgramsInv' /\ ops' = ops
    BY <1>5, <1>9, <2>1, <2>2 DEF Already
  <2> QED  BY <1>1, <1>9, <2>3 DEF Already, runTables
<1>10. CASE Requeue(p) \/ MarkRunning(p)
  <2>1. PICK x \in {"requeue", "mark_running"}, status \in {"queued", "running"} :
          At(p, x) /\ Mark(p, status) /\ Continue(p, j) /\ UNCHANGED tables
    BY <1>10 DEF Requeue, MarkRunning
  <2>2. a \in Ingests \cup Api
    BY <1>2, <2>1, ArgsOfLabels
  <2> QED  BY <1>4, <1>7, <2>1, <2>2, MarkIsTyped
<1>11. CASE Settle(p)
  <2>1. At(p, "settle") /\ a \in Ingests \cup Api
    BY <1>2, <1>11, ArgsOfLabels DEF Settle
  <2>2. ProgramsInv' /\ ops' = ops
    BY <1>4, <1>6, <1>11, <2>1 DEF Settle
  <2>3. runs' \in [Docs \X Contents -> RunStatus] /\ processing' \in [Docs -> RunStatus]
    BY <1>7, <1>11, <2>1, MarkIsTyped DEF Settle
  <2> QED  BY <1>11, <2>2, <2>3 DEF Settle
<1>12. CASE Analyse(p)
  <2>1. At(p, "analyse") /\ UNCHANGED <<tables, runTables>>
    BY <1>12 DEF Analyse
  <2>2. CASE Continue(p, j)
    BY <1>1, <1>4, <2>1, <2>2 DEF runTables
  <2>3. CASE Move(p, SubSeq(todo[p], Len(StoreVisual) + 1, Len(todo[p])),
                  [j EXCEPT !.failed = TRUE])
    <3>1. Program(SubSeq(todo[p], Len(StoreVisual) + 1, Len(todo[p])), a)
      <4>1. Len(StoreVisual) \in Nat
        BY DEF StoreVisual
      <4> QED  BY <1>2, <2>1, <4>1, RestOfProgram
    <3>2. [j EXCEPT !.failed = TRUE] \in Job /\ SameRequest([j EXCEPT !.failed = TRUE], j)
      BY <1>2, <2>1, JobUpdates
    <3>3. ProgramsInv'
      BY <1>1, <1>2, <2>1, <2>3, <3>1, <3>2, GoesOn
    <3> QED  BY <1>1, <2>1, <2>3, <3>3 DEF runTables, Move
  <2> QED  BY <1>12, <2>2, <2>3 DEF Analyse
<1>13. CASE ReadExisting(p)
  <2>1. At(p, "existing") /\ UNCHANGED <<tables, runTables>>
    BY <1>13 DEF ReadExisting
  <2>2. CASE Skip(p, Len(IngestText))
    <3>1. Program(SubSeq(todo[p], Len(IngestText) + 1, Len(todo[p])), a)
      <4>1. Len(IngestText) \in Nat
        BY DEF IngestText
      <4> QED  BY <1>2, <2>1, <4>1, RestOfProgram
    <3> QED  BY <1>1, <1>5, <2>1, <2>2, <3>1 DEF Skip, runTables
  <2>3. CASE Continue(p, [j EXCEPT !.row = Get(j.d)])
    <3>1. /\ [j EXCEPT !.row = Get(j.d)] \in Job /\ SameRequest([j EXCEPT !.row = Get(j.d)], j)
      BY <1>1, <1>2, <2>1, GetIsRow, JobUpdates
    <3>2. ProgramsInv'
      BY <1>1, <1>2, <2>1, <2>3, <3>1, ContinuesOn
    <3> QED  BY <1>1, <2>1, <2>3, <3>2 DEF runTables, Continue, Move
  <2> QED  BY <1>13, <2>2, <2>3 DEF ReadExisting
<1>14. CASE Read(p)
  <2>1. PICK x \in {"get", "reread"} : At(p, x)
    BY <1>14 DEF Read
  <2>2. /\ [j EXCEPT !.row = Get(j.d)] \in Job /\ SameRequest([j EXCEPT !.row = Get(j.d)], j)
    BY <1>1, <1>2, <2>1, GetIsRow, JobUpdates
  <2>3. ProgramsInv'
    BY <1>1, <1>2, <1>14, <2>1, <2>2, ContinuesOn DEF Read
  <2> QED  BY <1>1, <1>14, <2>3 DEF Read, runTables, Continue, Move
<1>15. CASE Split(p)
  <2>1. PICK x \in {"embed", "split"} : At(p, x)
    BY <1>15 DEF Split
  <2>2. a \in Ingests /\ j.c \in Contents
    <3>1. a \in Ingests
      BY <1>2, <2>1, ArgsOfLabels
    <3> QED  BY <1>2, <2>1, <3>1 DEF Bound
  <2> DEFINE w == <<"parents">> \o Writes(j.c)
  <2>3. Runs(w, a, "parents", "insert")
    BY <2>2, WritesProgram
  <2>4. Tail(todo[p]) # << >> => Leads("insert", Tail(todo[p])[1])
    <3>1. Tail(todo[p]) # << >> => Leads(x, Head(Tail(todo[p])))
      BY <1>1, <2>1, AtKnows
    <3>2. Tail(todo[p]) # << >> => Head(Tail(todo[p])) = Tail(todo[p])[1]
      BY <1>2, <2>1 DEF Program
    <3> QED  BY <3>1, <3>2 DEF Leads
  <2> HIDE DEF w
  <2>5. Program(w \o Tail(todo[p]), a)
    BY <1>2, <2>1, <2>3, <2>4, RunsInto
  <2>6. ProgramsInv' /\ ops' = ops
    BY <1>5, <1>15, <2>1, <2>5 DEF Split, w
  <2> QED  BY <1>1, <1>15, <2>6 DEF Split, runTables
<1>16. CASE EmbedFails(p)
  <2>1. At(p, "embed")
    BY <1>16 DEF EmbedFails
  <2>2. Program(SubSeq(todo[p], 2 + 1, Len(todo[p])), a)
    BY <1>2, <2>1, RestOfProgram
  <2>3. [j EXCEPT !.failed = TRUE] \in Job /\ SameRequest([j EXCEPT !.failed = TRUE], j)
    BY <1>2, <2>1, JobUpdates
  <2>4. ProgramsInv'
    BY <1>1, <1>2, <1>16, <2>1, <2>2, <2>3, GoesOn DEF EmbedFails
  <2> QED  BY <1>1, <1>16, <2>4 DEF EmbedFails, runTables, Move
<1>17. CASE AuditRead(p)
  <2>1. At(p, "audit_read")
    BY <1>17 DEF AuditRead
  <2>2. Len(audit) \in Nat
    OBVIOUS
  <2>3. /\ [j EXCEPT !.head = Len(audit)] \in Job /\ SameRequest([j EXCEPT !.head = Len(audit)], j)
    BY <1>2, <2>1, <2>2, JobUpdates
  <2>4. ProgramsInv'
    BY <1>1, <1>2, <1>17, <2>1, <2>3, ContinuesOn DEF AuditRead
  <2> QED  BY <1>1, <1>17, <2>4 DEF AuditRead, runTables, Continue, Move
<1>18. CASE AuditWrite(p) \/ SaveDraft(p)
  <2>1. PICK x \in {"audit_write", "save_draft"} :
          At(p, x) /\ Continue(p, j) /\ UNCHANGED <<tables, runTables>>
    BY <1>18 DEF AuditWrite, SaveDraft
  <2> QED  BY <1>1, <1>4, <2>1 DEF runTables
<1>19. CASE Available(p) \/ Ready(p) \/ Legal(p)
  <2>1. PICK x \in {"available", "ready", "legal"} :
          At(p, x) /\ (Continue(p, j) \/ Abort(p)) /\ UNCHANGED <<tables, runTables>>
    BY <1>19 DEF Available, Ready, Legal, Check
  <2> QED  BY <1>1, <1>4, <1>6, <2>1 DEF runTables
<1> QED  BY <1>8, <1>9, <1>10, <1>11, <1>12, <1>13, <1>14, <1>15, <1>16, <1>17, <1>18, <1>19

(* Steps that change a table. *)
LEMMA WriteIsTyped ==
  ASSUME ControlInv, NEW p \in Procs,
         \/ Purge(p) \/ PurgeQuarantine(p) \/ Parents(p) \/ Clear(p) \/ Insert(p) \/ Register(p)
         \/ PutRef(p) \/ PutMeta(p) \/ PutStub(p) \/ PutTombstone(p) \/ Hide(p) \/ HideQuarantine(p)
         \/ Promote(p) \/ Unpark(p) \/ InsertReview(p) \/ MarkReviewed(p)
  PROVE  StepIsTyped
<1> DEFINE j == job[p]
           a == job[p].arg
<1>1. /\ IsRegistry(registry) /\ IsTable(chunks) /\ IsTable(quarantine)
      /\ runs \in [Docs \X Contents -> RunStatus] /\ processing \in [Docs -> RunStatus]
      /\ ProgramsInv
  BY TablesAreTyped
<1>2. \A x : At(p, x) =>
        /\ todo[p] # << >> /\ Head(todo[p]) = x /\ j \in Job
        /\ x \in Label /\ Allowed(a, x) /\ Bound(p, x, j)
  BY <1>1, AtKnows
<1>3. SUFFICES /\ ProgramsInv' /\ ops' = ops /\ UNCHANGED runTables
               /\ IsRegistry(registry') /\ IsTable(chunks') /\ IsTable(quarantine')
  BY <1>1 DEF runTables, StepIsTyped
<1>4. ASSUME NEW x, At(p, x), x \notin {"decide", "publishable", "look"}, Continue(p, j)
      PROVE  ProgramsInv' /\ ops' = ops
  BY <1>1, <1>2, <1>4, JobUpdates, ContinuesOn DEF Continue, Move
<1>5. j.row \in DocRow \cup {NoDoc}
  BY <1>1 DEF ProgramsInv, Job
<1>6. ASSUME NEW x, x \notin {"decide", "publishable", "look"}, NEW row, WriteBack(p, x, row),
             j.row # NoDoc => row \in DocRow
      PROVE  /\ ProgramsInv' /\ ops' = ops /\ UNCHANGED runTables
             /\ IsRegistry(registry') /\ IsTable(chunks') /\ IsTable(quarantine')
  <2>1. At(p, x) /\ Continue(p, j) /\ UNCHANGED <<chunks, quarantine, runTables>>
    BY <1>6 DEF WriteBack
  <2>2. j.d \in Docs
    BY <1>2, <2>1 DEF Bound
  <2>3. IsRegistry(registry')
    BY <1>1, <1>6, <2>2, PutIsRegistry DEF WriteBack
  <2> QED  BY <1>1, <1>4, <1>6, <2>1, <2>3
<1>7. CASE Purge(p)
  BY <1>1, <1>4, <1>7, WithoutIsTable DEF Purge, Purged
<1>8. CASE PurgeQuarantine(p)
  BY <1>1, <1>4, <1>8, WithoutIsTable DEF PurgeQuarantine, Purged
<1>9. CASE Parents(p)
  <2>1. At(p, "parents") /\ j.d \in Docs
    BY <1>2, <1>9 DEF Parents, Bound
  <2> QED  BY <1>1, <1>4, <1>9, <2>1, WithParentsIsRegistry DEF Parents
<1>10. CASE Clear(p)
  BY <1>1, <1>4, <1>10, WithoutIsTable DEF Clear
<1>11. CASE Insert(p)
  <2>1. At(p, "insert")
    BY <1>11 DEF Insert
  <2>2. a \in Ingests
    BY <1>2, <2>1, ArgsOfLabels
  <2>3. j.d \in Docs /\ j.c \in Contents /\ j.n \in Nat
    BY <1>2, <2>1, <2>2 DEF Bound, Job
  <2>4. ChunkId(p) \in Docs \X Nat /\ NewChunk(j.c) \in ChunkRow
    BY <2>3, NewChunkIsRow DEF ChunkId
  <2>5. IsTable(chunks') /\ IsTable(quarantine')
    BY <1>1, <1>11, <2>4, PutIsTable DEF Insert
  <2>6. [j EXCEPT !.n = @ + 1] \in Job /\ SameRequest([j EXCEPT !.n = @ + 1], j)
    BY <1>2, <2>1, JobUpdates
  <2>7. ProgramsInv'
    BY <1>1, <1>2, <1>11, <2>1, <2>6, ContinuesOn DEF Insert
  <2> QED  BY <1>1, <1>11, <2>5, <2>7 DEF Insert, Continue, Move
<1>12. CASE Register(p)
  <2> DEFINE old == j.row
             row == [version |-> IF old = NoDoc THEN 1 ELSE old.version + 1,
                     checksum |-> j.c,
                     mfg |-> IF old = NoDoc THEN NoMeta ELSE old.mfg,
                     current |-> TRUE, tombstone |-> FALSE]
  <2>1. PICK x \in {"put", "put_visual"} : At(p, x)
    BY <1>12 DEF Register
  <2>2. a \in Ingests
    BY <1>2, <2>1, ArgsOfLabels
  <2>3. j.d \in Docs /\ j.c \in Contents
    BY <1>2, <2>1, <2>2 DEF Bound
  <2>4. row \in DocRow
    <3>1. old # NoDoc => old.version \in Nat /\ old.mfg \in ApprovalStatus \cup {NoMeta}
      BY <1>5 DEF DocRow
    <3>2. (IF old = NoDoc THEN 1 ELSE old.version + 1) \in Nat
      BY <3>1
    <3>3. (IF old = NoDoc THEN NoMeta ELSE old.mfg) \in ApprovalStatus \cup {NoMeta}
      BY <3>1
    <3> QED  BY <2>3, <3>2, <3>3 DEF DocRow
  <2>5. registry' = Put(registry, j.d, row)
    BY <1>12 DEF Register
  <2> HIDE DEF row
  <2>6. IsRegistry(registry')
    BY <1>1, <2>3, <2>4, <2>5, PutIsRegistry
  <2> QED  BY <1>1, <1>4, <1>12, <2>1, <2>6 DEF Register
<1>13. CASE PutRef(p)
  BY <1>5, <1>6, <1>13 DEF PutRef
<1>14. CASE PutMeta(p)
  <2>1. PICK row : row = [j.row EXCEPT !.mfg = j.meta] /\ WriteBack(p, "put_meta", row)
    BY <1>14 DEF PutMeta
  <2>2. j \in Job
    BY <1>2, <2>1 DEF WriteBack
  <2>3. j.row # NoDoc => row \in DocRow
    BY <1>5, <2>1, <2>2 DEF Job, DocRow
  <2> QED  BY <1>6, <2>1, <2>3
<1>15. CASE PutStub(p)
  <2> DEFINE old == IF j.row = NoDoc THEN StubDocument ELSE j.row
             row == [old EXCEPT !.checksum = j.c, !.tombstone = FALSE,
                                !.mfg = IF j.meta = NoMeta THEN @ ELSE j.meta]
  <2>1. At(p, "put_stub")
    BY <1>15 DEF PutStub
  <2>2. a \in Ingests \cup Api
    BY <1>2, <2>1, ArgsOfLabels
  <2>3. j.d \in Docs /\ j.c \in Contents /\ j.meta \in ApprovalStatus \cup {NoMeta}
    BY <1>2, <2>1, <2>2 DEF Bound, Job
  <2>4. old \in DocRow
    <3>1. StubDocument \in DocRow
      BY DEF StubDocument, DocRow
    <3> QED  BY <1>5, <3>1
  <2>5. row \in DocRow
    <3> HIDE DEF old
    <3>1. (IF j.meta = NoMeta THEN old.mfg ELSE j.meta) \in ApprovalStatus \cup {NoMeta}
      BY <2>3, <2>4 DEF DocRow
    <3> QED  BY <2>3, <2>4, <3>1 DEF DocRow
  <2>6. registry' = Put(registry, j.d, row)
    BY <1>15 DEF PutStub
  <2> HIDE DEF row
  <2>7. IsRegistry(registry')
    BY <1>1, <2>3, <2>5, <2>6, PutIsRegistry
  <2> QED  BY <1>1, <1>4, <1>15, <2>7 DEF PutStub
<1>16. CASE PutTombstone(p)
  <2>1. PICK row : row = [j.row EXCEPT !.tombstone = TRUE] /\ WriteBack(p, "put_tombstone", row)
    BY <1>16 DEF PutTombstone
  <2>2. j.row # NoDoc => row \in DocRow
    BY <1>5, <2>1 DEF DocRow
  <2> QED  BY <1>6, <2>1, <2>2
<1>17. CASE Hide(p)
  BY <1>1, <1>4, <1>17, HiddenIsTable DEF Hide
<1>18. CASE HideQuarantine(p)
  BY <1>1, <1>4, <1>18, HiddenIsTable DEF HideQuarantine
<1>19. \A x \in {"promote", "unpark", "clear_review", "insert_review", "mark_quarantined", "mark_chunk"} :
         At(p, x) => j.id \in Docs \X Nat /\ j.chunk \in ChunkRow
  BY <1>2, ArgsOfLabels DEF Bound
<1>20. CASE Promote(p)
  <2>1. At(p, "promote") /\ UNCHANGED <<registry, quarantine, runTables>>
    BY <1>20 DEF Promote
  <2>2. CASE j.id \in DOMAIN quarantine
    <3> DEFINE row == [j.chunk EXCEPT !.content = quarantine[j.id].content,
                                      !.edited = quarantine[j.id].edited]
    <3>1. chunks' = Put(chunks, j.id, row) /\ Continue(p, j)
      BY <1>20, <2>2 DEF Promote
    <3>2. row \in ChunkRow
      BY <1>1, <1>19, <2>1, <2>2 DEF IsTable, ChunkRow
    <3> HIDE DEF row
    <3> QED  BY <1>1, <1>4, <1>19, <2>1, <3>1, <3>2, PutIsTable
  <2>3. CASE j.id \notin DOMAIN quarantine
    <3>1. Abort(p) /\ UNCHANGED chunks
      BY <1>20, <2>3 DEF Promote
    <3> QED  BY <1>1, <2>1, <3>1, Aborts DEF Abort, Move
  <2> QED  BY <2>2, <2>3
<1>21. CASE Unpark(p)
  <2>1. PICK x \in {"unpark", "clear_review"} : At(p, x)
    BY <1>21 DEF Unpark
  <2> QED  BY <1>1, <1>4, <1>21, <2>1, WithoutIsTable DEF Unpark
<1>22. CASE InsertReview(p)
  <2>1. At(p, "insert_review")
    BY <1>22 DEF InsertReview
  <2> QED  BY <1>1, <1>4, <1>19, <1>22, <2>1, PutIsTable DEF InsertReview
<1>23. CASE MarkReviewed(p)
  <2>1. \A table : IsTable(table) /\ j.id \in Docs \X Nat => IsTable(Decide(table, j.id, a))
    <3> SUFFICES ASSUME NEW table, IsTable(table), j.id \in Docs \X Nat
                 PROVE  IsTable(Decide(table, j.id, a))
      OBVIOUS
    <3>1. j.id \in DOMAIN table => Decided(table[j.id], a) \in ChunkRow
      BY DecidedIsRow DEF IsTable
    <3> QED  BY <3>1, PutIsTable DEF Decide
  <2>2. PICK x \in {"mark_quarantined", "mark_chunk"} : At(p, x)
    BY <1>23 DEF MarkReviewed
  <2>3. IsTable(chunks') /\ IsTable(quarantine')
    BY <1>1, <1>19, <1>23, <2>1, <2>2 DEF MarkReviewed
  <2> QED  BY <1>1, <1>4, <1>23, <2>2, <2>3 DEF MarkReviewed
<1> QED  BY <1>7, <1>8, <1>9, <1>10, <1>11, <1>12, <1>13, <1>14, <1>15, <1>16, <1>17, <1>18,
            <1>20, <1>21, <1>22, <1>23

(* Steps that settle what the rest of a request will write. *)
LEMMA JudgementIsTyped ==
  ASSUME ControlInv, NEW p \in Procs, Look(p) \/ DecideStep(p) \/ Publishable(p)
  PROVE  StepIsTyped /\ UNCHANGED tables
<1> DEFINE j == job[p]
           a == job[p].arg
<1>1. /\ IsRegistry(registry) /\ IsTable(chunks) /\ IsTable(quarantine)
      /\ runs \in [Docs \X Contents -> RunStatus] /\ processing \in [Docs -> RunStatus]
      /\ ProgramsInv
  BY TablesAreTyped
<1>2. \A x : At(p, x) =>
        /\ todo[p] # << >> /\ Head(todo[p]) = x /\ j \in Job
        /\ x \in Label /\ Allowed(a, x) /\ Bound(p, x, j)
        /\ Program(Tail(todo[p]), a)
  BY <1>1, AtKnows
<1>3. SUFFICES ProgramsInv' /\ ops' = ops /\ UNCHANGED <<tables, runTables>>
  BY <1>1 DEF runTables, tables, StepIsTyped
<1>4. ASSUME Abort(p)
      PROVE  ProgramsInv' /\ ops' = ops
  BY <1>1, <1>4, Aborts DEF Abort, Move
<1>5. CASE Look(p)
  <2> DEFINE id == j.id
             parked == id \in DOMAIN quarantine
             row == IF parked THEN quarantine[id] ELSE chunks[id]
             rewrite == <<"parents", "clear_review", "insert_review">>
             k == [j EXCEPT !.chunk = Decided(row, a)]
  <2>1. At(p, "look") /\ UNCHANGED <<tables, runTables>>
    BY <1>5 DEF Look
  <2>2. a \in ReviewActions
    BY <1>2, <2>1, ArgsOfLabels
  <2>3. CASE ~InReview(id)
    BY <1>4, <1>5, <2>1, <2>3 DEF Look
  <2>4. CASE InReview(id)
    <3>1. PICK labels \in {<<"mark_quarantined">>, rewrite, <<"promote", "unpark">>, <<"mark_chunk">>} :
            /\ Move(p, labels, k)
            /\ labels = rewrite => a = "edit_and_approve"
            /\ labels = <<"promote", "unpark">> => a = "approve"
      BY <1>5, <2>4 DEF Look
    <3>2. row \in ChunkRow
      BY <1>1, <2>4 DEF IsTable, InReview
    <3>3. Decided(row, a) \in ChunkRow
      BY <3>2, DecidedIsRow
    <3> HIDE DEF row
    <3>4. k \in Job
      BY <1>2, <2>1, <3>3 DEF Job
    <3>5. /\ k.d = j.d /\ k.c = j.c /\ k.meta = j.meta /\ k.arg = a /\ k.id = j.id
          /\ k.chunk = Decided(row, a) /\ k.draft = j.draft
      BY <1>2, <2>1 DEF Job
    <3>6. a \notin Drafting
      BY <2>2 DEF ReviewActions, Drafting, Rulings
    <3> HIDE DEF k
    <3>7. \A x : Bound(p, x, k)
      BY <1>2, <2>1, <3>3, <3>5, <3>6 DEF Bound
    <3>8. Program(labels, a)
      BY <2>2, <3>1, ReviewPrograms DEF Runs
    <3>9. ProgramsInv'
      BY <1>1, <3>1, <3>4, <3>5, <3>7, <3>8, GoodMove
    <3> QED  BY <2>1, <3>1, <3>9 DEF Move
  <2> QED  BY <2>3, <2>4
<1>6. ASSUME NEW x \in {"decide", "publishable"}, At(p, x), NEW draft \in Draft,
             Continue(p, [j EXCEPT !.draft = draft])
      PROVE  ProgramsInv' /\ ops' = ops
  <2> DEFINE k == [j EXCEPT !.draft = draft]
  <2>1. k \in Job
    BY <1>2, <1>6 DEF Job
  <2>2. /\ k.d = j.d /\ k.c = j.c /\ k.meta = j.meta /\ k.arg = a /\ k.id = j.id
        /\ k.chunk = j.chunk /\ k.draft = draft
    BY <1>2, <1>6 DEF Job
  <2>3. a \in Drafting
    BY <1>2, <1>6, ArgsOfLabels
  <2>4. a \notin ReviewActions
    BY <2>3 DEF ReviewActions, Drafting, Rulings
  <2>5. Continue(p, k)
    BY <1>6
  <2> HIDE DEF k
  <2>6. \A y : Bound(p, y, k)
    BY <1>2, <1>6, <2>2, <2>4 DEF Bound
  <2>7. Program(Tail(todo[p]), k.arg)
    BY <1>2, <1>6, <2>2
  <2>8. ProgramsInv'
    BY <1>1, <2>1, <2>5, <2>6, <2>7, GoodMove DEF Continue
  <2> QED  BY <2>5, <2>8 DEF Continue, Move
<1>7. \A d \in DOMAIN drafts : drafts[d] \in Draft
  BY DEF ControlInv, TypeOK
<1>8. CASE DecideStep(p)
  <2>1. At(p, "decide") /\ UNCHANGED <<tables, runTables>>
    BY <1>8 DEF DecideStep
  <2>2. CASE j.d \in DOMAIN drafts /\ drafts[j.d].status \in Sources[a]
    <3>1. Continue(p, [j EXCEPT !.draft = [drafts[j.d] EXCEPT !.status = a]])
      BY <1>8, <2>2 DEF DecideStep
    <3>2. a \in DraftStatus
      BY <1>2, <2>1, StatusNames DEF Allowed
    <3>3. [drafts[j.d] EXCEPT !.status = a] \in Draft
      BY <1>7, <2>2, <3>2 DEF Draft
    <3> QED  BY <1>6, <2>1, <3>1, <3>3
  <2>3. CASE ~(j.d \in DOMAIN drafts /\ drafts[j.d].status \in Sources[a])
    BY <1>4, <1>8, <2>1, <2>3 DEF DecideStep
  <2> QED  BY <2>2, <2>3
<1>9. CASE Publishable(p)
  <2>1. At(p, "publishable") /\ UNCHANGED <<tables, runTables>>
    BY <1>9 DEF Publishable
  <2>2. CASE j.d \in DOMAIN drafts /\ ~drafts[j.d].published /\ drafts[j.d].status = "approved"
    <3>1. Continue(p, [j EXCEPT !.draft = [drafts[j.d] EXCEPT !.published = TRUE]])
      BY <1>9, <2>2 DEF Publishable
    <3>2. [drafts[j.d] EXCEPT !.published = TRUE] \in Draft
      BY <1>7, <2>2 DEF Draft
    <3> QED  BY <1>6, <2>1, <3>1, <3>2
  <2>3. CASE ~(j.d \in DOMAIN drafts /\ ~drafts[j.d].published /\ drafts[j.d].status = "approved")
    BY <1>4, <1>9, <2>1, <2>3 DEF Publishable
  <2> QED  BY <2>2, <2>3
<1> QED  BY <1>5, <1>8, <1>9

LEMMA StepKeepsControl ==
  ASSUME ControlInv, NEW p \in Procs, Serve(p)
  PROVE  ControlInv'
<1>1. /\ IsRegistry(registry) /\ IsTable(chunks) /\ IsTable(quarantine)
      /\ runs \in [Docs \X Contents -> RunStatus] /\ processing \in [Docs -> RunStatus]
      /\ ProgramsInv /\ audit \in Seq(Nat) /\ consented \subseteq Artifacts
  BY TablesAreTyped DEF ControlInv
<1>2. StepIsTyped
  BY <1>1, QuietStepIsTyped, WriteIsTyped, JudgementIsTyped
     DEF Serve, IngestStep, LifecycleStep, DraftStep
<1>3. StoreTypeOK'
  BY <1>2 DEF StepIsTyped, StoreTypeOK, IsRegistry, IsTable
<1>4. \A q \in Procs : todo'[q] # << >> => job'[q].d \in Docs
  BY <1>2 DEF StepIsTyped, ProgramsInv, Good, Bound
<1>5. audit' \in Seq(Nat)
  <2>1. CASE AuditWrite(p)
    <3>1. job[p].head \in Nat
      BY <1>1 DEF ProgramsInv, Job
    <3> QED  BY <1>1, <2>1, <3>1 DEF AuditWrite
  <2>2. CASE ~AuditWrite(p)
    <3>1. audit' = audit
      BY <2>2 DEF Serve, LifecycleStep, DraftStep, AuditRead, DecideStep, Publishable, SaveDraft
    <3> QED  BY <1>1, <3>1
  <2> QED  BY <2>1, <2>2
<1>6. consented' \subseteq Artifacts
  <2>1. At(p, "save_draft") => job[p].d \in Artifacts
    BY <1>1, AtKnows, ArgsOfLabels DEF Bound
  <2> QED  BY <1>1, <2>1 DEF Serve, Remember
<1>7. \A d \in DOMAIN drafts' : d \in Artifacts /\ drafts'[d] \in Draft
  <2>1. \A d \in DOMAIN drafts : d \in Artifacts /\ drafts[d] \in Draft
    BY DEF ControlInv, TypeOK
  <2>2. CASE SaveDraft(p)
    <3>1. job[p].d \in Artifacts /\ job[p].draft \in Draft
      BY <1>1, <2>2, AtKnows, ArgsOfLabels DEF SaveDraft, Bound
    <3>2. drafts' = Put(drafts, job[p].d, job[p].draft)
      BY <2>2 DEF SaveDraft
    <3> QED  BY <2>1, <3>1, <3>2 DEF Put
  <2>3. CASE ~SaveDraft(p)
    <3>1. drafts' = drafts
      BY <2>3 DEF Serve, DraftStep, DecideStep, Publishable
    <3> QED  BY <2>1, <3>1
  <2> QED  BY <2>2, <2>3
<1>8. ops' \in 0..MaxOps
  BY <1>2 DEF StepIsTyped, ControlInv, TypeOK
<1> QED  BY <1>2, <1>3, <1>4, <1>5, <1>6, <1>7, <1>8 DEF ControlInv, TypeOK, StepIsTyped

LEMMA BeginsWell ==
  ASSUME ControlInv, NEW p \in Procs, NEW r, NEW s, Asks(p, r, s)
  PROVE  /\ ProgramsInv'
         /\ todo[p] = << >> /\ todo'[p] = s /\ job'[p] = r
         /\ \A q \in Procs \ {p} : todo'[q] = todo[q] /\ job'[q] = job[q]
         /\ UNCHANGED <<tables, runTables>>
         /\ ops' \in 0..MaxOps
<1>1. /\ Begin(p, r, s) /\ r \in Job /\ Program(s, r.arg) /\ s # << >> /\ Bound(p, Head(s), r)
  BY DEF Asks
<1>2. /\ todo \in [Procs -> Seq(Label)] /\ job \in [Procs -> Job]
      /\ \A q \in Procs : Good(q, todo[q], job[q])
      /\ ops \in 0..MaxOps
  BY DEF ControlInv, ProgramsInv, TypeOK
<1>3. /\ todo[p] = << >> /\ todo'[p] = s /\ job'[p] = r
      /\ \A q \in Procs \ {p} : todo'[q] = todo[q] /\ job'[q] = job[q]
      /\ UNCHANGED <<tables, runTables>>
  BY <1>1, <1>2 DEF Begin
<1>4. s \in Seq(Label)
  BY <1>1 DEF Program
<1>5. todo' \in [Procs -> Seq(Label)] /\ job' \in [Procs -> Job]
  BY <1>1, <1>2, <1>4 DEF Begin
<1>6. Good(p, s, r)
  BY <1>1 DEF Good
<1>7. \A q \in Procs : Good(q, todo'[q], job'[q])
  BY <1>2, <1>3, <1>6
<1>8. ops' \in 0..MaxOps
  <2>1. ops < MaxOps /\ ops' = ops + 1
    BY <1>1 DEF Begin
  <2> QED  BY <1>2, <2>1, MaxOpsAssumption
<1> QED  BY <1>3, <1>5, <1>7, <1>8 DEF ProgramsInv

LEMMA InitControl == Init => ControlInv
<1> SUFFICES ASSUME Init PROVE ControlInv
  OBVIOUS
<1>1. /\ todo = [p \in Procs |-> << >>] /\ job = [p \in Procs |-> Idle]
      /\ registry = << >> /\ chunks = << >> /\ quarantine = << >>
      /\ runs = [k \in Docs \X Contents |-> "none"]
      /\ processing = [d \in Docs |-> "none"] /\ ops = 0
      /\ audit = << >> /\ drafts = << >> /\ consented = {}
  BY DEF Init, IngestInit, StoreInit
<1>2. ProgramsInv
  <2>1. \A p \in Procs : Good(p, << >>, Idle)
    BY NoProgram, IdleIsJob DEF Good
  <2> QED  BY <1>1, <2>1, IdleIsJob DEF ProgramsInv
<1>3. DOMAIN << >> = {}
  OBVIOUS
<1>4. StoreTypeOK
  BY <1>1, <1>3 DEF StoreTypeOK
<1>5. TypeOK
  BY <1>1, <1>3, <1>4, MaxOpsAssumption DEF TypeOK, RunStatus
<1> QED  BY <1>1, <1>2, <1>3, <1>5 DEF ControlInv

LEMMA NextControl == ControlInv /\ [Next]_vars => ControlInv'
<1> SUFFICES ASSUME ControlInv, [Next]_vars PROVE ControlInv'
  OBVIOUS
<1>1. CASE Ask
  <2>1. PICK p \in Procs : \E r, s : Asks(p, r, s)
    BY <1>1, AskAsks
  <2>2. PICK r, s : Asks(p, r, s)
    BY <2>1
  <2>3. /\ ProgramsInv' /\ ops' \in 0..MaxOps /\ UNCHANGED <<tables, runTables>>
    BY <2>2, BeginsWell
  <2>4. UNCHANGED <<audit, drafts, consented>>
    BY <1>1 DEF Ask
  <2>5. TypeOK'
    BY <2>3, <2>4 DEF ControlInv, TypeOK, StoreTypeOK, tables, runTables, ProgramsInv, Good, Bound
  <2> QED  BY <2>3, <2>4, <2>5 DEF ControlInv
<1>2. ASSUME NEW p \in Procs, Serve(p) PROVE ControlInv'
  BY <1>2, StepKeepsControl
<1>3. ASSUME NEW p \in Procs, Die(p) PROVE ControlInv'
  <2>1. Abort(p) /\ UNCHANGED <<tables, runTables, audit, drafts, consented>>
    BY <1>3 DEF Die, Crash, history
  <2>2. ProgramsInv' /\ ops' = ops
    BY <2>1, Aborts DEF ControlInv, Abort, Move
  <2>3. TypeOK'
    BY <2>1, <2>2 DEF ControlInv, TypeOK, StoreTypeOK, tables, runTables, ProgramsInv, Good, Bound
  <2> QED  BY <2>1, <2>2, <2>3 DEF ControlInv
<1>4. CASE UNCHANGED vars
  BY <1>4 DEF vars, tables, control, runTables, history, ControlInv, TypeOK, StoreTypeOK,
              ProgramsInv
<1> QED  BY <1>1, <1>2, <1>3, <1>4 DEF Next

(* TypeOK is an invariant, with the programs it rests on. *)
LEMMA ControlInvariant == Spec => []ControlInv
<1>1. Init => ControlInv
  BY InitControl
<1>2. ControlInv /\ [Next]_vars => ControlInv'
  BY NextControl
<1> QED  BY <1>1, <1>2, PTL DEF Spec

(* The tables and the locals of every process keep their types, whatever is *)
(* asked for and whenever a process dies.                                   *)
THEOREM KnowledgeBaseTypes == Spec => []TypeOK
<1>1. ControlInv => TypeOK
  BY DEF ControlInv
<1> QED  BY <1>1, ControlInvariant, PTL

-------------------------------------------------------------------------------
(* A step of a process touches the rows of its own document only. *)

SameRow(old, new, d) ==
  /\ d \in DOMAIN new <=> d \in DOMAIN old
  /\ d \in DOMAIN old => new[d] = old[d]
SameRows(old, new, d) ==
  /\ IdsOf(new, d) = IdsOf(old, d)
  /\ \A id \in IdsOf(old, d) : new[id] = old[id]
SameDocument(d) ==
  /\ SameRow(registry, registry', d)
  /\ SameRows(chunks, chunks', d)
  /\ SameRows(quarantine, quarantine', d)

LEMMA PutElsewhere ==
  ASSUME NEW table, NEW id, NEW row, NEW d, id[1] # d
  PROVE  SameRows(table, Put(table, id, row), d)
BY DEF SameRows, Put, IdsOf

LEMMA WithoutElsewhere ==
  ASSUME NEW table, NEW keys, NEW d, \A id \in keys : id[1] # d
  PROVE  SameRows(table, Without(table, keys), d)
BY DEF SameRows, Without, IdsOf

LEMMA PurgedElsewhere ==
  ASSUME NEW table, NEW e, NEW d, e # d
  PROVE  SameRows(table, Purged(table, e), d)
<1>1. \A id \in IdsOf(table, e) : id[1] # d
  BY DEF IdsOf
<1> QED  BY <1>1, WithoutElsewhere DEF Purged

LEMMA HiddenElsewhere ==
  ASSUME NEW table, NEW e, NEW d, e # d
  PROVE  SameRows(table, Hidden(table, e), d)
BY DEF SameRows, Hidden, IdsOf

LEMMA DecideElsewhere ==
  ASSUME NEW table, NEW id, NEW action, NEW d, id[1] # d
  PROVE  SameRows(table, Decide(table, id, action), d)
<1>1. SameRows(table, table, d)
  BY DEF SameRows
<1> QED  BY <1>1, PutElsewhere DEF Decide

LEMMA PutRowElsewhere ==
  ASSUME NEW rows, NEW e, NEW row, NEW d, e # d
  PROVE  SameRow(rows, Put(rows, e, row), d)
BY DEF SameRow, Put

LEMMA NothingElsewhere ==
  ASSUME NEW d
  PROVE  \A t : SameRows(t, t, d) /\ SameRow(t, t, d)
BY DEF SameRows, SameRow

LEMMA WritesElsewhere ==
  ASSUME ControlInv, NEW p \in Procs,
         \/ Purge(p) \/ PurgeQuarantine(p) \/ Parents(p) \/ Clear(p) \/ Insert(p) \/ Register(p)
         \/ PutRef(p) \/ PutMeta(p) \/ PutStub(p) \/ PutTombstone(p) \/ Hide(p) \/ HideQuarantine(p)
         \/ Promote(p) \/ Unpark(p) \/ InsertReview(p) \/ MarkReviewed(p),
         NEW d, d # job[p].d
  PROVE  SameDocument(d)
<1> DEFINE j == job[p]
<1>1. \A t : SameRows(t, t, d) /\ SameRow(t, t, d)
  BY NothingElsewhere
<1>2. /\ registry' = registry => SameRow(registry, registry', d)
      /\ chunks' = chunks => SameRows(chunks, chunks', d)
      /\ quarantine' = quarantine => SameRows(quarantine, quarantine', d)
  BY <1>1
<1>3. \A row : SameRow(registry, Put(registry, j.d, row), d)
  BY PutRowElsewhere
<1>4. ChunkId(p)[1] # d
  BY DEF ChunkId
<1>5. \A x \in {"promote", "unpark", "clear_review", "insert_review", "mark_quarantined", "mark_chunk"} :
        At(p, x) => j.id[1] # d
  <2> SUFFICES ASSUME NEW x \in {"promote", "unpark", "clear_review", "insert_review",
                                 "mark_quarantined", "mark_chunk"}, At(p, x)
               PROVE  j.id[1] = j.d
    OBVIOUS
  <2>1. Allowed(j.arg, x) /\ Bound(p, x, j)
    BY AtKnows, TablesAreTyped
  <2> QED  BY <2>1, ArgsOfLabels DEF Bound
<1>6. CASE Purge(p) \/ PurgeQuarantine(p) \/ Hide(p) \/ HideQuarantine(p)
  BY <1>2, <1>6, PurgedElsewhere, HiddenElsewhere
     DEF Purge, PurgeQuarantine, Hide, HideQuarantine, SameDocument
<1>7. CASE Parents(p)
  <2>1. SameRow(registry, registry', d)
    BY <1>1, <1>3, <1>7 DEF Parents, WithParents
  <2> QED  BY <1>2, <1>7, <2>1 DEF Parents, SameDocument
<1>8. CASE Clear(p)
  <2>1. \A t : SameRows(t, Without(t, {ChunkId(p)}), d)
    BY <1>4, WithoutElsewhere
  <2> QED  BY <1>2, <1>8, <2>1 DEF Clear, SameDocument
<1>9. CASE Insert(p)
  <2>1. \A t, row : SameRows(t, Put(t, ChunkId(p), row), d)
    BY <1>4, PutElsewhere
  <2> QED  BY <1>2, <1>9, <2>1 DEF Insert, SameDocument
<1>10. CASE Register(p) \/ PutStub(p)
  <2>1. SameRow(registry, registry', d)
    BY <1>3, <1>10 DEF Register, PutStub
  <2> QED  BY <1>2, <1>10, <2>1 DEF Register, PutStub, SameDocument
<1>11. CASE PutRef(p) \/ PutMeta(p) \/ PutTombstone(p)
  <2>1. PICK x, row : WriteBack(p, x, row)
    BY <1>11 DEF PutRef, PutMeta, PutTombstone
  <2>2. SameRow(registry, registry', d)
    BY <1>1, <1>3, <2>1 DEF WriteBack
  <2> QED  BY <1>2, <2>1, <2>2 DEF WriteBack, SameDocument
<1>12. CASE Promote(p)
  <2>1. j.id[1] # d
    BY <1>5, <1>12 DEF Promote
  <2>2. \A row : SameRows(chunks, Put(chunks, j.id, row), d)
    BY <2>1, PutElsewhere
  <2>3. SameRows(chunks, chunks', d)
    BY <1>1, <1>12, <2>2 DEF Promote
  <2> QED  BY <1>2, <1>12, <2>3 DEF Promote, SameDocument
<1>13. CASE Unpark(p)
  <2>1. \A id \in {j.id} : id[1] # d
    BY <1>5, <1>13 DEF Unpark
  <2>2. SameRows(quarantine, Without(quarantine, {j.id}), d)
    BY <2>1, WithoutElsewhere
  <2> QED  BY <1>2, <1>13, <2>2 DEF Unpark, SameDocument
<1>14. CASE InsertReview(p)
  <2>1. SameRows(chunks, chunks', d)
    BY <1>5, <1>14, PutElsewhere DEF InsertReview
  <2> QED  BY <1>2, <1>14, <2>1 DEF InsertReview, SameDocument
<1>15. CASE MarkReviewed(p)
  <2>1. j.id[1] # d
    BY <1>5, <1>15 DEF MarkReviewed
  <2>2. \A t : SameRows(t, Decide(t, j.id, j.arg), d)
    BY <2>1, DecideElsewhere
  <2> QED  BY <1>2, <1>15, <2>2 DEF MarkReviewed, SameDocument
<1> QED  BY <1>6, <1>7, <1>8, <1>9, <1>10, <1>11, <1>12, <1>13, <1>14, <1>15

LEMMA QuietElsewhere ==
  ASSUME UNCHANGED tables, NEW d
  PROVE  SameDocument(d)
BY NothingElsewhere DEF tables, SameDocument

LEMMA StepElsewhere ==
  ASSUME ControlInv, NEW p \in Procs, Serve(p), NEW d, d # job[p].d
  PROVE  /\ SameDocument(d)
         /\ d \in deleted' <=> d \in deleted
         /\ d \in torn' <=> d \in torn
         /\ d \in withdrawn' <=> d \in withdrawn
         /\ d \in consented' <=> d \in consented
<1>1. SameDocument(d)
  <2>1. audit \in Seq(Nat)
    BY DEF ControlInv
  <2> QED  BY <2>1, QuietStepIsTyped, JudgementIsTyped, WritesElsewhere, QuietElsewhere
              DEF Serve, IngestStep, LifecycleStep, DraftStep
<1>2. Remember(p)
  BY DEF Serve
<1>3. d \in deleted' <=> d \in deleted
  BY <1>2 DEF Remember
<1>4. d \in torn' <=> d \in torn
  BY <1>2 DEF Remember
<1>5. d \in withdrawn' <=> d \in withdrawn
  BY <1>2 DEF Remember
<1>6. d \in consented' <=> d \in consented
  BY <1>2 DEF Remember
<1> QED  BY <1>1, <1>3, <1>4, <1>5, <1>6

-------------------------------------------------------------------------------
(* A step of a process changes little of what its request is about. *)

(* What the locals of p become: those of before, but for one field. *)
NextLocals(p) ==
  LET j == job[p]
      k == job'[p]
  IN  /\ k.d = j.d /\ k.c = j.c /\ k.meta = j.meta /\ k.arg = j.arg /\ k.id = j.id
      /\ \/ k.row = j.row
         \/ At(p, "existing") /\ k.row = Get(j.d)
         \/ (At(p, "get") \/ At(p, "reread")) /\ k.row = Get(j.d)
      /\ At(p, "get") \/ At(p, "reread") => k.row = Get(j.d)
      /\ \/ k.chunk = j.chunk
         \/ /\ At(p, "look") /\ InReview(j.id)
            /\ j.arg = "edit_and_approve" => k.chunk.edited
      /\ \/ k.draft = j.draft
         \/ At(p, "decide") /\ k.draft.status = j.arg
         \/ At(p, "publishable") /\ j.d \in DOMAIN drafts /\ drafts[j.d].status = "approved"
      /\ At(p, "look") => InReview(j.id) /\ (j.arg = "edit_and_approve" => k.chunk.edited)
      /\ At(p, "decide") => k.draft.status = j.arg
      /\ At(p, "publishable") => j.d \in DOMAIN drafts /\ drafts[j.d].status = "approved"

LEMMA OthersRest ==
  ASSUME ControlInv, NEW p \in Procs, Serve(p)
  PROVE  /\ \A q \in Procs \ {p} : todo'[q] = todo[q] /\ job'[q] = job[q]
         /\ todo[p] # << >>
<1>1. \E labels, locals : Move(p, labels, locals)
  BY DEF Serve, IngestStep, LifecycleStep, DraftStep, Create, Already, Requeue, MarkRunning, Settle,
         Analyse, ReadExisting, Purge, PurgeQuarantine, Split, EmbedFails, Parents, Clear, Insert,
         Register, Read, PutRef, PutMeta, PutStub, WriteBack, AuditRead, AuditWrite, PutTombstone, Hide,
         HideQuarantine, Available, Ready, Legal, Check, Look, Promote, Unpark, InsertReview,
         MarkReviewed, DecideStep, Publishable, SaveDraft, Continue, Skip, Abort
<1>2. \A q \in Procs \ {p} : todo'[q] = todo[q] /\ job'[q] = job[q]
  BY <1>1, MoveMoves, TablesAreTyped DEF Moved
<1>3. \E x : At(p, x)
  BY DEF Serve, IngestStep, LifecycleStep, DraftStep, Create, Already, Requeue, MarkRunning, Settle,
         Analyse, ReadExisting, Purge, PurgeQuarantine, Split, EmbedFails, Parents, Clear, Insert,
         Register, Read, PutRef, PutMeta, PutStub, WriteBack, AuditRead, AuditWrite, PutTombstone, Hide,
         HideQuarantine, Available, Ready, Legal, Check, Look, Promote, Unpark, InsertReview,
         MarkReviewed, DecideStep, Publishable, SaveDraft
<1> QED  BY <1>2, <1>3 DEF At

LEMMA SameLocals ==
  ASSUME ControlInv, NEW p \in Procs, todo'[p] # << >>, NEW labels, Move(p, labels, job[p]),
         NEW x, At(p, x), x \notin {"get", "reread", "look", "decide", "publishable"}
  PROVE  NextLocals(p)
<1>1. job'[p] = job[p]
  BY MoveMoves, TablesAreTyped DEF Moved
<1>2. \A y \in {"get", "reread", "look", "decide", "publishable"} : ~At(p, y)
  BY DEF At
<1> QED  BY <1>1, <1>2 DEF NextLocals

LEMMA LocalsChangeLittle ==
  ASSUME ControlInv, NEW p \in Procs, Serve(p), todo'[p] # << >>
  PROVE  NextLocals(p)
<1> DEFINE j == job[p]
<1>1. \A labels, locals : Move(p, labels, locals) => job'[p] = locals
  BY MoveMoves, TablesAreTyped DEF Moved
<1>2. j \in Job
  BY TablesAreTyped DEF ProgramsInv
<1>3. \A x, y : At(p, x) /\ At(p, y) => x = y
  BY DEF At
<1>4. ~Abort(p)
  BY MoveMoves, TablesAreTyped DEF Abort, Moved
<1>5. \A labels : Move(p, labels, j) => \A x : At(p, x) /\ x \notin {"get", "reread", "look", "decide", "publishable"} => NextLocals(p)
  BY SameLocals
<1>6. CASE \/ Create(p) \/ Already(p) \/ Requeue(p) \/ MarkRunning(p) \/ Settle(p) \/ Split(p)
           \/ Purge(p) \/ PurgeQuarantine(p) \/ Parents(p) \/ Clear(p) \/ Register(p)
           \/ PutRef(p) \/ PutMeta(p) \/ PutStub(p) \/ AuditWrite(p) \/ PutTombstone(p) \/ Hide(p)
           \/ HideQuarantine(p) \/ Available(p) \/ Ready(p) \/ Legal(p) \/ Promote(p) \/ Unpark(p)
           \/ InsertReview(p) \/ MarkReviewed(p) \/ SaveDraft(p)
  <2>1. \E labels : Move(p, labels, j)
    BY <1>6 DEF Create, Already, Requeue, MarkRunning, Settle, Split, Purge, PurgeQuarantine, Parents,
         Clear, Register, PutRef, PutMeta, PutStub, WriteBack, AuditWrite, PutTombstone, Hide,
         HideQuarantine, Available, Ready, Legal, Check, Promote, Unpark, InsertReview,
         MarkReviewed, SaveDraft, Continue, Skip, Abort
  <2>2. \E x : At(p, x) /\ x \notin {"get", "reread", "look", "decide", "publishable"}
    <3>1. CASE Create(p) \/ Already(p) \/ Requeue(p) \/ MarkRunning(p) \/ Settle(p) \/ Split(p)
      BY <3>1 DEF Create, Already, Requeue, MarkRunning, Settle, Split
    <3>2. CASE Purge(p) \/ PurgeQuarantine(p) \/ Parents(p) \/ Clear(p) \/ Register(p)
      BY <3>2 DEF Purge, PurgeQuarantine, Parents, Clear, Register
    <3>3. CASE PutRef(p) \/ PutMeta(p) \/ PutStub(p) \/ PutTombstone(p) \/ Hide(p) \/ HideQuarantine(p)
      BY <3>3 DEF PutRef, PutMeta, PutStub, PutTombstone, WriteBack, Hide, HideQuarantine
    <3>4. CASE Available(p) \/ Ready(p) \/ Legal(p) \/ AuditWrite(p) \/ SaveDraft(p)
      BY <3>4 DEF Available, Ready, Legal, Check, AuditWrite, SaveDraft
    <3>5. CASE Promote(p) \/ Unpark(p) \/ InsertReview(p) \/ MarkReviewed(p)
      BY <3>5 DEF Promote, Unpark, InsertReview, MarkReviewed
    <3> QED  BY <1>6, <3>1, <3>2, <3>3, <3>4, <3>5
  <2> QED  BY <1>5, <2>1, <2>2
<1>7. ASSUME NEW k \in Job, job'[p] = k, SameRequest(k, j),
             NEW x, At(p, x), x \notin {"look", "decide", "publishable"},
             \/ k.row = j.row /\ x \notin {"get", "reread"}
             \/ k.row = Get(j.d) /\ x \in {"existing", "get", "reread"}
      PROVE  NextLocals(p)
  <2>1. \A y \in {"look", "decide", "publishable"} : ~At(p, y)
    BY <1>3, <1>7
  <2>2. (At(p, "get") \/ At(p, "reread")) <=> x \in {"get", "reread"}
    BY <1>3, <1>7
  <2>3. At(p, "existing") <=> x = "existing"
    BY <1>3, <1>7
  <2> QED  BY <1>7, <2>1, <2>2, <2>3 DEF NextLocals, SameRequest
<1>8. /\ [j EXCEPT !.failed = TRUE].row = j.row /\ [j EXCEPT !.n = @ + 1].row = j.row
      /\ \A h : [j EXCEPT !.head = h].row = j.row
      /\ \A row : [j EXCEPT !.row = row].row = row
  BY <1>2 DEF Job
<1>9. CASE Analyse(p) \/ EmbedFails(p)
  <2>1. PICK x \in {"analyse", "embed"} : At(p, x)
    BY <1>9 DEF Analyse, EmbedFails
  <2>2. \/ \E labels : Move(p, labels, j)
        \/ \E labels : Move(p, labels, [j EXCEPT !.failed = TRUE])
    BY <1>9 DEF Analyse, EmbedFails, Continue
  <2>3. CASE \E labels : Move(p, labels, j)
    BY <1>5, <2>1, <2>3
  <2>4. CASE \E labels : Move(p, labels, [j EXCEPT !.failed = TRUE])
    BY <1>1, <1>2, <1>7, <1>8, <2>1, <2>4, JobUpdates
  <2> QED  BY <2>2, <2>3, <2>4
<1>10. CASE Insert(p)
  <2>1. At(p, "insert") /\ job'[p] = [j EXCEPT !.n = @ + 1]
    BY <1>1, <1>10 DEF Insert, Continue
  <2> QED  BY <1>2, <1>7, <1>8, <2>1, JobUpdates
<1>11. CASE AuditRead(p)
  <2>1. At(p, "audit_read") /\ job'[p] = [j EXCEPT !.head = Len(audit)]
    BY <1>1, <1>11 DEF AuditRead, Continue
  <2>2. Len(audit) \in Nat
    BY DEF ControlInv
  <2> QED  BY <1>2, <1>7, <1>8, <2>1, <2>2, JobUpdates
<1>12. Get(j.d) \in DocRow \cup {NoDoc}
  BY TablesAreTyped, GetIsRow
<1>13. CASE ReadExisting(p)
  <2>1. At(p, "existing")
    BY <1>13 DEF ReadExisting
  <2>2. CASE Skip(p, Len(IngestText))
    BY <1>5, <2>1, <2>2 DEF Skip
  <2>3. CASE Continue(p, [j EXCEPT !.row = Get(j.d)])
    <3>1. job'[p] = [j EXCEPT !.row = Get(j.d)]
      BY <1>1, <2>3 DEF Continue
    <3> QED  BY <1>2, <1>7, <1>8, <1>12, <2>1, <3>1, JobUpdates
  <2> QED  BY <1>13, <2>2, <2>3 DEF ReadExisting
<1>14. CASE Read(p)
  <2>1. PICK x \in {"get", "reread"} : At(p, x)
    BY <1>14 DEF Read
  <2>2. job'[p] = [j EXCEPT !.row = Get(j.d)]
    BY <1>1, <1>14 DEF Read, Continue
  <2> QED  BY <1>2, <1>7, <1>8, <1>12, <2>1, <2>2, JobUpdates
<1>15. CASE Look(p)
  <2>1. At(p, "look") /\ InReview(j.id)
    BY <1>4, <1>15 DEF Look
  <2>2. PICK row : /\ job'[p] = [j EXCEPT !.chunk = Decided(row, j.arg)]
                   /\ row = IF j.id \in DOMAIN quarantine THEN quarantine[j.id] ELSE chunks[j.id]
    BY <1>1, <1>15, <2>1 DEF Look
  <2>3. row \in ChunkRow
    BY <2>1, <2>2, TablesAreTyped DEF IsTable, InReview
  <2>4. Decided(row, j.arg).edited = (row.edited \/ j.arg = "edit_and_approve")
    BY <2>3, DecidedIsRow
  <2>5. /\ job'[p].d = j.d /\ job'[p].c = j.c /\ job'[p].meta = j.meta /\ job'[p].arg = j.arg
        /\ job'[p].id = j.id /\ job'[p].row = j.row /\ job'[p].draft = j.draft
        /\ job'[p].chunk = Decided(row, j.arg)
    BY <1>2, <2>2 DEF Job
  <2>6. \A y \in {"existing", "get", "reread", "decide", "publishable"} : ~At(p, y)
    BY <1>3, <2>1
  <2> QED  BY <2>1, <2>4, <2>5, <2>6 DEF NextLocals
<1>16. ASSUME NEW x \in {"decide", "publishable"}, At(p, x), NEW draft, job'[p] = [j EXCEPT !.draft = draft],
              x = "decide" => draft.status = j.arg,
              x = "publishable" => j.d \in DOMAIN drafts /\ drafts[j.d].status = "approved"
       PROVE  NextLocals(p)
  <2>1. /\ job'[p].d = j.d /\ job'[p].c = j.c /\ job'[p].meta = j.meta /\ job'[p].arg = j.arg
        /\ job'[p].id = j.id /\ job'[p].row = j.row /\ job'[p].chunk = j.chunk
        /\ job'[p].draft = draft
    BY <1>2, <1>16 DEF Job
  <2>2. \A y \in {"existing", "get", "reread", "look"} : ~At(p, y)
    BY <1>3, <1>16
  <2>3. \A y \in {"decide", "publishable"} : At(p, y) => y = x
    BY <1>3, <1>16
  <2>4. x = "decide" \/ x = "publishable"
    OBVIOUS
  <2> QED  BY <1>16, <2>1, <2>2, <2>3, <2>4 DEF NextLocals
<1>17. \A d \in DOMAIN drafts : drafts[d] \in Draft
  BY DEF ControlInv, TypeOK
<1>18. CASE DecideStep(p)
  <2>1. /\ At(p, "decide") /\ j.d \in DOMAIN drafts
        /\ Continue(p, [j EXCEPT !.draft = [drafts[j.d] EXCEPT !.status = j.arg]])
    BY <1>4, <1>18 DEF DecideStep
  <2>2. [drafts[j.d] EXCEPT !.status = j.arg].status = j.arg
    BY <1>17, <2>1 DEF Draft
  <2> QED  BY <1>1, <1>16, <2>1, <2>2 DEF Continue
<1>19. CASE Publishable(p)
  <2>1. /\ At(p, "publishable") /\ j.d \in DOMAIN drafts /\ drafts[j.d].status = "approved"
        /\ Continue(p, [j EXCEPT !.draft = [drafts[j.d] EXCEPT !.published = TRUE]])
    BY <1>4, <1>19 DEF Publishable
  <2> QED  BY <1>1, <1>16, <2>1 DEF Continue
<1> QED  BY <1>6, <1>9, <1>10, <1>11, <1>13, <1>14, <1>15, <1>18, <1>19
            DEF Serve, IngestStep, LifecycleStep, DraftStep

-------------------------------------------------------------------------------
(* Consent: nothing is stored under the name of a draft nobody approved. *)

Absent(a) == a \notin DOMAIN registry /\ IdsOf(chunks, a) = {} /\ IdsOf(quarantine, a) = {}

(* What can be under way for a draft nobody approved writes nothing. *)
LEMMA UnconsentedLabels ==
  ASSUME ControlInv, NEW p \in Procs, NEW x, At(p, x), job[p].d \in Artifacts,
         job[p].d \notin consented, Published(p, todo[p], job[p])
  PROVE  /\ job[p].row = NoDoc
         /\ x \notin {"parents", "clear", "insert", "put", "put_visual", "put_ref", "put_stub", "promote", "unpark",
                      "clear_review", "insert_review", "mark_quarantined", "mark_chunk"}
<1> DEFINE a == job[p].arg
<1>1. Allowed(a, x) /\ Bound(p, x, job[p]) /\ todo[p] # << >> /\ Head(todo[p]) = x
  BY AtKnows, TablesAreTyped
<1>2. a \notin Api \cup {"sync", "pages"}
  BY <1>1 DEF Bound
<1>3. /\ job[p].row = NoDoc
      /\ a = "publish" => x = "publishable"
      /\ a \in ReviewActions => x = "look"
  BY <1>1 DEF Published
<1>4. {"edit_and_approve", "approve"} \subseteq ReviewActions
  BY DEF ReviewActions
<1>5. Ingests \subseteq Api \cup {"sync", "pages", "publish"}
  BY DEF Ingests, Texts, Pictures, Api
<1>6. "ingest" \in Api /\ "image" \in Api /\ "pdf" \in Api
  BY DEF Api
<1>7. Texts \cup Pictures \subseteq Ingests
  BY DEF Ingests
<1> HIDE DEF a
<1>8. /\ x \in {"parents", "clear", "insert", "put", "put_visual"} => a \in Ingests \cup {"edit_and_approve"}
      /\ x \in {"put_ref", "put_stub"} => a \in {"ingest", "image", "pdf", "publish"}
      /\ x \in {"promote", "unpark", "clear_review", "insert_review", "mark_quarantined", "mark_chunk"}
           => a \in ReviewActions
  BY <1>1, <1>4, <1>7 DEF Allowed
<1> QED  BY <1>2, <1>3, <1>4, <1>5, <1>6, <1>8

LEMMA AbsentRemains ==
  ASSUME ControlInv, ConsentInv, NEW p \in Procs, Serve(p),
         NEW a \in Artifacts \ consented, a = job[p].d
  PROVE  Absent(a)'
<1>1. Absent(a)
  BY DEF ConsentInv, Absent
<1>2. Published(p, todo[p], job[p])
  BY DEF ConsentInv
<1>3. \A x : At(p, x) =>
        /\ job[p].row = NoDoc
        /\ x \notin {"parents", "clear", "insert", "put", "put_visual", "put_ref", "put_stub", "promote", "unpark",
                     "clear_review", "insert_review", "mark_quarantined", "mark_chunk"}
  BY <1>2, UnconsentedLabels
<1>5. SUFFICES a \notin DOMAIN registry' /\ IdsOf(chunks', a) = {} /\ IdsOf(quarantine', a) = {}
  <2>1. (a \notin DOMAIN registry' /\ IdsOf(chunks', a) = {} /\ IdsOf(quarantine', a) = {})
          => Absent(a)'
    BY DEF Absent, IdsOf
  <2> QED  BY <2>1
<1>6. CASE UNCHANGED tables
  BY <1>1, <1>6 DEF Absent, tables
<1>7. CASE \/ Parents(p) \/ Clear(p) \/ Insert(p) \/ Register(p) \/ PutRef(p) \/ PutStub(p)
           \/ Promote(p) \/ Unpark(p) \/ InsertReview(p) \/ MarkReviewed(p)
  BY <1>3, <1>7 DEF Parents, Clear, Insert, Register, PutRef, PutStub, WriteBack, Promote, Unpark,
                    InsertReview, MarkReviewed
<1>8. CASE PutMeta(p) \/ PutTombstone(p)
  BY <1>1, <1>3, <1>8 DEF PutMeta, PutTombstone, WriteBack, Absent
<1>9. CASE Purge(p) \/ PurgeQuarantine(p)
  BY <1>1, <1>9 DEF Purge, PurgeQuarantine, Purged, Without, Absent, IdsOf
<1>10. CASE Hide(p) \/ HideQuarantine(p)
  BY <1>1, <1>10 DEF Hide, HideQuarantine, Hidden, Absent, IdsOf
<1>11. audit \in Seq(Nat)
  BY DEF ControlInv
<1> QED  BY <1>6, <1>7, <1>8, <1>9, <1>10, <1>11, QuietStepIsTyped, JudgementIsTyped
            DEF Serve, IngestStep, LifecycleStep, DraftStep

LEMMA StepKeepsConsent ==
  ASSUME ControlInv, ConsentInv, NEW p \in Procs, Serve(p)
  PROVE  ConsentInv'
<1> DEFINE j == job[p]
<1>1. /\ \A a \in Artifacts \ consented :
           /\ Absent(a)
           /\ a \in DOMAIN drafts => drafts[a].status # "approved"
      /\ \A q \in Procs : Published(q, todo[q], job[q])
  BY DEF ConsentInv, Absent
<1>2. consented \subseteq consented'
  BY DEF Serve, Remember
<1>3. /\ \A q \in Procs \ {p} : todo'[q] = todo[q] /\ job'[q] = job[q]
      /\ todo[p] # << >>
  BY OthersRest
<1>4. At(p, Head(todo[p]))
  BY <1>3 DEF At
<1>5. \A q \in Procs \ {p} : Published(q, todo[q], job[q])'
  BY <1>1, <1>2, <1>3 DEF Published
<1>6. Published(p, todo[p], job[p])'
  <2> SUFFICES ASSUME todo'[p] # << >>, job'[p].d \in Artifacts
               PROVE  /\ job'[p].row # NoDoc => job'[p].d \in consented'
                      /\ job'[p].arg = "publish" /\ Head(todo'[p]) # "publishable"
                           => job'[p].d \in consented'
                      /\ job'[p].arg \in ReviewActions /\ Head(todo'[p]) # "look"
                           => job'[p].d \in consented'
                      /\ job'[p].arg \in Drafting /\ Head(todo'[p]) \notin {"decide", "publishable"}
                           => \/ job'[p].draft.status # "approved"
                              \/ job'[p].arg = "approved"
                              \/ job'[p].d \in consented'
    BY DEF Published
  <2>1. NextLocals(p)
    BY LocalsChangeLittle
  <2>2. job'[p].d = j.d /\ job'[p].arg = j.arg /\ j.d \in Artifacts
    BY <2>1 DEF NextLocals
  <2>3. job'[p].row # NoDoc => j.d \in consented
    <3>1. Get(j.d) # NoDoc => j.d \in consented
      BY <1>1, <2>2 DEF Get, Absent
    <3>2. j.row # NoDoc => j.d \in consented
      BY <1>1, <1>3, <2>2 DEF Published
    <3>3. job'[p].row = j.row \/ job'[p].row = Get(j.d)
      BY <2>1 DEF NextLocals
    <3> QED  BY <3>1, <3>2, <3>3
  <2>4. j.arg = "publish" => j.d \in consented
    <3>1. CASE At(p, "publishable")
      BY <1>1, <2>1, <2>2, <3>1 DEF NextLocals
    <3>2. CASE ~At(p, "publishable")
      BY <1>1, <1>3, <2>2, <3>2 DEF Published, At
    <3> QED  BY <3>1, <3>2
  <2>5. j.arg \in ReviewActions => j.d \in consented
    <3>1. CASE At(p, "look")
      <4>1. InReview(j.id)
        BY <2>1, <3>1 DEF NextLocals
      <4>2. j.arg \in ReviewActions => j.id[1] = j.d
        BY <3>1, AtKnows, TablesAreTyped DEF Bound
      <4> QED  BY <1>1, <2>2, <4>1, <4>2 DEF InReview, Absent, IdsOf
    <3>2. CASE ~At(p, "look")
      BY <1>1, <1>3, <2>2, <3>2 DEF Published, At
    <3> QED  BY <3>1, <3>2
  <2>6. j.arg \in Drafting =>
          job'[p].draft.status # "approved" \/ j.arg = "approved" \/ j.d \in consented
    <3>1. CASE At(p, "publishable")
      BY <1>1, <2>1, <2>2, <3>1 DEF NextLocals
    <3>2. CASE At(p, "decide")
      BY <2>1, <3>2 DEF NextLocals
    <3>3. CASE ~At(p, "decide") /\ ~At(p, "publishable")
      <4>1. job'[p].draft = j.draft
        BY <2>1, <3>3 DEF NextLocals
      <4> QED  BY <1>1, <1>3, <2>2, <3>3, <4>1 DEF Published, At
    <3> QED  BY <3>1, <3>2, <3>3
  <2> QED  BY <1>2, <2>2, <2>3, <2>4, <2>5, <2>6
<1>7. ASSUME NEW a \in Artifacts, a \notin consented'
      PROVE  Absent(a)' /\ (a \in DOMAIN drafts' => drafts'[a].status # "approved")
  <2>1. Absent(a) /\ (a \in DOMAIN drafts => drafts[a].status # "approved") /\ a \notin consented
    BY <1>1, <1>2, <1>7
  <2>2. Absent(a)'
    <3>1. CASE a = j.d
      BY <2>1, <3>1, AbsentRemains
    <3>2. CASE a # j.d
      <4>1. SameDocument(a)
        BY <3>2, StepElsewhere
      <4> QED  BY <2>1, <4>1 DEF Absent, SameDocument, SameRow, SameRows, IdsOf
    <3> QED  BY <3>1, <3>2
  <2>3. CASE SaveDraft(p)
    <3>1. drafts' = Put(drafts, j.d, j.draft) /\ At(p, "save_draft")
      BY <2>3 DEF SaveDraft
    <3>2. CASE a = j.d
      <4>1. Allowed(j.arg, "save_draft")
        BY <3>1, AtKnows, TablesAreTyped
      <4>2. j.arg # "approved"
        BY <1>7, <3>1, <3>2 DEF Serve, Remember
      <4>3. j.draft.status # "approved"
        BY <1>1, <1>3, <2>1, <3>1, <3>2, <4>1, <4>2 DEF Published, At, Allowed
      <4> QED  BY <2>2, <3>1, <3>2, <4>3 DEF Put
    <3>3. CASE a # j.d
      BY <2>1, <2>2, <3>1, <3>3 DEF Put
    <3> QED  BY <3>2, <3>3
  <2>4. CASE ~SaveDraft(p)
    <3>1. drafts' = drafts
      BY <2>4 DEF Serve, DraftStep, DecideStep, Publishable
    <3> QED  BY <2>1, <2>2, <3>1
  <2> QED  BY <2>3, <2>4
<1> QED  BY <1>3, <1>5, <1>6, <1>7 DEF ConsentInv, Absent

LEMMA ConsentInvariant == Spec => []ConsentInv
<1>1. Init => ConsentInv
  <2> SUFFICES ASSUME Init PROVE ConsentInv
    OBVIOUS
  <2>1. /\ todo = [p \in Procs |-> << >>] /\ registry = << >> /\ chunks = << >>
        /\ quarantine = << >> /\ drafts = << >> /\ DOMAIN << >> = {}
    BY DEF Init, IngestInit, StoreInit
  <2> QED  BY <2>1 DEF ConsentInv, Published, IdsOf
<1>2. ControlInv /\ ConsentInv /\ [Next]_vars => ConsentInv'
  <2> SUFFICES ASSUME ControlInv, ConsentInv, [Next]_vars PROVE ConsentInv'
    OBVIOUS
  <2>1. CASE Ask
    <3>1. PICK p \in Procs : \E r, s : Asks(p, r, s)
      BY <2>1, AskAsks
    <3>2. PICK r, s : Asks(p, r, s)
      BY <3>1
    <3>3. /\ todo'[p] = s /\ job'[p] = r /\ UNCHANGED tables
          /\ \A q \in Procs \ {p} : todo'[q] = todo[q] /\ job'[q] = job[q]
      BY <3>2, BeginsWell
    <3>4. UNCHANGED <<drafts, consented>>
      BY <2>1 DEF Ask
    <3>5. Published(p, s, r)
      BY <3>2, StatusNames DEF Asks, Published, Drafting, Rulings, Api, ReviewActions
    <3>6. \A q \in Procs : Published(q, todo[q], job[q])
      BY DEF ConsentInv
    <3>7. \A q \in Procs : Published(q, todo[q], job[q])'
      BY <3>3, <3>4, <3>5, <3>6 DEF Published
    <3> QED  BY <3>3, <3>4, <3>7 DEF ConsentInv, tables, IdsOf
  <2>2. ASSUME NEW p \in Procs, Serve(p) PROVE ConsentInv'
    BY <2>2, StepKeepsConsent
  <2>3. ASSUME NEW p \in Procs, Die(p) PROVE ConsentInv'
    <3>1. Abort(p) /\ UNCHANGED <<tables, drafts, consented>>
      BY <2>3 DEF Die, Crash, history
    <3>2. /\ todo'[p] = << >> /\ \A q \in Procs \ {p} : todo'[q] = todo[q] /\ job'[q] = job[q]
      BY <3>1, MoveMoves, TablesAreTyped DEF Abort, Moved
    <3>3. \A q \in Procs : Published(q, todo[q], job[q])
      BY DEF ConsentInv
    <3>4. \A q \in Procs : Published(q, todo[q], job[q])'
      BY <3>1, <3>2, <3>3 DEF Published
    <3> QED  BY <3>1, <3>4 DEF ConsentInv, tables, IdsOf
  <2>4. CASE UNCHANGED vars
    BY <2>4 DEF vars, tables, control, history, ConsentInv, Published, IdsOf
  <2> QED  BY <2>1, <2>2, <2>3, <2>4 DEF Next
<1> QED  BY <1>1, <1>2, ControlInvariant, PTL DEF Spec

(* A document that comes from a draft is in the registry only if a human    *)
(* approved the draft (DraftService.publish), also when processes overlap   *)
(* and when one dies between the decision and the document.                 *)
THEOREM PublicationNeedsConsent == Spec => []PublishedWasApproved
<1>1. ConsentInv => PublishedWasApproved
  BY DEF ConsentInv, PublishedWasApproved
<1> QED  BY <1>1, ConsentInvariant, PTL

-------------------------------------------------------------------------------
(* Which statement comes next. *)

LEMMA AfterText ==
  ASSUME NEW a \in Texts, NEW s, Program(s, a), s # << >>
  PROVE  /\ Head(s) = "existing" /\ 6 \in 1..Len(s) => s[6] \in {"settle", "get"}
         /\ Head(s) = "embed" /\ 3 \in 1..Len(s) => s[3] \in {"settle", "get"}
<1>1. /\ s \in Seq(Label) /\ Len(s) \in Nat /\ Head(s) = s[1]
      /\ \A i \in 1..Len(s) : Allowed(a, s[i])
      /\ \A i \in 1..(Len(s) - 1) : Leads(s[i], s[i + 1])
  BY DEF Program
<1>2. a \notin Pictures
  BY DEF Texts, Pictures
<1>3. ASSUME NEW i \in 1..(Len(s) - 1)
      PROVE  /\ s[i] = "existing" => s[i + 1] = "purge"
             /\ s[i] = "purge" => s[i + 1] = "purge_quarantine"
             /\ s[i] = "purge_quarantine" => s[i + 1] = "embed"
             /\ s[i] = "embed" => s[i + 1] = "put"
             /\ s[i] = "put" => s[i + 1] \in {"settle", "get"}
  <2>1. Leads(s[i], s[i + 1]) /\ Allowed(a, s[i + 1])
    BY <1>1
  <2> QED  BY <1>2, <2>1 DEF Leads, Allowed
<1>4. Head(s) = "existing" /\ 6 \in 1..Len(s) => s[6] \in {"settle", "get"}
  <2> SUFFICES ASSUME s[1] = "existing", Len(s) >= 6 PROVE s[6] \in {"settle", "get"}
    BY <1>1
  <2>1. \A i \in 1..5 : i \in 1..(Len(s) - 1)
    BY <1>1
  <2>2. s[1 + 1] = "purge"
    BY <1>3, <2>1
  <2>3. s[2 + 1] = "purge_quarantine"
    BY <1>3, <2>1, <2>2
  <2>4. s[3 + 1] = "embed"
    BY <1>3, <2>1, <2>3
  <2>5. s[4 + 1] = "put"
    BY <1>3, <2>1, <2>4
  <2>6. s[5 + 1] \in {"settle", "get"}
    BY <1>3, <2>1, <2>5
  <2> QED  BY <2>6
<1>5. Head(s) = "embed" /\ 3 \in 1..Len(s) => s[3] \in {"settle", "get"}
  <2> SUFFICES ASSUME s[1] = "embed", Len(s) >= 3 PROVE s[3] \in {"settle", "get"}
    BY <1>1
  <2>1. \A i \in 1..2 : i \in 1..(Len(s) - 1)
    BY <1>1
  <2>2. s[1 + 1] = "put"
    BY <1>3, <2>1
  <2>3. s[2 + 1] \in {"settle", "get"}
    BY <1>3, <2>1, <2>2
  <2> QED  BY <2>3
<1> QED  BY <1>4, <1>5

LEMMA AfterPicture ==
  ASSUME NEW a \in Pictures, NEW s, Program(s, a), s # << >>, Head(s) = "analyse", 7 \in 1..Len(s)
  PROVE  s[7] \in {"settle", "get"}
<1>1. /\ s \in Seq(Label) /\ Len(s) \in Nat /\ Len(s) >= 7 /\ s[1] = "analyse"
      /\ \A i \in 1..Len(s) : Allowed(a, s[i])
      /\ \A i \in 1..(Len(s) - 1) : Leads(s[i], s[i + 1])
  BY DEF Program
<1>2. a \notin Texts
  BY DEF Texts, Pictures
<1>3. ASSUME NEW i \in 1..(Len(s) - 1)
      PROVE  /\ s[i] = "analyse" => s[i + 1] = "purge"
             /\ s[i] = "purge" => s[i + 1] = "purge_quarantine"
             /\ s[i] = "purge_quarantine" => s[i + 1] = "split"
             /\ s[i] = "split" => s[i + 1] = "reread"
             /\ s[i] = "reread" => s[i + 1] = "put_visual"
             /\ s[i] = "put_visual" => s[i + 1] \in {"settle", "get"}
  <2>1. Leads(s[i], s[i + 1]) /\ Allowed(a, s[i + 1])
    BY <1>1
  <2> QED  BY <1>2, <2>1 DEF Leads, Allowed
<1>4. \A i \in 1..6 : i \in 1..(Len(s) - 1)
  BY <1>1
<1>5. s[1 + 1] = "purge"
  BY <1>1, <1>3, <1>4
<1>6. s[2 + 1] = "purge_quarantine"
  BY <1>3, <1>4, <1>5
<1>7. s[3 + 1] = "split"
  BY <1>3, <1>4, <1>6
<1>8. s[4 + 1] = "reread"
  BY <1>3, <1>4, <1>7
<1>9. s[5 + 1] = "put_visual"
  BY <1>3, <1>4, <1>8
<1>10. s[6 + 1] \in {"settle", "get"}
  BY <1>3, <1>4, <1>9
<1> QED  BY <1>10

(* x is the statement p executes and y the one it has left. *)
Follows(x, y) ==
  \/ Leads(x, y)
  \/ x = "create" /\ y \in {"already", "requeue", "mark_running", "get"}
  \/ x = "already" /\ y \in {"requeue", "get"}
  \/ x \in {"existing", "analyse", "embed"} /\ y \in {"settle", "get"}
  \/ x \in {"embed", "split"} /\ y = "parents"
  \/ x = "look" /\ y \in {"parents", "mark_quarantined", "mark_chunk", "promote"}

LEMMA HeadOfLabels ==
  ASSUME NEW a \in Api, NEW j, j.arg = a
  PROVE  /\ LabelsOf(j) # << >> /\ Head(LabelsOf(j)) \in {"mark_running", "get"}
         /\ Head(<<"requeue">> \o LabelsOf(j)) = "requeue"
<1>1. /\ \A meta : RunText(meta) # << >> /\ RunText(meta)[1] = "mark_running"
      /\ \A meta : RunVisual(meta) # << >> /\ RunVisual(meta)[1] = "mark_running"
      /\ RegisterPdf # << >> /\ RegisterPdf[1] = "get"
      /\ \A meta : RunText(meta) \in Seq(Label) /\ RunVisual(meta) \in Seq(Label)
      /\ RegisterPdf \in Seq(Label)
  BY IngestPrograms DEF Program, Runs
<1>2. /\ LabelsOf(j) # << >> /\ LabelsOf(j)[1] \in {"mark_running", "get"}
      /\ LabelsOf(j) \in Seq(Label)
  BY <1>1 DEF LabelsOf
<1>3. Head(LabelsOf(j)) = LabelsOf(j)[1]
  BY <1>2
<1>4. Head(<<"requeue">> \o LabelsOf(j)) = "requeue"
  <2>1. <<"requeue">> \in Seq(Label)
    BY DEF Label
  <2> HIDE DEF LabelsOf
  <2> QED  BY <1>2, <2>1
<1> QED  BY <1>2, <1>3, <1>4

LEMMA NextStatement ==
  ASSUME ControlInv, NEW p \in Procs, Serve(p), todo'[p] # << >>
  PROVE  /\ Follows(Head(todo[p]), Head(todo'[p]))
         /\ Allowed(job[p].arg, Head(todo'[p]))
<1> DEFINE j == job[p]
           a == job[p].arg
           s == todo[p]
           y == Head(todo'[p])
<1>1. \A labels, locals : Move(p, labels, locals) => todo'[p] = labels
  BY MoveMoves, TablesAreTyped DEF Moved
<1>2. \A x : At(p, x) =>
        /\ s # << >> /\ Head(s) = x /\ j \in Job /\ Allowed(a, x) /\ Bound(p, x, j)
        /\ Program(s, a) /\ (Tail(s) # << >> => Leads(x, Head(Tail(s))))
  BY AtKnows, TablesAreTyped
<1>3. Allowed(a, y)
  <2>1. ControlInv'
    BY StepKeepsControl
  <2>2. Program(todo'[p], job'[p].arg)
    BY <2>1 DEF ControlInv, ProgramsInv, Good
  <2>3. job'[p].arg = a
    BY LocalsChangeLittle DEF NextLocals
  <2> QED  BY <2>2, <2>3, TailOfProgram
<1>4. SUFFICES Follows(Head(s), y)
  BY <1>3
<1>5. ASSUME NEW locals, Continue(p, locals) PROVE Follows(Head(s), y)
  <2>1. todo'[p] = Tail(s)
    BY <1>1, <1>5 DEF Continue
  <2>2. At(p, Head(s))
    BY OthersRest DEF At
  <2> QED  BY <1>2, <2>1, <2>2 DEF Follows
<1>6. ~Abort(p)
  BY <1>1 DEF Abort
<1>7. CASE Create(p)
  <2>1. At(p, "create") /\ a \in Api
    BY <1>2, <1>7, ArgsOfLabels DEF Create
  <2>2. \/ todo'[p] = <<"already">> \/ todo'[p] = <<"requeue">> \o LabelsOf(j)
        \/ todo'[p] = LabelsOf(j)
    BY <1>1, <1>7 DEF Create
  <2>3. y \in {"already", "requeue", "mark_running", "get"}
    BY <2>1, <2>2, HeadOfLabels
  <2> QED  BY <1>2, <2>1, <2>3 DEF Follows
<1>8. CASE Already(p)
  <2>1. At(p, "already") /\ a \in Api
    BY <1>2, <1>8, ArgsOfLabels DEF Already
  <2>2. todo'[p] = <<"requeue">> \o LabelsOf(j) \/ todo'[p] = Attach(j.meta)
    BY <1>1, <1>8 DEF Already
  <2>3. Attach(j.meta) # << >> => Head(Attach(j.meta)) = "get"
    BY DEF Attach
  <2>4. y \in {"requeue", "get"}
    BY <2>1, <2>2, <2>3, HeadOfLabels
  <2> QED  BY <1>2, <2>1, <2>4 DEF Follows
<1>9. CASE Analyse(p)
  <2>1. At(p, "analyse")
    BY <1>9 DEF Analyse
  <2>2. CASE \E locals : Continue(p, locals)
    BY <1>5, <2>2
  <2>3. CASE todo'[p] = SubSeq(s, 6 + 1, Len(s))
    <3>1. 6 + 1 \in 1..Len(s) /\ y = s[6 + 1]
      BY <1>2, <2>1, <2>3, RestOfProgram
    <3>2. a \in Pictures
      BY <1>2, <2>1 DEF Allowed
    <3>3. y \in {"settle", "get"}
      BY <1>2, <2>1, <3>1, <3>2, AfterPicture
    <3> QED  BY <1>2, <2>1, <3>3 DEF Follows
  <2>4. Len(StoreVisual) = 6
    BY DEF StoreVisual
  <2> QED  BY <1>1, <1>9, <2>2, <2>3, <2>4 DEF Analyse
<1>10. CASE ReadExisting(p)
  <2>1. At(p, "existing")
    BY <1>10 DEF ReadExisting
  <2>2. CASE \E locals : Continue(p, locals)
    BY <1>5, <2>2
  <2>3. CASE todo'[p] = SubSeq(s, 5 + 1, Len(s))
    <3>1. 5 + 1 \in 1..Len(s) /\ y = s[5 + 1]
      BY <1>2, <2>1, <2>3, RestOfProgram
    <3>2. a \in Texts
      BY <1>2, <2>1 DEF Allowed
    <3>3. y \in {"settle", "get"}
      BY <1>2, <2>1, <3>1, <3>2, AfterText
    <3> QED  BY <1>2, <2>1, <3>3 DEF Follows
  <2>4. Len(IngestText) = 5
    BY DEF IngestText
  <2> QED  BY <1>1, <1>10, <2>2, <2>3, <2>4 DEF ReadExisting, Skip
<1>11. CASE EmbedFails(p)
  <2>1. At(p, "embed") /\ todo'[p] = SubSeq(s, 2 + 1, Len(s))
    <3>1. At(p, "embed") /\ todo'[p] = SubSeq(s, 3, Len(s))
      BY <1>1, <1>11 DEF EmbedFails
    <3>2. 3 = 2 + 1
      OBVIOUS
    <3> QED  BY <3>1, <3>2
  <2>2. 2 + 1 \in 1..Len(s) /\ y = s[2 + 1]
    BY <1>2, <2>1, RestOfProgram
  <2>3. a \in Texts
    BY <1>2, <2>1 DEF Allowed
  <2>4. y \in {"settle", "get"}
    BY <1>2, <2>1, <2>2, <2>3, AfterText
  <2> QED  BY <1>2, <2>1, <2>4 DEF Follows
<1>12. CASE Split(p)
  <2>1. PICK x \in {"embed", "split"} : At(p, x)
    BY <1>12 DEF Split
  <2>2. todo'[p] = <<"parents">> \o Writes(j.c) \o Tail(s)
    BY <1>1, <1>12 DEF Split
  <2>3. a \in Ingests /\ j.c \in Contents
    <3>1. a \in Ingests
      BY <1>2, <2>1, ArgsOfLabels
    <3> QED  BY <1>2, <2>1, <3>1 DEF Bound
  <2> DEFINE w == <<"parents">> \o Writes(j.c)
  <2>4. w \in Seq(Label) /\ w # << >> /\ w[1] = "parents"
    BY <2>3, WritesProgram DEF Runs, Program
  <2>5. Tail(s) \in Seq(Label)
    BY <1>2, <2>1, TailOfProgram DEF Program
  <2> HIDE DEF w
  <2>6. Head(w \o Tail(s)) = "parents"
    BY <2>4, <2>5
  <2>7. y = "parents"
    BY <2>2, <2>6 DEF w
  <2> QED  BY <1>2, <2>1, <2>7 DEF Follows
<1>13. CASE Look(p)
  <2>1. At(p, "look")
    BY <1>13 DEF Look
  <2>2. y \in {"parents", "mark_quarantined", "mark_chunk", "promote"}
    <3>1. \/ todo'[p] = <<"mark_quarantined">>
          \/ todo'[p] = <<"parents", "clear_review", "insert_review">>
          \/ todo'[p] = <<"promote", "unpark">>
          \/ todo'[p] = <<"mark_chunk">>
      BY <1>1, <1>6, <1>13 DEF Look
    <3> QED  BY <3>1
  <2> QED  BY <1>2, <2>1, <2>2 DEF Follows
<1>14. CASE \/ Requeue(p) \/ MarkRunning(p) \/ Settle(p) \/ Purge(p) \/ PurgeQuarantine(p)
            \/ Parents(p) \/ Clear(p) \/ Insert(p) \/ Register(p) \/ Read(p)
            \/ PutRef(p) \/ PutMeta(p) \/ PutStub(p)
  BY <1>5, <1>6, <1>14
     DEF Requeue, MarkRunning, Settle, Purge, PurgeQuarantine, Parents, Clear, Insert, Register,
         Read, PutRef, PutMeta, PutStub, WriteBack
<1>15. CASE \/ AuditRead(p) \/ AuditWrite(p) \/ PutTombstone(p) \/ Hide(p) \/ HideQuarantine(p)
            \/ Available(p) \/ Ready(p) \/ Legal(p) \/ Promote(p) \/ Unpark(p)
            \/ InsertReview(p) \/ MarkReviewed(p) \/ DecideStep(p) \/ Publishable(p) \/ SaveDraft(p)
  BY <1>5, <1>6, <1>15
     DEF AuditRead, AuditWrite, PutTombstone, WriteBack, Hide, HideQuarantine, Available, Ready,
         Legal, Check, Promote, Unpark, InsertReview, MarkReviewed, DecideStep, Publishable, SaveDraft
<1> QED  BY <1>7, <1>8, <1>9, <1>10, <1>11, <1>12, <1>13, <1>14, <1>15
            DEF Serve, IngestStep, LifecycleStep, DraftStep

-------------------------------------------------------------------------------
(* The audit chain. *)

OneServer == \A p, q \in Servers : p = q

LEMMA AuditorsAreServers ==
  ASSUME ControlInv, NEW p \in Procs, NEW x \in {"audit_read", "audit_write"}, At(p, x)
  PROVE  p \in Servers
<1>1. Allowed(job[p].arg, x) /\ Bound(p, x, job[p])
  BY AtKnows, TablesAreTyped
<1> QED  BY <1>1 DEF Allowed, Bound, Decisions, Drafting, Rulings

LEMMA ChainRemains ==
  ASSUME ControlInv, ChainInv, UNCHANGED audit,
         \A p \in Procs : At(p, "audit_write")' =>
           \/ At(p, "audit_write") /\ job'[p].head = job[p].head
           \/ job'[p].head = Len(audit)
  PROVE  ChainInv'
BY DEF ChainInv

LEMMA StepKeepsChain ==
  ASSUME ControlInv, ChainInv, OneServer, NEW p \in Procs, Serve(p)
  PROVE  ChainInv'
<1>1. /\ \A q \in Procs \ {p} : todo'[q] = todo[q] /\ job'[q] = job[q]
      /\ todo[p] # << >>
  BY OthersRest
<1>2. \A q \in Procs \ {p} : At(q, "audit_write")' => At(q, "audit_write") /\ job'[q].head = job[q].head
  BY <1>1 DEF At
<1>3. At(p, "audit_write")' => At(p, "audit_read")
  <2> SUFFICES ASSUME todo'[p] # << >>, Head(todo'[p]) = "audit_write" PROVE At(p, "audit_read")
    BY DEF At
  <2>1. Follows(Head(todo[p]), "audit_write")
    BY NextStatement
  <2>2. Head(todo[p]) = "audit_read"
    BY <2>1 DEF Follows, Leads
  <2> QED  BY <1>1, <2>2 DEF At
<1>4. CASE AuditRead(p)
  <2>1. At(p, "audit_write")' => job'[p].head = Len(audit)
    <3> SUFFICES ASSUME todo'[p] # << >> PROVE job'[p].head = Len(audit)
      BY DEF At
    <3>1. job'[p] = [job[p] EXCEPT !.head = Len(audit)]
      BY <1>4, MoveMoves, TablesAreTyped DEF AuditRead, Continue, Moved
    <3>2. job[p] \in Job
      BY TablesAreTyped DEF ProgramsInv
    <3> QED  BY <3>1, <3>2 DEF Job
  <2>2. UNCHANGED audit
    BY <1>4 DEF AuditRead
  <2> QED  BY <1>2, <2>1, <2>2, ChainRemains
<1>5. CASE AuditWrite(p)
  <2>1. At(p, "audit_write") /\ audit' = Append(audit, job[p].head)
    BY <1>5 DEF AuditWrite
  <2>2. job[p].head = Len(audit) /\ audit \in Seq(Nat) /\ \A i \in DOMAIN audit : audit[i] = i - 1
    BY <2>1 DEF ChainInv, ControlInv
  <2>3. \A i \in DOMAIN audit' : audit'[i] = i - 1
    BY <2>1, <2>2
  <2>4. \A q \in Procs : ~At(q, "audit_write")'
    <3> SUFFICES ASSUME NEW q \in Procs, At(q, "audit_write")' PROVE FALSE
      OBVIOUS
    <3>1. p \in Servers
      BY <2>1, AuditorsAreServers
    <3>2. CASE q = p
      BY <1>3, <2>1, <3>2 DEF At
    <3>3. CASE q # p
      BY <1>2, <3>1, <3>3, AuditorsAreServers DEF OneServer
    <3> QED  BY <3>2, <3>3
  <2> QED  BY <2>3, <2>4 DEF ChainInv
<1>6. CASE ~AuditRead(p) /\ ~AuditWrite(p)
  <2>1. UNCHANGED audit
    BY <1>6 DEF Serve, LifecycleStep, DraftStep, DecideStep, Publishable, SaveDraft
  <2>2. ~At(p, "audit_read")
    BY <1>6 DEF Serve, IngestStep, LifecycleStep, DraftStep, Create, Already, Requeue, MarkRunning, Settle,
         Analyse, ReadExisting, Purge, PurgeQuarantine, Split, EmbedFails, Parents, Clear, Insert,
         Register, Read, PutRef, PutMeta, PutStub, WriteBack, PutTombstone, Hide,
         HideQuarantine, Available, Ready, Legal, Check, Look, Promote, Unpark, InsertReview,
         MarkReviewed, DecideStep, Publishable, SaveDraft, At
  <2> QED  BY <1>2, <1>3, <2>1, <2>2, ChainRemains
<1> QED  BY <1>4, <1>5, <1>6

LEMMA ChainInvariant ==
  ASSUME OneServer
  PROVE  Spec => []ChainInv
<1>1. Init => ChainInv
  <2>1. Init => todo = [p \in Procs |-> << >>] /\ audit = << >> /\ DOMAIN << >> = {}
    BY DEF Init, IngestInit
  <2> QED  BY <2>1 DEF ChainInv, At
<1>2. ControlInv /\ ChainInv /\ [Next]_vars => ChainInv'
  <2> SUFFICES ASSUME ControlInv, ChainInv, [Next]_vars PROVE ChainInv'
    OBVIOUS
  <2>1. CASE Ask
    <3>1. PICK p \in Procs : \E r, s : Asks(p, r, s)
      BY <2>1, AskAsks
    <3>2. PICK r, s : Asks(p, r, s)
      BY <3>1
    <3>3. /\ todo'[p] = s /\ \A q \in Procs \ {p} : todo'[q] = todo[q] /\ job'[q] = job[q]
      BY <3>2, BeginsWell
    <3>4. Head(s) # "audit_write"
      BY <3>2 DEF Asks
    <3>5. UNCHANGED audit
      BY <2>1 DEF Ask
    <3> QED  BY <3>3, <3>4, <3>5 DEF ChainInv, At
  <2>2. ASSUME NEW p \in Procs, Serve(p) PROVE ChainInv'
    BY <2>2, StepKeepsChain
  <2>3. ASSUME NEW p \in Procs, Die(p) PROVE ChainInv'
    <3>1. Abort(p) /\ UNCHANGED audit
      BY <2>3 DEF Die, Crash
    <3>2. /\ todo'[p] = << >> /\ \A q \in Procs \ {p} : todo'[q] = todo[q] /\ job'[q] = job[q]
      BY <3>1, MoveMoves, TablesAreTyped DEF Abort, Moved
    <3> QED  BY <3>1, <3>2 DEF ChainInv, At
  <2>4. CASE UNCHANGED vars
    BY <2>4 DEF vars, control, ChainInv, At
  <2> QED  BY <2>1, <2>2, <2>3, <2>4 DEF Next
<1> QED  BY <1>1, <1>2, ControlInvariant, PTL DEF Spec

(* With one answer service the audit chain always verifies (verify_chain):  *)
(* the head is read in one statement and the entry written in another.      *)
THEOREM ChainHolds ==
  ASSUME OneServer
  PROVE  Spec => []AuditVerifies
<1>1. ChainInv => AuditVerifies
  BY DEF ChainInv, AuditVerifies, ChainVerifies
<1> QED  BY <1>1, ChainInvariant, PTL

-------------------------------------------------------------------------------
(* The action of each statement. *)

LEMMA LabelOfAction ==
  ASSUME NEW p
  PROVE  /\ Create(p) => At(p, "create") 
         /\ Already(p) => At(p, "already")
         /\ Requeue(p) => At(p, "requeue")
         /\ MarkRunning(p) => At(p, "mark_running")
         /\ Settle(p) => At(p, "settle")
         /\ Analyse(p) => At(p, "analyse")
         /\ ReadExisting(p) => At(p, "existing")
         /\ Purge(p) => At(p, "purge")
         /\ PurgeQuarantine(p) => At(p, "purge_quarantine")
         /\ Split(p) => At(p, "embed") \/ At(p, "split")
         /\ EmbedFails(p) => At(p, "embed")
         /\ Parents(p) => At(p, "parents")
         /\ Clear(p) => At(p, "clear")
         /\ Insert(p) => At(p, "insert")
         /\ Register(p) => At(p, "put") \/ At(p, "put_visual")
         /\ Read(p) => At(p, "get") \/ At(p, "reread")
         /\ PutRef(p) => At(p, "put_ref")
         /\ PutMeta(p) => At(p, "put_meta")
         /\ PutStub(p) => At(p, "put_stub")
         /\ AuditRead(p) => At(p, "audit_read")
         /\ AuditWrite(p) => At(p, "audit_write")
         /\ PutTombstone(p) => At(p, "put_tombstone")
         /\ Hide(p) => At(p, "hide")
         /\ HideQuarantine(p) => At(p, "hide_quarantine")
         /\ Available(p) => At(p, "available")
         /\ Ready(p) => At(p, "ready")
         /\ Legal(p) => At(p, "legal")
         /\ Look(p) => At(p, "look")
         /\ Promote(p) => At(p, "promote")
         /\ Unpark(p) => At(p, "unpark") \/ At(p, "clear_review")
         /\ InsertReview(p) => At(p, "insert_review")
         /\ MarkReviewed(p) => At(p, "mark_quarantined") \/ At(p, "mark_chunk")
         /\ DecideStep(p) => At(p, "decide")
         /\ Publishable(p) => At(p, "publishable")
         /\ SaveDraft(p) => At(p, "save_draft")
BY DEF Create, Already, Requeue, MarkRunning, Settle, Analyse, ReadExisting, Purge, PurgeQuarantine,
       Split, EmbedFails, Parents, Clear, Insert, Register, Read, PutRef, PutMeta, PutStub, WriteBack,
       AuditRead, AuditWrite, PutTombstone, Hide, HideQuarantine, Available, Ready, Legal, Check, Look,
       Promote, Unpark, InsertReview, MarkReviewed, DecideStep, Publishable, SaveDraft

LEMMA ActionOfLabel ==
  ASSUME NEW p, Serve(p), NEW x, At(p, x)
  PROVE  /\ x = "existing" => ReadExisting(p)
         /\ x = "purge" => Purge(p)
         /\ x = "purge_quarantine" => PurgeQuarantine(p)
         /\ x = "parents" => Parents(p)
         /\ x = "clear" => Clear(p)
         /\ x = "insert" => Insert(p)
         /\ x \in {"put", "put_visual"} => Register(p)
         /\ x \in {"get", "reread"} => Read(p)
         /\ x = "put_ref" => PutRef(p)
         /\ x = "put_meta" => PutMeta(p)
         /\ x = "put_stub" => PutStub(p)
         /\ x = "put_tombstone" => PutTombstone(p)
         /\ x = "hide" => Hide(p)
         /\ x = "hide_quarantine" => HideQuarantine(p)
         /\ x = "legal" => Legal(p)
         /\ x = "promote" => Promote(p)
         /\ x \in {"unpark", "clear_review"} => Unpark(p)
         /\ x = "insert_review" => InsertReview(p)
         /\ x \in {"mark_quarantined", "mark_chunk"} => MarkReviewed(p)
<1>1. \A y : At(p, y) => x = y
  BY DEF At
<1> QED  BY <1>1, LabelOfAction DEF Serve, IngestStep, LifecycleStep, DraftStep

(* The statements that change a table. *)
Writing ==
  {"purge", "purge_quarantine", "parents", "clear", "insert", "put", "put_visual", "put_ref",
   "put_meta", "put_stub", "put_tombstone", "hide", "hide_quarantine", "promote", "unpark",
   "clear_review", "insert_review", "mark_quarantined", "mark_chunk"}

LEMMA OnlyWritesWrite ==
  ASSUME ControlInv, NEW p \in Procs, Serve(p), NEW x, At(p, x), x \notin Writing
  PROVE  UNCHANGED tables
<1>1. \A y \in Writing : ~At(p, y)
  BY DEF At
<1>2. audit \in Seq(Nat)
  BY DEF ControlInv
<1>3. ~(\/ Purge(p) \/ PurgeQuarantine(p) \/ Parents(p) \/ Clear(p) \/ Insert(p) \/ Register(p)
        \/ PutRef(p) \/ PutMeta(p) \/ PutStub(p) \/ PutTombstone(p) \/ Hide(p) \/ HideQuarantine(p)
        \/ Promote(p) \/ Unpark(p) \/ InsertReview(p) \/ MarkReviewed(p))
  BY <1>1, LabelOfAction DEF Writing
<1> QED  BY <1>2, <1>3, QuietStepIsTyped, JudgementIsTyped
            DEF Serve, IngestStep, LifecycleStep, DraftStep

(* What the histories say of the document after a statement. *)
LEMMA HistoryOfLabel ==
  ASSUME ControlInv, NEW p \in Procs, Serve(p), NEW x, At(p, x), NEW d, d = job[p].d
  PROVE  /\ x # "purge_quarantine" \/ job[p].arg # "delete" => deleted' = deleted
         /\ d \in deleted' => d \in deleted \/ (job[p].arg = "delete" /\ x = "purge_quarantine")
         /\ x \in {"purge", "put_stub"} => d \in torn'
         /\ x \in {"put", "put_visual"} => d \notin torn'
         /\ x = "purge_quarantine" /\ todo'[p] # << >> => torn' = torn
         /\ x \notin {"purge", "put_stub", "put", "put_visual", "purge_quarantine"} => torn' = torn
         /\ job[p].arg = "delete" => d \notin withdrawn'
         /\ x # "put_meta" => (d \in withdrawn' => d \in withdrawn)
         /\ job[p].arg # "transition" => (d \in withdrawn' => d \in withdrawn)
         /\ x = "put_meta" /\ job[p].arg = "transition" /\ d \in withdrawn' /\ d \notin withdrawn
              => job[p].meta = "obsolete" /\ Live(job[p].row)
<1>1. \A y : At(p, y) <=> x = y
  BY DEF At
<1>2. Remember(p)
  BY DEF Serve
<1>3. /\ x # "purge_quarantine" \/ job[p].arg # "delete" => deleted' = deleted
      /\ d \in deleted' => d \in deleted \/ (job[p].arg = "delete" /\ x = "purge_quarantine")
  BY <1>1, <1>2 DEF Remember, Completes
<1>4. /\ x \in {"purge", "put_stub"} => d \in torn'
      /\ x \in {"put", "put_visual"} => d \notin torn'
      /\ x = "purge_quarantine" /\ todo'[p] # << >> => torn' = torn
      /\ x \notin {"purge", "put_stub", "put", "put_visual", "purge_quarantine"} => torn' = torn
  BY <1>1, <1>2 DEF Remember, Completes, Finishes
<1>5. job[p].arg = "delete" => d \notin withdrawn'
  BY <1>2 DEF Remember
<1>6. x # "put_meta" => (d \in withdrawn' => d \in withdrawn)
  BY <1>1, <1>2 DEF Remember
<1>7. job[p].arg # "transition" => (d \in withdrawn' => d \in withdrawn)
  BY <1>2 DEF Remember
<1>8. x = "put_meta" /\ job[p].arg = "transition" /\ d \in withdrawn' /\ d \notin withdrawn
        => job[p].meta = "obsolete" /\ Live(job[p].row)
  <2> HIDE DEF Live
  <2>1. CASE job[p].meta = "obsolete" /\ Live(job[p].row)
    BY <2>1
  <2>2. CASE ~(job[p].meta = "obsolete" /\ Live(job[p].row))
    <3>1. job[p].arg = "transition" /\ x = "put_meta" => withdrawn' = withdrawn
      BY <1>1, <1>2, <2>2 DEF Remember
    <3> QED  BY <3>1
  <2> QED  BY <2>1, <2>2
<1> QED  BY <1>3, <1>4, <1>5, <1>6, <1>7, <1>8

-------------------------------------------------------------------------------
(* What the tables say of one document after a change to its rows. *)

LEMMA PurgedHere ==
  ASSUME NEW table, NEW d
  PROVE  IdsOf(Purged(table, d), d) = {}
BY DEF IdsOf, Purged, Without

LEMMA EmptyTable ==
  ASSUME NEW table, NEW d, IdsOf(table, d) = {}
  PROVE  /\ \A rows : Matches(table, rows, d)
         /\ \A c : Holds(table, d, c)
BY DEF Matches, Holds

LEMMA WithoutHere ==
  ASSUME NEW table, NEW d, NEW keys
  PROVE  /\ \A rows : Matches(table, rows, d) => Matches(Without(table, keys), rows, d)
         /\ \A c : Holds(table, d, c) => Holds(Without(table, keys), d, c)
BY DEF Matches, Holds, Without, IdsOf

LEMMA HiddenHere ==
  ASSUME NEW table, IsTable(table), NEW d, NEW e
  PROVE  /\ \A rows : Matches(table, rows, d) => Matches(Hidden(table, e), rows, d)
         /\ IdsOf(Hidden(table, e), d) = IdsOf(table, d)
<1>1. \A id \in DOMAIN table :
        LET row == [table[id] EXCEPT !.tombstone = TRUE]
        IN  row.content = table[id].content /\ row.edited = table[id].edited
  BY DEF IsTable, ChunkRow
<1>2. IdsOf(Hidden(table, e), d) = IdsOf(table, d)
  BY DEF IdsOf, Hidden
<1>3. \A id \in DOMAIN table : /\ Hidden(table, e)[id].content = table[id].content
                             /\ Hidden(table, e)[id].edited = table[id].edited
  BY <1>1 DEF Hidden
<1>4. \A id \in IdsOf(table, d) : id \in DOMAIN table
  BY DEF IdsOf
<1> QED  BY <1>2, <1>3, <1>4 DEF Matches

LEMMA PutHere ==
  ASSUME NEW table, NEW d, NEW id, NEW row
  PROVE  /\ \A rows : /\ Matches(table, rows, d) /\ d \in DOMAIN rows
                      /\ row.edited \/ row.content = rows[d].checksum
                      => Matches(Put(table, id, row), rows, d)
         /\ \A c : Holds(table, d, c) /\ row.content = c => Holds(Put(table, id, row), d, c)
BY DEF Matches, Holds, Put, IdsOf

LEMMA DecideHere ==
  ASSUME NEW table, IsTable(table), NEW d, NEW id, NEW action
  PROVE  \A rows : Matches(table, rows, d) => Matches(Decide(table, id, action), rows, d)
<1> SUFFICES ASSUME NEW rows, Matches(table, rows, d)
             PROVE  Matches(Decide(table, id, action), rows, d)
  OBVIOUS
<1>1. CASE id \notin DOMAIN table
  BY <1>1 DEF Decide
<1>2. CASE id \in DOMAIN table
  <2> DEFINE row == Decided(table[id], action)
  <2>1. /\ row.content = table[id].content
        /\ row.edited = (table[id].edited \/ action = "edit_and_approve")
    BY <1>2, DecidedIsRow DEF IsTable
  <2>2. Decide(table, id, action) = Put(table, id, row)
    BY <1>2 DEF Decide
  <2> HIDE DEF row
  <2>3. Matches(Put(table, id, row), rows, d)
    BY <1>2, <2>1 DEF Matches, Put, IdsOf
  <2> QED  BY <2>2, <2>3
<1> QED  BY <1>1, <1>2

LEMMA OtherRegistry ==
  ASSUME NEW table, NEW rows, NEW new, NEW d, Matches(table, rows, d),
         d \in DOMAIN rows => d \in DOMAIN new /\ new[d].checksum = rows[d].checksum
  PROVE  Matches(table, new, d)
BY DEF Matches

LEMMA TextIsRegistered ==
  ASSUME NEW table, NEW new, NEW d, Holds(table, d, new[d].checksum), d \in DOMAIN new
  PROVE  Matches(table, new, d)
BY DEF Matches, Holds

-------------------------------------------------------------------------------
(* A statement leaves the document it is about sound. *)

(* What a process at a statement can rely on. *)
LEMMA AtWork ==
  ASSUME ControlInv, DocumentInv, NEW p \in Procs, NEW x, At(p, x), NEW d, d = job[p].d
  PROVE  /\ d \in Docs /\ DocumentIsSound(d) /\ Knows(todo[p], job[p])
         /\ todo[p] # << >> /\ Head(todo[p]) = x
         /\ Allowed(job[p].arg, x) /\ Bound(p, x, job[p]) /\ job[p] \in Job
         /\ IsRegistry(registry) /\ IsTable(chunks) /\ IsTable(quarantine)
<1>1. /\ IsRegistry(registry) /\ IsTable(chunks) /\ IsTable(quarantine) /\ ProgramsInv
  BY TablesAreTyped
<1>2. /\ todo[p] # << >> /\ Head(todo[p]) = x /\ job[p] \in Job
      /\ Allowed(job[p].arg, x) /\ Bound(p, x, job[p])
  BY <1>1, AtKnows
<1>3. d \in Docs
  BY <1>2 DEF Bound
<1> QED  BY <1>1, <1>2, <1>3 DEF DocumentInv

(* Soundness of a document whose tables and histories have changed. *)
LEMMA SoundAfter ==
  ASSUME NEW d,
         d \in deleted' => /\ IdsOf(chunks', d) = {} /\ IdsOf(quarantine', d) = {}
                           /\ d \in DOMAIN registry' => registry'[d].tombstone,
         d \notin torn' => Matches(chunks', registry', d) /\ Matches(quarantine', registry', d),
         d \in withdrawn' => /\ d \in DOMAIN registry' /\ ~registry'[d].tombstone
                             /\ registry'[d].mfg = "obsolete"
  PROVE  DocumentIsSound(d)'
<1>1. d \in deleted' => Gone(d)' /\ ~Live(Get(d))'
  BY DEF Gone, IdsOf, Live, Get
<1>2. d \notin torn' => Matches(chunks, registry, d)' /\ Matches(quarantine, registry, d)'
  BY DEF Matches, IdsOf
<1> QED  BY <1>1, <1>2 DEF DocumentIsSound

(* The claims of a sound document, without the names. *)
LEMMA SoundMeans ==
  ASSUME NEW d, DocumentIsSound(d), IsRegistry(registry)
  PROVE  /\ d \in deleted => /\ IdsOf(chunks, d) = {} /\ IdsOf(quarantine, d) = {}
                             /\ d \in DOMAIN registry => registry[d].tombstone
         /\ d \notin torn => Matches(chunks, registry, d) /\ Matches(quarantine, registry, d)
         /\ d \in withdrawn => /\ d \in DOMAIN registry /\ ~registry[d].tombstone
                               /\ registry[d].mfg = "obsolete"
<1>1. d \in DOMAIN registry => registry[d] # NoDoc
  BY AbsentAssumption DEF IsRegistry
<1>2. d \in deleted => (d \in DOMAIN registry => registry[d].tombstone)
  BY <1>1 DEF DocumentIsSound, Live, Get
<1> QED  BY <1>2 DEF DocumentIsSound, Gone

LEMMA QuietIsSound ==
  ASSUME ControlInv, DocumentInv, NEW p \in Procs, Serve(p), NEW x, At(p, x), x \notin Writing,
         NEW d, d = job[p].d
  PROVE  DocumentIsSound(d)'
<1>1. UNCHANGED <<registry, chunks, quarantine>>
  BY OnlyWritesWrite DEF tables
<1>2. deleted' = deleted /\ torn' = torn /\ (d \in withdrawn' => d \in withdrawn)
  BY HistoryOfLabel DEF Writing
<1>3. DocumentIsSound(d) /\ IsRegistry(registry)
  BY AtWork
<1> QED  BY <1>1, <1>2, <1>3, SoundMeans, SoundAfter

LEMMA PurgeIsSound ==
  ASSUME ControlInv, DocumentInv, NEW p \in Procs, Serve(p), Purge(p) \/ PurgeQuarantine(p),
         NEW d, d = job[p].d
  PROVE  DocumentIsSound(d)'
<1>1. PICK x \in {"purge", "purge_quarantine"} : At(p, x)
  BY LabelOfAction
<1>2. /\ DocumentIsSound(d) /\ IsRegistry(registry) /\ todo[p] # << >> /\ Head(todo[p]) = x
      /\ Knows(todo[p], job[p])
  BY <1>1, AtWork
<1>3. registry' = registry
  BY DEF Purge, PurgeQuarantine
<1>4. CASE x = "purge"
  <2>1. Purge(p)
    BY <1>1, <1>4, ActionOfLabel
  <2>2. chunks' = Purged(chunks, d) /\ quarantine' = quarantine
    BY <2>1 DEF Purge
  <2>3. d \in torn' /\ deleted' = deleted /\ (d \in withdrawn' => d \in withdrawn)
    BY <1>1, <1>4, HistoryOfLabel
  <2> QED  BY <1>2, <1>3, <2>2, <2>3, PurgedHere, SoundMeans, SoundAfter
<1>5. CASE x = "purge_quarantine"
  <2>1. PurgeQuarantine(p)
    BY <1>1, <1>5, ActionOfLabel
  <2>2. quarantine' = Purged(quarantine, d) /\ chunks' = chunks
    BY <2>1 DEF PurgeQuarantine
  <2>3. IdsOf(chunks', d) = {} /\ IdsOf(quarantine', d) = {}
    BY <1>2, <1>5, <2>2, PurgedHere DEF Knows
  <2>4. /\ d \in deleted' => d \in deleted \/ job[p].arg = "delete"
        /\ d \in withdrawn' => d \in withdrawn
    BY <1>1, <1>5, HistoryOfLabel
  <2>5. job[p].arg = "delete" => ~Live(Get(d))
    BY <1>2, <1>5 DEF Knows
  <2>6. d \in DOMAIN registry => registry[d] # NoDoc
    BY <1>2, AbsentAssumption DEF IsRegistry
  <2>7. d \in deleted' => (d \in DOMAIN registry => registry[d].tombstone)
    BY <1>2, <2>4, <2>5, <2>6, SoundMeans DEF Live, Get
  <2> QED  BY <1>2, <1>3, <2>3, <2>4, <2>7, EmptyTable, SoundMeans, SoundAfter
<1> QED  BY <1>4, <1>5

(* The rest of an ingest, and of a review that corrects the text. *)
LEMMA WriteIsSound ==
  ASSUME ControlInv, DocumentInv, NEW p \in Procs, Serve(p),
         Parents(p) \/ Clear(p) \/ Insert(p) \/ Register(p), NEW d, d = job[p].d
  PROVE  DocumentIsSound(d)'
<1> DEFINE j == job[p]
<1>1. PICK x \in {"parents", "clear", "insert", "put", "put_visual"} : At(p, x)
  BY LabelOfAction
<1>2. /\ DocumentIsSound(d) /\ IsRegistry(registry) /\ IsTable(chunks) /\ IsTable(quarantine)
      /\ todo[p] # << >> /\ Head(todo[p]) = x /\ Knows(todo[p], j)
      /\ Allowed(j.arg, x) /\ Bound(p, x, j)
  BY <1>1, AtWork
<1>3. j.arg \in Ingests \cup ReviewActions /\ j.arg # "delete"
  BY <1>2 DEF Allowed, Ingests, Texts, Pictures, ReviewActions
<1>4. d \notin deleted' /\ (d \in withdrawn' => d \in withdrawn)
  <2>1. d \notin deleted
    BY <1>2, <1>3 DEF Knows
  <2> QED  BY <1>1, <1>3, <2>1, HistoryOfLabel
<1>5. d \in withdrawn => /\ d \in DOMAIN registry /\ ~registry[d].tombstone
                         /\ registry[d].mfg = "obsolete"
  BY <1>2 DEF DocumentIsSound
<1>6. CASE x = "parents"
  <2>1. Parents(p)
    BY <1>1, <1>6, ActionOfLabel
  <2>2. registry' = WithParents(d) /\ chunks' = chunks /\ quarantine' = quarantine
    BY <2>1 DEF Parents
  <2>3. d \in DOMAIN registry => registry' = registry
    BY <2>2 DEF WithParents
  <2>4. torn' = torn
    BY <1>1, <1>6, HistoryOfLabel
  <2>5. d \notin torn => Matches(chunks, registry, d) /\ Matches(quarantine, registry, d)
    BY <1>2, SoundMeans
  <2>6. d \notin torn' => Matches(chunks', registry', d) /\ Matches(quarantine', registry', d)
    BY <2>2, <2>3, <2>4, <2>5, OtherRegistry
  <2> QED  BY <1>4, <1>5, <2>3, <2>6, SoundAfter
<1>7. CASE x \in {"clear", "insert"}
  <2>1. registry' = registry
    BY <1>1, <1>7, ActionOfLabel DEF Clear, Insert
  <2>2. j.arg \in Ingests
    BY <1>2, <1>7 DEF Allowed
  <2>3. d \in torn
    BY <1>2, <1>7, <2>2 DEF Knows
  <2>4. torn' = torn
    BY <1>1, <1>7, HistoryOfLabel
  <2> QED  BY <1>4, <1>5, <2>1, <2>3, <2>4, SoundAfter
<1>8. CASE x \in {"put", "put_visual"}
  <2>1. Register(p)
    BY <1>1, <1>8, ActionOfLabel
  <2>2. PICK row : /\ registry' = Put(registry, d, row) /\ row.checksum = j.c /\ row.tombstone = FALSE
                   /\ j.row # NoDoc => row.mfg = j.row.mfg
                   /\ chunks' = chunks /\ quarantine' = quarantine
    BY <2>1 DEF Register
  <2>3. d \in DOMAIN registry' /\ registry'[d] = row
    BY <2>2 DEF Put
  <2>4. j.arg \in Ingests /\ (x = "put" => j.arg \in Texts)
    BY <1>2, <1>8 DEF Allowed, Ingests
  <2>5. Holds(chunks, d, j.c) /\ Holds(quarantine, d, j.c)
    BY <1>2, <1>8, <2>4 DEF Knows
  <2>6. Matches(chunks', registry', d) /\ Matches(quarantine', registry', d)
    BY <2>2, <2>3, <2>5, TextIsRegistered
  <2>7. d \in withdrawn => j.row = Get(d)
    BY <1>2, <1>8, <2>4 DEF Knows
  <2>8. d \in withdrawn => registry'[d].mfg = "obsolete"
    <3>1. d \in DOMAIN registry => registry[d] # NoDoc
      BY <1>2, AbsentAssumption DEF IsRegistry
    <3> QED  BY <1>5, <2>2, <2>3, <2>7, <3>1 DEF Get
  <2> QED  BY <1>4, <2>2, <2>3, <2>6, <2>8, SoundAfter
<1> QED  BY <1>6, <1>7, <1>8

(* Read-modify-writes of the documents row, nobody between read and write. *)
LEMMA WriteBackIsSound ==
  ASSUME ControlInv, DocumentInv, NEW p \in Procs, Serve(p),
         PutRef(p) \/ PutMeta(p) \/ PutStub(p) \/ PutTombstone(p), NEW d, d = job[p].d
  PROVE  DocumentIsSound(d)'
<1> DEFINE j == job[p]
<1>1. PICK x \in {"put_ref", "put_meta", "put_stub", "put_tombstone"} : At(p, x)
  BY LabelOfAction
<1>2. /\ DocumentIsSound(d) /\ IsRegistry(registry)
      /\ todo[p] # << >> /\ Head(todo[p]) = x /\ Knows(todo[p], j)
      /\ Allowed(j.arg, x) /\ Bound(p, x, j) /\ j \in Job
  BY <1>1, AtWork
<1>3. j.row = Get(d) /\ chunks' = chunks /\ quarantine' = quarantine
  BY <1>1, <1>2 DEF Knows, PutRef, PutMeta, PutStub, PutTombstone, WriteBack
<1>4. /\ d \in DOMAIN registry => registry[d] \in DocRow /\ registry[d] # NoDoc /\ j.row = registry[d]
      /\ d \notin DOMAIN registry => j.row = NoDoc
  BY <1>2, <1>3, AbsentAssumption DEF IsRegistry, Get
<1>5. /\ d \in deleted => /\ IdsOf(chunks, d) = {} /\ IdsOf(quarantine, d) = {}
                          /\ d \in DOMAIN registry => registry[d].tombstone
      /\ d \notin torn => Matches(chunks, registry, d) /\ Matches(quarantine, registry, d)
      /\ d \in withdrawn => /\ d \in DOMAIN registry /\ ~registry[d].tombstone
                            /\ registry[d].mfg = "obsolete"
  BY <1>2, SoundMeans
<1>6. deleted' = deleted
  BY <1>1, HistoryOfLabel
<1>7. ASSUME /\ d \in DOMAIN registry <=> d \in DOMAIN registry'
             /\ d \in DOMAIN registry => registry'[d].checksum = registry[d].checksum
      PROVE  d \notin torn => Matches(chunks', registry', d) /\ Matches(quarantine', registry', d)
  BY <1>3, <1>5, <1>7, OtherRegistry
<1>8. CASE x = "put_ref"
  <2>1. registry' = IF j.row = NoDoc THEN registry ELSE Put(registry, d, j.row)
    BY <1>1, <1>8, ActionOfLabel DEF PutRef, WriteBack
  <2>2. /\ d \in DOMAIN registry <=> d \in DOMAIN registry'
        /\ d \in DOMAIN registry => registry'[d] = registry[d]
    BY <1>4, <2>1 DEF Put
  <2>3. torn' = torn /\ (d \in withdrawn' => d \in withdrawn)
    BY <1>1, <1>8, HistoryOfLabel
  <2> QED  BY <1>3, <1>5, <1>6, <1>7, <2>2, <2>3, SoundAfter
<1>9. CASE x = "put_meta"
  <2>1. registry' = IF j.row = NoDoc THEN registry
                    ELSE Put(registry, d, [j.row EXCEPT !.mfg = j.meta])
    BY <1>1, <1>9, ActionOfLabel DEF PutMeta, WriteBack
  <2>2. /\ d \in DOMAIN registry <=> d \in DOMAIN registry'
        /\ d \in DOMAIN registry => registry'[d] = [registry[d] EXCEPT !.mfg = j.meta]
    BY <1>4, <2>1 DEF Put
  <2>3. d \in DOMAIN registry => /\ registry'[d].mfg = j.meta
                                 /\ registry'[d].checksum = registry[d].checksum
                                 /\ registry'[d].tombstone = registry[d].tombstone
    BY <1>4, <2>2 DEF DocRow
  <2>4. torn' = torn
    BY <1>1, <1>9, HistoryOfLabel
  <2>5. d \in withdrawn' => d \in DOMAIN registry /\ ~registry[d].tombstone /\ j.meta = "obsolete"
    <3>1. CASE j.arg # "transition"
      <4>1. d \notin withdrawn'
        BY <1>1, <1>9, <3>1, LabelOfAction DEF Serve, Remember
      <4> QED  BY <4>1
    <3>2. CASE j.arg = "transition"
      <4>1. d \in withdrawn => j.meta = "obsolete"
        BY <1>2, <1>9, <3>2 DEF Knows
      <4>2. d \in withdrawn' /\ d \notin withdrawn => j.meta = "obsolete" /\ Live(j.row)
        BY <1>1, <1>9, <3>2, HistoryOfLabel
      <4>3. Live(j.row) => d \in DOMAIN registry /\ ~registry[d].tombstone
        BY <1>4 DEF Live
      <4> QED  BY <1>5, <4>1, <4>2, <4>3
    <3> QED  BY <3>1, <3>2
  <2> QED  BY <1>3, <1>5, <1>6, <1>7, <2>2, <2>3, <2>4, <2>5, SoundAfter
<1>10. CASE x = "put_stub"
  <2>1. j.arg = "pdf" /\ j.meta = NoMeta
    BY <1>2, <1>10 DEF Allowed, Bound
  <2> DEFINE old == IF j.row = NoDoc THEN StubDocument ELSE j.row
             row == [old EXCEPT !.checksum = j.c, !.tombstone = FALSE,
                                !.mfg = IF j.meta = NoMeta THEN @ ELSE j.meta]
  <2>2. registry' = Put(registry, d, row)
    BY <1>1, <1>10, ActionOfLabel DEF PutStub
  <2>3. d \in DOMAIN registry' /\ registry'[d] = row
    <3> HIDE DEF row
    <3> QED  BY <2>2 DEF Put
  <2>4. old \in DocRow
    BY <1>4 DEF StubDocument, DocRow
  <2>5. row.tombstone = FALSE /\ row.mfg = old.mfg
    <3> HIDE DEF old
    <3> QED  BY <2>1, <2>4 DEF DocRow
  <2>6. d \in torn' /\ (d \in withdrawn' => d \in withdrawn)
    BY <1>1, <1>10, HistoryOfLabel
  <2>7. d \in withdrawn => old.mfg = "obsolete"
    BY <1>4, <1>5
  <2>8. d \notin deleted
    BY <1>2, <2>1 DEF Knows, Api
  <2> HIDE DEF old, row
  <2> QED  BY <1>6, <2>3, <2>5, <2>6, <2>7, <2>8, SoundAfter
<1>11. CASE x = "put_tombstone"
  <2>1. registry' = IF j.row = NoDoc THEN registry
                    ELSE Put(registry, d, [j.row EXCEPT !.tombstone = TRUE])
    BY <1>1, <1>11, ActionOfLabel DEF PutTombstone, WriteBack
  <2>2. /\ d \in DOMAIN registry <=> d \in DOMAIN registry'
        /\ d \in DOMAIN registry => registry'[d] = [registry[d] EXCEPT !.tombstone = TRUE]
    BY <1>4, <2>1 DEF Put
  <2>3. d \in DOMAIN registry => /\ registry'[d].checksum = registry[d].checksum
                                 /\ registry'[d].tombstone
    BY <1>4, <2>2 DEF DocRow
  <2>4. torn' = torn /\ d \notin withdrawn'
    BY <1>1, <1>2, <1>11, HistoryOfLabel DEF Allowed
  <2> QED  BY <1>3, <1>5, <1>6, <1>7, <2>2, <2>3, <2>4, SoundAfter
<1> QED  BY <1>8, <1>9, <1>10, <1>11

LEMMA HideIsSound ==
  ASSUME ControlInv, DocumentInv, NEW p \in Procs, Serve(p), Hide(p) \/ HideQuarantine(p),
         NEW d, d = job[p].d
  PROVE  DocumentIsSound(d)'
<1>1. PICK x \in {"hide", "hide_quarantine"} : At(p, x)
  BY LabelOfAction
<1>2. /\ DocumentIsSound(d) /\ IsRegistry(registry) /\ IsTable(chunks) /\ IsTable(quarantine)
      /\ Allowed(job[p].arg, x)
  BY <1>1, AtWork
<1>3. deleted' = deleted /\ torn' = torn /\ d \notin withdrawn'
  BY <1>1, <1>2, HistoryOfLabel DEF Allowed
<1>4. /\ registry' = registry
      /\ chunks' = chunks \/ chunks' = Hidden(chunks, d)
      /\ quarantine' = quarantine \/ quarantine' = Hidden(quarantine, d)
  BY DEF Hide, HideQuarantine
<1>5. /\ IdsOf(chunks', d) = IdsOf(chunks, d) /\ IdsOf(quarantine', d) = IdsOf(quarantine, d)
      /\ Matches(chunks, registry, d) => Matches(chunks', registry, d)
      /\ Matches(quarantine, registry, d) => Matches(quarantine', registry, d)
  BY <1>2, <1>4, HiddenHere
<1> QED  BY <1>2, <1>3, <1>4, <1>5, SoundMeans, SoundAfter

LEMMA ReviewIsSound ==
  ASSUME ControlInv, DocumentInv, NEW p \in Procs, Serve(p),
         Promote(p) \/ Unpark(p) \/ InsertReview(p) \/ MarkReviewed(p), NEW d, d = job[p].d
  PROVE  DocumentIsSound(d)'
<1> DEFINE j == job[p]
<1>1. PICK x \in {"promote", "unpark", "clear_review", "insert_review", "mark_quarantined",
                  "mark_chunk"} : At(p, x)
  BY LabelOfAction
<1>2. /\ DocumentIsSound(d) /\ IsRegistry(registry) /\ IsTable(chunks) /\ IsTable(quarantine)
      /\ todo[p] # << >> /\ Head(todo[p]) = x /\ Knows(todo[p], j)
      /\ Allowed(j.arg, x) /\ Bound(p, x, j) /\ j \in Job
  BY <1>1, AtWork
<1>3. j.arg \in ReviewActions /\ j.id \in Docs \X Nat /\ j.id[1] = d /\ j.chunk \in ChunkRow
  BY <1>2, ArgsOfLabels DEF Bound
<1>4. j.arg # "delete"
  BY <1>3 DEF ReviewActions
<1>5. d \notin deleted
  BY <1>2, <1>3 DEF Knows
<1>6. /\ deleted' = deleted /\ torn' = torn /\ (d \in withdrawn' => d \in withdrawn)
      /\ registry' = registry
  BY <1>1, <1>4, HistoryOfLabel DEF Promote, Unpark, InsertReview, MarkReviewed
<1>7. d \notin torn => Matches(chunks, registry, d) /\ Matches(quarantine, registry, d)
  BY <1>2, SoundMeans
<1>8. SUFFICES ASSUME d \notin torn
               PROVE  Matches(chunks', registry, d) /\ Matches(quarantine', registry, d)
  BY <1>2, <1>5, <1>6, SoundMeans, SoundAfter
<1>9. CASE Promote(p)
  <2>1. quarantine' = quarantine
    BY <1>9 DEF Promote
  <2>2. CASE j.id \in DOMAIN quarantine
    <3> DEFINE row == [j.chunk EXCEPT !.content = quarantine[j.id].content,
                                      !.edited = quarantine[j.id].edited]
    <3>1. chunks' = Put(chunks, j.id, row)
      BY <1>9, <2>2 DEF Promote
    <3>2. row.content = quarantine[j.id].content /\ row.edited = quarantine[j.id].edited
      BY <1>3 DEF ChunkRow
    <3>3. j.id \in IdsOf(quarantine, d)
      BY <1>3, <2>2 DEF IdsOf
    <3> HIDE DEF row
    <3>4. d \in DOMAIN registry /\ (row.edited \/ row.content = registry[d].checksum)
      BY <1>7, <1>8, <3>2, <3>3 DEF Matches
    <3> QED  BY <1>7, <1>8, <2>1, <3>1, <3>4, PutHere
  <2>3. CASE j.id \notin DOMAIN quarantine
    <3>1. chunks' = chunks
      BY <1>9, <2>3 DEF Promote
    <3> QED  BY <1>7, <1>8, <2>1, <3>1
  <2> QED  BY <2>2, <2>3
<1>10. CASE Unpark(p)
  BY <1>7, <1>8, <1>10, WithoutHere DEF Unpark
<1>11. CASE InsertReview(p)
  <2>1. x = "insert_review"
    BY <1>1, <1>11, LabelOfAction DEF At
  <2>2. j.chunk.edited /\ d \in DOMAIN registry
    BY <1>2, <2>1 DEF Knows, Allowed
  <2>3. chunks' = Put(chunks, j.id, j.chunk) /\ quarantine' = quarantine
    BY <1>11 DEF InsertReview
  <2> QED  BY <1>7, <1>8, <2>2, <2>3, PutHere
<1>12. CASE MarkReviewed(p)
  BY <1>2, <1>7, <1>8, <1>12, DecideHere DEF MarkReviewed
<1> QED  BY <1>9, <1>10, <1>11, <1>12

LEMMA StepIsSound ==
  ASSUME ControlInv, DocumentInv, NEW p \in Procs, Serve(p), NEW d, d = job[p].d
  PROVE  DocumentIsSound(d)'
<1>1. PICK x : At(p, x)
  BY OthersRest DEF At
<1>2. CASE x \notin Writing
  BY <1>1, <1>2, QuietIsSound
<1>3. CASE x \in Writing
  <2>1. \/ Purge(p) \/ PurgeQuarantine(p) \/ Parents(p) \/ Clear(p) \/ Insert(p) \/ Register(p)
        \/ PutRef(p) \/ PutMeta(p) \/ PutStub(p) \/ PutTombstone(p) \/ Hide(p) \/ HideQuarantine(p)
        \/ Promote(p) \/ Unpark(p) \/ InsertReview(p) \/ MarkReviewed(p)
    BY <1>1, <1>3, ActionOfLabel DEF Writing
  <2> QED  BY <2>1, PurgeIsSound, WriteIsSound, WriteBackIsSound, HideIsSound, ReviewIsSound
<1> QED  BY <1>2, <1>3

-------------------------------------------------------------------------------
(* What a process knows at its next statement. *)

(* The text it skipped is the one that is registered. *)
LEMMA RowAfterExisting ==
  ASSUME ControlInv, NEW p \in Procs, ReadExisting(p), Serve(p), todo'[p] # << >>,
         Head(todo'[p]) \notin {"settle", "get"}
  PROVE  job'[p].row = Get(job[p].d)
<1> DEFINE s == todo[p]
<1>1. At(p, "existing")
  BY DEF ReadExisting
<1>2. s # << >> /\ Head(s) = "existing" /\ Program(s, job[p].arg) /\ job[p].arg \in Texts
      /\ job[p] \in Job
  BY <1>1, AtKnows, TablesAreTyped DEF Allowed
<1>3. CASE Skip(p, Len(IngestText))
  <2>1. todo'[p] = SubSeq(s, 5 + 1, Len(s))
    <3>1. Len(IngestText) = 5
      BY DEF IngestText
    <3> QED  BY <1>3, <3>1, MoveMoves, TablesAreTyped DEF Skip, Moved
  <2>2. 5 + 1 \in 1..Len(s) /\ Head(todo'[p]) = s[5 + 1]
    BY <1>2, <2>1, RestOfProgram
  <2> QED  BY <1>2, <2>2, AfterText
<1>4. CASE Continue(p, [job[p] EXCEPT !.row = Get(job[p].d)])
  <2>1. job'[p] = [job[p] EXCEPT !.row = Get(job[p].d)]
    BY <1>4, MoveMoves, TablesAreTyped DEF Continue, Moved
  <2> QED  BY <1>2, <2>1 DEF Job
<1> QED  BY <1>3, <1>4 DEF ReadExisting

(* The statements that may come before y, for a request that may do both. *)
LEMMA Before ==
  ASSUME NEW a, NEW x, NEW y, Follows(x, y), Allowed(a, x), Allowed(a, y)
  PROVE  /\ y \in {"put_ref", "put_meta", "put_stub", "put_tombstone"} => x = "get"
         /\ y = "put_visual" => x = "reread"
         /\ y = "purge" => x \in {"existing", "analyse", "hide_quarantine"}
         /\ y = "purge" /\ a \in Texts => x = "existing"
         /\ y = "purge" /\ a = "delete" => x = "hide_quarantine"
         /\ y = "purge_quarantine" => x = "purge"
         /\ y \in {"embed", "split"} => x = "purge_quarantine"
         /\ y = "parents" => x \in {"embed", "split", "look"}
         /\ y = "parents" /\ a \in Ingests => x \in {"embed", "split"}
         /\ y = "parents" /\ a = "edit_and_approve" => x = "look"
         /\ y = "clear" => x \in {"parents", "insert"}
         /\ y = "insert" => x = "clear"
         /\ y = "put" => x \in {"embed", "insert"}
         /\ y = "reread" => x \in {"split", "insert"}
         /\ y = "hide" => x = "put_tombstone"
         /\ y = "hide_quarantine" => x = "hide"
         /\ y = "clear_review" => x = "parents"
         /\ y = "insert_review" => x = "clear_review"
         /\ y = "get" /\ a = "transition" => x \in {"legal", "put_meta"}
<1>1. Ingests = {"ingest", "sync", "publish", "image", "pages"}
  BY DEF Ingests, Texts, Pictures
<1>2. {"look", "edit_and_approve", "delete", "transition"} \cap (Ingests \cup Api) = {}
  BY <1>1 DEF Api
<1>3. "edit_and_approve" \in ReviewActions /\ ReviewActions \cap Ingests = {}
  BY <1>1 DEF ReviewActions
<1>4. Texts \cap Pictures = {} /\ Texts \subseteq Ingests /\ Pictures \subseteq Ingests
  BY DEF Ingests, Texts, Pictures
<1>5. y \in {"put_ref", "put_meta", "put_stub", "put_tombstone"} => x = "get"
  BY DEF Follows, Leads
<1>6. y = "put_visual" => x = "reread"
  BY DEF Follows, Leads
<1>7. /\ y = "purge" => x \in {"existing", "analyse", "hide_quarantine"}
      /\ y = "purge_quarantine" => x = "purge"
      /\ y \in {"embed", "split"} => x = "purge_quarantine"
      /\ y = "parents" => x \in {"embed", "split", "look"}
  BY DEF Follows, Leads
<1>8. /\ y = "clear" => x \in {"parents", "insert"}
      /\ y = "insert" => x = "clear"
      /\ y = "put" => x \in {"embed", "insert"}
      /\ y = "reread" => x \in {"split", "insert"}
      /\ y = "hide" => x = "put_tombstone"
      /\ y = "hide_quarantine" => x = "hide"
      /\ y = "clear_review" => x = "parents"
      /\ y = "insert_review" => x = "clear_review"
  BY DEF Follows, Leads
<1>9. /\ y = "purge" /\ a \in Texts => x = "existing"
      /\ y = "purge" /\ a = "delete" => x = "hide_quarantine"
  <2>1. "delete" \notin Texts /\ "delete" \notin Pictures
    BY DEF Texts, Pictures
  <2> QED  BY <1>4, <1>7, <2>1 DEF Allowed
<1>10. /\ y = "parents" /\ a \in Ingests => x \in {"embed", "split"}
       /\ y = "parents" /\ a = "edit_and_approve" => x = "look"
  BY <1>2, <1>3, <1>4, <1>7 DEF Allowed
<1>11. y = "get" /\ a = "transition" => x \in {"legal", "put_meta"}
  <2>1. y = "get" => x \in {"requeue", "put", "put_visual", "settle", "put_ref", "put_meta", "legal",
                            "create", "already", "existing", "analyse", "embed"}
    BY DEF Follows, Leads
  <2> QED  BY <1>2, <1>4, <2>1 DEF Allowed
<1> QED  BY <1>5, <1>6, <1>7, <1>8, <1>9, <1>10, <1>11

(* Knows with the state it is about, one claim after the other. *)
LEMMA KnowsAfter ==
  ASSUME NEW p \in Procs, NEW d, NEW y, todo'[p] # << >>, Head(todo'[p]) = y, job'[p].d = d,
         y \in {"put_ref", "put_meta", "put_stub", "put_tombstone", "put_visual"}
           => job'[p].row = Get(d)',
         y \in {"purge", "purge_quarantine", "embed", "parents", "clear", "insert", "put"}
           => (job'[p].arg \in Texts /\ d \in withdrawn' => job'[p].row = Get(d)'),
         job'[p].arg = "delete" /\ y \in {"hide", "hide_quarantine", "purge", "purge_quarantine"}
           => ~Live(Get(d)'),
         y = "purge_quarantine" => d \in torn' /\ IdsOf(chunks', d) = {},
         y \in {"embed", "split"}
           => d \in torn' /\ IdsOf(chunks', d) = {} /\ IdsOf(quarantine', d) = {},
         job'[p].arg \in Ingests /\ y \in {"parents", "clear", "insert", "reread", "put", "put_visual"}
           => d \in torn' /\ Holds(chunks', d, job'[p].c) /\ Holds(quarantine', d, job'[p].c),
         job'[p].arg = "edit_and_approve" /\ y \in {"parents", "clear_review", "insert_review"}
           => job'[p].chunk.edited,
         y \in {"clear_review", "insert_review"} => d \in DOMAIN registry',
         job'[p].arg \in Ingests \cup Api \cup ReviewActions => d \notin deleted',
         job'[p].arg = "transition" /\ y \in {"get", "put_meta"} /\ d \in withdrawn'
           => job'[p].meta = "obsolete"
  PROVE  Knows(todo[p], job[p])'
<1>1. /\ \A e : Get(e)' = IF e \in DOMAIN registry' THEN registry'[e] ELSE NoDoc
      /\ \A e : IdsOf(chunks, e)' = IdsOf(chunks', e)
      /\ \A e : IdsOf(quarantine, e)' = IdsOf(quarantine', e)
  BY DEF Get, IdsOf
<1>2. /\ \A e, c : Holds(chunks, e, c)' <=> Holds(chunks', e, c)
      /\ \A e, c : Holds(quarantine, e, c)' <=> Holds(quarantine', e, c)
  BY DEF Holds, IdsOf
<1> QED  BY <1>1, <1>2 DEF Knows, Gone, Get, Live, Holds, IdsOf

LEMMA StepKnows ==
  ASSUME ControlInv, DocumentInv, NEW p \in Procs, Serve(p), NEW d, d = job[p].d
  PROVE  Knows(todo[p], job[p])'
<1> DEFINE j == job[p]
           k == job'[p]
           a == job[p].arg
           y == Head(todo'[p])
<1>1. CASE todo'[p] = << >>
  BY <1>1 DEF Knows
<1>2. CASE todo'[p] # << >>
  <2>1. PICK x : At(p, x)
    BY OthersRest DEF At
  <2>2. /\ DocumentIsSound(d) /\ IsRegistry(registry) /\ IsTable(chunks) /\ IsTable(quarantine)
        /\ todo[p] # << >> /\ Head(todo[p]) = x /\ Knows(todo[p], j)
        /\ Allowed(a, x) /\ Bound(p, x, j) /\ j \in Job
    BY <2>1, AtWork
  <2>3. NextLocals(p) /\ k.d = d /\ k.arg = a /\ k.c = j.c /\ k.meta = j.meta
    BY <1>2, LocalsChangeLittle DEF NextLocals
  <2>4. Follows(x, y) /\ Allowed(a, y)
    BY <1>2, <2>2, NextStatement
  <2>5. \A z : At(p, z) <=> z = x
    BY <2>1 DEF At
  <2>6. x \notin Writing => registry' = registry /\ chunks' = chunks /\ quarantine' = quarantine
    BY <2>1, OnlyWritesWrite DEF tables
  <2>7. registry' = registry => Get(d)' = Get(d)
    BY DEF Get
  <2>8. d \in withdrawn => d \in DOMAIN registry
    BY <2>2 DEF DocumentIsSound
  <2>9. Texts \subseteq Ingests /\ "delete" \notin Texts \cup Ingests \cup Api \cup ReviewActions
        /\ "transition" \notin Texts
    BY DEF Texts, Pictures, Ingests, Api, ReviewActions
  <2>10. /\ y \in {"put_ref", "put_meta", "put_stub", "put_tombstone"} => x = "get"
         /\ y = "put_visual" => x = "reread"
         /\ y = "purge" /\ a \in Texts => x = "existing"
         /\ y = "purge" /\ a = "delete" => x = "hide_quarantine"
         /\ y = "purge_quarantine" => x = "purge"
         /\ y \in {"embed", "split"} => x = "purge_quarantine"
         /\ y = "parents" /\ a \in Ingests => x \in {"embed", "split"}
         /\ y = "parents" /\ a = "edit_and_approve" => x = "look"
         /\ y = "clear" => x \in {"parents", "insert"}
         /\ y = "insert" => x = "clear"
         /\ y = "put" => x \in {"embed", "insert"}
         /\ y = "reread" => x \in {"split", "insert"}
         /\ y = "hide" => x = "put_tombstone"
         /\ y = "hide_quarantine" => x = "hide"
         /\ y = "clear_review" => x = "parents"
         /\ y = "insert_review" => x = "clear_review"
         /\ y = "get" /\ a = "transition" => x \in {"legal", "put_meta"}
    BY <2>2, <2>4, Before
  <2>11. y \in {"put_ref", "put_meta", "put_stub", "put_tombstone", "put_visual"} => k.row = Get(d)'
    <3> SUFFICES ASSUME x \in {"get", "reread"} PROVE k.row = Get(d)'
      BY <2>10
    <3>1. k.row = Get(d)
      BY <2>3, <2>5 DEF NextLocals
    <3> QED  BY <2>6, <2>7, <3>1 DEF Writing
  <2>12. y \in {"purge", "purge_quarantine", "embed", "parents", "clear", "insert", "put"}
           => (a \in Texts /\ d \in withdrawn' => k.row = Get(d)')
    <3> SUFFICES ASSUME y \in {"purge", "purge_quarantine", "embed", "parents", "clear", "insert", "put"},
                        a \in Texts, d \in withdrawn'
                 PROVE  k.row = Get(d)'
      OBVIOUS
    <3>1. d \in withdrawn
      BY <2>1, <2>9, HistoryOfLabel
    <3>2. CASE x = "existing"
      <4>1. k.row = Get(d)
        BY <1>2, <2>1, <3>2, ActionOfLabel, RowAfterExisting
      <4> QED  BY <2>6, <2>7, <3>2, <4>1 DEF Writing
    <3>3. CASE x \in {"purge", "purge_quarantine", "embed", "parents", "clear", "insert"}
      <4>1. j.row = Get(d)
        BY <2>2, <3>1, <3>3 DEF Knows
      <4>2. k.row = j.row
        BY <2>3, <2>5, <3>3 DEF NextLocals
      <4>3. registry' = registry
        <5>1. CASE x = "parents"
          BY <2>1, <2>8, <3>1, <5>1, ActionOfLabel DEF Parents, WithParents
        <5>2. CASE x = "embed"
          BY <2>6, <5>2 DEF Writing
        <5>3. CASE x \in {"purge", "purge_quarantine", "clear", "insert"}
          BY <2>1, <5>3, ActionOfLabel DEF Purge, PurgeQuarantine, Clear, Insert
        <5> QED  BY <3>3, <5>1, <5>2, <5>3
      <4> QED  BY <2>7, <4>1, <4>2, <4>3
    <3>4. x \in {"existing", "purge", "purge_quarantine", "embed", "parents", "clear", "insert"}
      <4>1. "split" \notin {"purge"} /\ (x = "split" => a \in Pictures)
        BY <2>2 DEF Allowed
      <4>2. Texts \cap Pictures = {}
        BY DEF Texts, Pictures
      <4> QED  BY <2>9, <2>10, <4>1, <4>2
    <3> QED  BY <3>2, <3>3, <3>4
  <2>13. a = "delete" /\ y \in {"hide", "hide_quarantine", "purge", "purge_quarantine"}
           => ~Live(Get(d)')
    <3> SUFFICES ASSUME a = "delete", y \in {"hide", "hide_quarantine", "purge", "purge_quarantine"}
                 PROVE  ~Live(Get(d)')
      OBVIOUS
    <3>1. CASE x = "put_tombstone"
      <4>1. PutTombstone(p)
        BY <2>1, <3>1, ActionOfLabel
      <4>2. registry' = IF j.row = NoDoc THEN registry
                        ELSE Put(registry, d, [j.row EXCEPT !.tombstone = TRUE])
        BY <4>1 DEF PutTombstone, WriteBack
      <4>3. j.row = Get(d)
        BY <2>2, <3>1 DEF Knows
      <4>4. CASE j.row = NoDoc
        BY <2>7, <4>2, <4>3, <4>4 DEF Live
      <4>5. CASE j.row # NoDoc
        <5>1. j.row \in DocRow
          BY <2>2, <4>5 DEF Job
        <5>2. Get(d)' = [j.row EXCEPT !.tombstone = TRUE]
          BY <4>2, <4>5 DEF Put, Get
        <5>3. [j.row EXCEPT !.tombstone = TRUE].tombstone
          BY <5>1 DEF DocRow
        <5> QED  BY <5>2, <5>3 DEF Live
      <4> QED  BY <4>4, <4>5
    <3>2. CASE x \in {"hide", "hide_quarantine", "purge"}
      <4>1. ~Live(Get(d))
        BY <2>2, <3>2 DEF Knows
      <4>2. registry' = registry
        BY <2>1, <3>2, ActionOfLabel DEF Hide, HideQuarantine, Purge
      <4> QED  BY <2>7, <4>1, <4>2
    <3> QED  BY <2>10, <3>1, <3>2
  <2>14. y = "purge_quarantine" => d \in torn' /\ IdsOf(chunks', d) = {}
    <3> SUFFICES ASSUME x = "purge" PROVE d \in torn' /\ IdsOf(chunks', d) = {}
      BY <2>10
    <3>1. chunks' = Purged(chunks, d)
      BY <2>1, ActionOfLabel DEF Purge
    <3> QED  BY <2>1, <3>1, HistoryOfLabel, PurgedHere
  <2>15. y \in {"embed", "split"}
           => d \in torn' /\ IdsOf(chunks', d) = {} /\ IdsOf(quarantine', d) = {}
    <3> SUFFICES ASSUME x = "purge_quarantine"
                 PROVE  d \in torn' /\ IdsOf(chunks', d) = {} /\ IdsOf(quarantine', d) = {}
      BY <2>10
    <3>1. quarantine' = Purged(quarantine, d) /\ chunks' = chunks
      BY <2>1, ActionOfLabel DEF PurgeQuarantine
    <3>2. d \in torn /\ IdsOf(chunks, d) = {}
      BY <2>2 DEF Knows
    <3> QED  BY <1>2, <2>1, <3>1, <3>2, HistoryOfLabel, PurgedHere
  <2>16. a \in Ingests /\ y \in {"parents", "clear", "insert", "reread", "put", "put_visual"}
           => d \in torn' /\ Holds(chunks', d, j.c) /\ Holds(quarantine', d, j.c)
    <3> SUFFICES ASSUME a \in Ingests, y \in {"parents", "clear", "insert", "reread", "put", "put_visual"}
                 PROVE  d \in torn' /\ Holds(chunks', d, j.c) /\ Holds(quarantine', d, j.c)
      OBVIOUS
    <3>1. x \in {"embed", "split", "parents", "clear", "insert", "reread"}
      BY <2>10
    <3>2. d \in torn' <=> d \in torn
      BY <2>1, <3>1, HistoryOfLabel
    <3>3. d \in torn /\ Holds(chunks, d, j.c) /\ Holds(quarantine, d, j.c)
      <4>1. CASE x \in {"embed", "split"}
        BY <2>2, <4>1, EmptyTable DEF Knows, Gone
      <4>2. CASE x \in {"parents", "clear", "insert", "reread"}
        BY <2>2, <4>2 DEF Knows
      <4> QED  BY <3>1, <4>1, <4>2
    <3>4. CASE x \in {"embed", "split", "reread"}
      BY <2>6, <3>2, <3>3, <3>4 DEF Writing
    <3>5. CASE x = "parents"
      BY <2>1, <3>2, <3>3, <3>5, ActionOfLabel DEF Parents
    <3>6. CASE x = "clear"
      <4>1. Clear(p)
        BY <2>1, <3>6, ActionOfLabel
      <4>2. /\ chunks' = chunks \/ chunks' = Without(chunks, {ChunkId(p)})
            /\ quarantine' = quarantine \/ quarantine' = Without(quarantine, {ChunkId(p)})
        BY <4>1 DEF Clear
      <4> QED  BY <3>2, <3>3, <4>2, WithoutHere
    <3>7. CASE x = "insert"
      <4>1. Insert(p)
        BY <2>1, <3>7, ActionOfLabel
      <4>2. j.c \in Contents
        BY <2>2 DEF Bound
      <4>3. NewChunk(j.c).content = j.c
        BY <4>2, NewChunkIsRow
      <4>4. /\ chunks' = chunks \/ chunks' = Put(chunks, ChunkId(p), NewChunk(j.c))
            /\ quarantine' = quarantine \/ quarantine' = Put(quarantine, ChunkId(p), NewChunk(j.c))
        BY <4>1 DEF Insert
      <4> QED  BY <3>2, <3>3, <4>3, <4>4, PutHere
    <3> QED  BY <3>1, <3>4, <3>5, <3>6, <3>7
  <2>17. a = "edit_and_approve" /\ y \in {"parents", "clear_review", "insert_review"}
           => k.chunk.edited
    <3> SUFFICES ASSUME a = "edit_and_approve", y \in {"parents", "clear_review", "insert_review"}
                 PROVE  k.chunk.edited
      OBVIOUS
    <3>1. CASE x = "look"
      BY <2>3, <2>5, <3>1 DEF NextLocals
    <3>2. CASE x \in {"parents", "clear_review"}
      <4>1. j.chunk.edited
        BY <2>2, <3>2 DEF Knows
      <4>2. k.chunk = j.chunk
        BY <2>3, <2>5, <3>2 DEF NextLocals
      <4> QED  BY <4>1, <4>2
    <3> QED  BY <2>10, <3>1, <3>2
  <2>18. y \in {"clear_review", "insert_review"} => d \in DOMAIN registry'
    <3>1. CASE x = "parents"
      <4>1. registry' = WithParents(d)
        BY <2>1, <3>1, ActionOfLabel DEF Parents
      <4> HIDE DEF j, k, a, y
      <4> QED  BY <4>1 DEF WithParents, Put
    <3>2. CASE x = "clear_review"
      <4>1. d \in DOMAIN registry
        BY <2>2, <3>2 DEF Knows
      <4>2. registry' = registry
        BY <2>1, <3>2, ActionOfLabel DEF Unpark
      <4> QED  BY <4>1, <4>2
    <3> QED  BY <2>10, <3>1, <3>2
  <2>19. a \in Ingests \cup Api \cup ReviewActions => d \notin deleted'
    <3> SUFFICES ASSUME a \in Ingests \cup Api \cup ReviewActions PROVE d \notin deleted'
      OBVIOUS
    <3>1. d \notin deleted
      BY <2>2 DEF Knows
    <3>2. a # "delete"
      BY <2>9
    <3> QED  BY <2>1, <3>1, <3>2, HistoryOfLabel
  <2>20. a = "transition" /\ y \in {"get", "put_meta"} /\ d \in withdrawn' => j.meta = "obsolete"
    <3> SUFFICES ASSUME a = "transition", y \in {"get", "put_meta"}, d \in withdrawn'
                 PROVE  j.meta = "obsolete"
      OBVIOUS
    <3>1. CASE x = "legal"
      <4>1. d \in withdrawn
        BY <2>1, <3>1, HistoryOfLabel
      <4>2. MfgMeta(d) = "obsolete"
        <5>1. d \in DOMAIN registry /\ ~registry[d].tombstone /\ registry[d].mfg = "obsolete"
          BY <2>2, <4>1 DEF DocumentIsSound
        <5>2. registry[d] # NoDoc
          BY <2>2, <5>1, AbsentAssumption DEF IsRegistry
        <5> QED  BY <5>1, <5>2 DEF MfgMeta, Live, Get
      <4>3. LifecycleRank[j.meta] >= LifecycleRank[StatusOf(MfgMeta(d))]
        <5>1. Legal(p)
          BY <2>1, <3>1, ActionOfLabel
        <5>2. ~Abort(p)
          BY <1>2, MoveMoves, TablesAreTyped DEF Abort, Moved
        <5> QED  BY <5>1, <5>2 DEF Legal, Check
      <4>4. j.meta \in ApprovalStatus
        BY <2>2 DEF Bound, Decisions
      <4>5. "obsolete" # NoMeta
        BY StatusNames, AbsentAssumption
      <4>6. StatusOf(MfgMeta(d)) = "obsolete"
        BY <4>2, <4>5 DEF StatusOf
      <4> QED  BY <4>3, <4>4, <4>6 DEF LifecycleRank, ApprovalStatus
    <3>2. CASE x \in {"get", "put_meta"}
      <4>1. d \in withdrawn => j.meta = "obsolete"
        BY <2>2, <3>2 DEF Knows
      <4>2. d \notin withdrawn => j.meta = "obsolete"
        BY <2>1, <3>2, HistoryOfLabel
      <4> QED  BY <4>1, <4>2
    <3> QED  BY <2>10, <3>1, <3>2
  <2> HIDE DEF j, k, a, y
  <2> QED  BY <1>2, <2>3, <2>11, <2>12, <2>13, <2>14, <2>15, <2>16, <2>17, <2>18, <2>19, <2>20,
              KnowsAfter DEF j, k, a, y
<1> QED  BY <1>1, <1>2

-------------------------------------------------------------------------------
(* All steps keep what is known of the documents. *)

LEMMA SoundRemains ==
  ASSUME NEW d, DocumentIsSound(d), SameDocument(d),
         d \in deleted' => d \in deleted, d \in torn => d \in torn',
         d \in withdrawn' => d \in withdrawn
  PROVE  DocumentIsSound(d)'
<1>1. /\ d \in DOMAIN registry' <=> d \in DOMAIN registry
      /\ d \in DOMAIN registry => registry'[d] = registry[d]
      /\ IdsOf(chunks', d) = IdsOf(chunks, d)
      /\ \A id \in IdsOf(chunks, d) : chunks'[id] = chunks[id]
      /\ IdsOf(quarantine', d) = IdsOf(quarantine, d)
      /\ \A id \in IdsOf(quarantine, d) : quarantine'[id] = quarantine[id]
  BY DEF SameDocument, SameRow, SameRows
<1>2. Get(d)' = Get(d)
  BY <1>1 DEF Get
<1>3. Gone(d)' <=> Gone(d)
  BY <1>1 DEF Gone, IdsOf
<1>4. /\ Matches(chunks, registry, d) => Matches(chunks', registry', d)
      /\ Matches(quarantine, registry, d) => Matches(quarantine', registry', d)
  BY <1>1 DEF Matches
<1>5. /\ Matches(chunks, registry, d)' <=> Matches(chunks', registry', d)
      /\ Matches(quarantine, registry, d)' <=> Matches(quarantine', registry', d)
  BY DEF Matches, IdsOf
<1>6. Live(Get(d))' <=> Live(Get(d))
  BY <1>2 DEF Live
<1> QED  BY <1>1, <1>3, <1>4, <1>5, <1>6 DEF DocumentIsSound

LEMMA KnowsRemains ==
  ASSUME NEW s, NEW j, Knows(s, j), SameDocument(j.d),
         j.d \in deleted' => j.d \in deleted, j.d \in torn => j.d \in torn',
         j.d \in withdrawn' => j.d \in withdrawn,
         NEW q, todo'[q] = s, job'[q] = j
  PROVE  Knows(todo[q], job[q])'
<1> DEFINE d == j.d
<1>1. /\ d \in DOMAIN registry' <=> d \in DOMAIN registry
      /\ d \in DOMAIN registry => registry'[d] = registry[d]
      /\ IdsOf(chunks', d) = IdsOf(chunks, d)
      /\ \A id \in IdsOf(chunks, d) : chunks'[id] = chunks[id]
      /\ IdsOf(quarantine', d) = IdsOf(quarantine, d)
      /\ \A id \in IdsOf(quarantine, d) : quarantine'[id] = quarantine[id]
  BY DEF SameDocument, SameRow, SameRows
<1>2. /\ \A e : Get(e)' = IF e \in DOMAIN registry' THEN registry'[e] ELSE NoDoc
      /\ \A e : IdsOf(chunks, e)' = IdsOf(chunks', e)
      /\ \A e : IdsOf(quarantine, e)' = IdsOf(quarantine', e)
  BY DEF Get, IdsOf
<1>3. /\ \A e, c : Holds(chunks, e, c)' <=> Holds(chunks', e, c)
      /\ \A e, c : Holds(quarantine, e, c)' <=> Holds(quarantine', e, c)
      /\ \A c : Holds(chunks, d, c) => Holds(chunks', d, c)
      /\ \A c : Holds(quarantine, d, c) => Holds(quarantine', d, c)
  BY <1>1, <1>2 DEF Holds, IdsOf
<1>4. (IF d \in DOMAIN registry' THEN registry'[d] ELSE NoDoc) = Get(d)
  BY <1>1 DEF Get
<1>5. \A e : Gone(e)' <=> IdsOf(chunks', e) = {} /\ IdsOf(quarantine', e) = {}
  BY <1>2 DEF Gone
<1>6. \A e : Live(Get(e))' <=> Live(IF e \in DOMAIN registry' THEN registry'[e] ELSE NoDoc)
  BY <1>2 DEF Live
<1> QED  BY <1>1, <1>2, <1>3, <1>4, <1>5, <1>6 DEF Knows, Gone

LEMMA StepKeepsDocuments ==
  ASSUME ControlInv, DocumentInv, NEW p \in Procs, Serve(p)
  PROVE  DocumentInv'
<1>1. /\ \A q \in Procs \ {p} : todo'[q] = todo[q] /\ job'[q] = job[q]
      /\ todo[p] # << >>
  BY OthersRest
<1>2. todo'[p] # << >> => job'[p].d = job[p].d
  BY LocalsChangeLittle DEF NextLocals
<1>3. Alone'
  BY <1>1, <1>2 DEF DocumentInv, Alone
<1>4. ASSUME NEW d \in Docs PROVE DocumentIsSound(d)'
  <2>1. CASE d = job[p].d
    BY <2>1, StepIsSound
  <2>2. CASE d # job[p].d
    BY <2>2, StepElsewhere, SoundRemains DEF DocumentInv
  <2> QED  BY <2>1, <2>2
<1>5. ASSUME NEW q \in Procs PROVE Knows(todo[q], job[q])'
  <2>1. CASE q = p
    BY <2>1, StepKnows
  <2>2. CASE q # p /\ todo[q] = << >>
    <3>1. todo'[q] = << >>
      BY <1>1, <2>2
    <3> QED  BY <3>1 DEF Knows
  <2>3. CASE q # p /\ todo[q] # << >>
    <3>1. job[q].d # job[p].d
      BY <1>1, <2>3 DEF DocumentInv, Alone
    <3>2. Knows(todo[q], job[q])
      BY DEF DocumentInv
    <3>3. todo'[q] = todo[q] /\ job'[q] = job[q]
      BY <1>1, <2>3
    <3>4. /\ SameDocument(job[q].d)
          /\ job[q].d \in deleted' => job[q].d \in deleted
          /\ job[q].d \in torn => job[q].d \in torn'
          /\ job[q].d \in withdrawn' => job[q].d \in withdrawn
      BY <3>1, StepElsewhere
    <3> QED  BY <3>2, <3>3, <3>4, KnowsRemains
  <2> QED  BY <2>1, <2>2, <2>3
<1> QED  BY <1>3, <1>4, <1>5 DEF DocumentInv

LEMMA AskKeepsDocuments ==
  ASSUME ControlInv, DocumentInv, ~Overlapping, Ask
  PROVE  DocumentInv'
<1>1. PICK p \in Procs : \E r, s : Asks(p, r, s)
  BY AskAsks
<1>2. PICK r, s : Asks(p, r, s)
  BY <1>1
<1>3. /\ todo[p] = << >> /\ todo'[p] = s /\ job'[p] = r /\ UNCHANGED tables
      /\ \A q \in Procs \ {p} : todo'[q] = todo[q] /\ job'[q] = job[q]
  BY <1>2, BeginsWell
<1>4. /\ deleted' = deleted \ {job'[q].d : q \in {o \in Procs : Asked(o) /\ Ingesting(o)}}
      /\ torn' = torn /\ withdrawn' = withdrawn
  BY DEF Ask
<1>5. \A d : SameDocument(d)
  BY <1>3, QuietElsewhere
<1>6. Alone'
  <2>1. \A q \in Procs : job[q].d # r.d
    BY <1>2 DEF Asks, Free
  <2> QED  BY <1>3, <2>1 DEF DocumentInv, Alone
<1>7. ASSUME NEW d \in Docs PROVE DocumentIsSound(d)'
  BY <1>4, <1>5, SoundRemains DEF DocumentInv
<1>8. ASSUME NEW q \in Procs \ {p} PROVE Knows(todo[q], job[q])'
  <2>1. Knows(todo[q], job[q]) /\ todo'[q] = todo[q] /\ job'[q] = job[q]
    BY <1>3 DEF DocumentInv
  <2> QED  BY <1>4, <1>5, <2>1, KnowsRemains
<1>9. Knows(todo[p], job[p])'
  <2>1. s # << >> /\ Bound(p, Head(s), r)
    BY <1>2 DEF Asks
  <2>2. r.arg \in Ingests \cup Api \cup ReviewActions => r.d \notin deleted'
    <3>1. CASE r.arg \in Ingests \cup Api
      <4>1. Asked(p)
        BY <1>3, <2>1 DEF Asked
      <4>2. Ingesting(p)
        BY <1>3, <3>1 DEF Ingesting, Ingests, Texts, Pictures, Api
      <4> QED  BY <1>3, <1>4, <4>1, <4>2
    <3>2. CASE r.arg \in ReviewActions
      <4>1. InReview(r.id) /\ r.id[1] = r.d /\ r.d \in Docs
        BY <1>2, <2>1, <3>2 DEF Asks, Bound
      <4>2. ~Gone(r.d)
        BY <4>1 DEF InReview, Gone, IdsOf
      <4>3. r.d \notin deleted
        BY <4>1, <4>2 DEF DocumentInv, DocumentIsSound
      <4> QED  BY <1>4, <4>3
    <3> QED  BY <3>1, <3>2
  <2>3. /\ Head(s) \in {"create", "mark_running", "get", "legal", "ready", "available", "look",
                        "audit_read", "decide", "publishable"}
        /\ Head(s) = "get" => r.arg \in {"delete", "import", "update"}
    BY <1>2 DEF Asks
  <2> QED  BY <1>3, <2>2, <2>3 DEF Knows
<1> QED  BY <1>6, <1>7, <1>8, <1>9 DEF DocumentInv

LEMMA DeathKeepsDocuments ==
  ASSUME ControlInv, DocumentInv, NEW p \in Procs, Die(p)
  PROVE  DocumentInv'
<1>1. Abort(p) /\ UNCHANGED <<tables, history>>
  BY DEF Die, Crash
<1>2. /\ todo'[p] = << >>
      /\ \A q \in Procs \ {p} : todo'[q] = todo[q] /\ job'[q] = job[q]
  BY <1>1, MoveMoves, TablesAreTyped DEF Abort, Moved
<1>3. Alone'
  BY <1>2 DEF DocumentInv, Alone
<1>4. \A d : SameDocument(d)
  BY <1>1, QuietElsewhere
<1>5. deleted' = deleted /\ torn' = torn /\ withdrawn' = withdrawn
  BY <1>1 DEF history
<1>6. ASSUME NEW d \in Docs PROVE DocumentIsSound(d)'
  BY <1>4, <1>5, SoundRemains DEF DocumentInv
<1>7. ASSUME NEW q \in Procs PROVE Knows(todo[q], job[q])'
  <2>1. CASE q = p
    BY <1>2, <2>1 DEF Knows
  <2>2. CASE q # p
    <3>1. Knows(todo[q], job[q]) /\ todo'[q] = todo[q] /\ job'[q] = job[q]
      BY <1>2, <2>2 DEF DocumentInv
    <3> QED  BY <1>4, <1>5, <3>1, KnowsRemains
  <2> QED  BY <2>1, <2>2
<1> QED  BY <1>3, <1>6, <1>7 DEF DocumentInv

LEMMA DocumentInvariant ==
  ASSUME ~Overlapping
  PROVE  Spec => []DocumentInv
<1>1. Init => DocumentInv
  <2> SUFFICES ASSUME Init PROVE DocumentInv
    OBVIOUS
  <2>1. /\ todo = [p \in Procs |-> << >>] /\ chunks = << >> /\ quarantine = << >>
        /\ deleted = {} /\ torn = {} /\ withdrawn = {} /\ DOMAIN << >> = {}
    BY DEF Init, IngestInit, StoreInit
  <2>2. \A d : DocumentIsSound(d)
    BY <2>1 DEF DocumentIsSound, Matches, IdsOf
  <2> QED  BY <2>1, <2>2 DEF DocumentInv, Alone, Knows
<1>2. ControlInv /\ DocumentInv /\ [Next]_vars => DocumentInv'
  <2> SUFFICES ASSUME ControlInv, DocumentInv, [Next]_vars PROVE DocumentInv'
    OBVIOUS
  <2>1. CASE Ask
    BY <2>1, AskKeepsDocuments
  <2>2. ASSUME NEW p \in Procs, Serve(p) PROVE DocumentInv'
    BY <2>2, StepKeepsDocuments
  <2>3. ASSUME NEW p \in Procs, Die(p) PROVE DocumentInv'
    BY <2>3, DeathKeepsDocuments
  <2>4. CASE UNCHANGED vars
    <3>1. UNCHANGED tables /\ todo' = todo /\ job' = job
          /\ deleted' = deleted /\ torn' = torn /\ withdrawn' = withdrawn
      BY <2>4 DEF vars, control, history
    <3>2. \A d : SameDocument(d)
      BY <3>1, QuietElsewhere
    <3>3. Alone'
      BY <3>1 DEF DocumentInv, Alone
    <3>4. ASSUME NEW d \in Docs PROVE DocumentIsSound(d)'
      BY <3>1, <3>2, SoundRemains DEF DocumentInv
    <3>5. ASSUME NEW q \in Procs PROVE Knows(todo[q], job[q])'
      BY <3>1, <3>2, KnowsRemains DEF DocumentInv
    <3> QED  BY <3>3, <3>4, <3>5 DEF DocumentInv
  <2> QED  BY <2>1, <2>2, <2>3, <2>4 DEF Next
<1> QED  BY <1>1, <1>2, ControlInvariant, PTL DEF Spec

(* A document whose deletion finished is in no answer and not live in the   *)
(* registry until it is ingested again (ProductionSystem.delete_document),  *)
(* for any number of processes and any crashes, provided no two requests    *)
(* work on one document at a time.                                          *)
THEOREM DeletionHolds ==
  ASSUME ~Overlapping
  PROVE  Spec => []DeletedStaysGone
<1>1. ControlInv /\ DocumentInv => DeletedStaysGone
  <2> SUFFICES ASSUME ControlInv, DocumentInv, NEW d \in deleted
               PROVE  Served(d) = {} /\ ~Live(Get(d))
    BY DEF DeletedStaysGone
  <2>1. CASE d \in Docs
    BY <2>1 DEF DocumentInv, DocumentIsSound, Gone, Served
  <2>2. CASE d \notin Docs
    BY <2>2, TablesAreTyped DEF IsTable, IsRegistry, Served, IdsOf, Get, Live
  <2> QED  BY <2>1, <2>2
<1> QED  BY <1>1, ControlInvariant, DocumentInvariant, PTL

(* What is served of a document whose newest ingest ran to its end is all   *)
(* of the one text the registry names, edits by a reviewer apart            *)
(* (IngestionService.ingest, _persist_visual_results): the purge, the       *)
(* writes and the registration are separate statements.                     *)
THEOREM ServedTextIsRegistered ==
  ASSUME ~Overlapping
  PROVE  Spec => []ServedIsRegistered
<1>1. DocumentInv => ServedIsRegistered
  BY DEF DocumentInv, DocumentIsSound, Matches, ServedIsRegistered, Served
<1> QED  BY <1>1, DocumentInvariant, PTL

(* A document declared obsolete in the workflow does not become approved    *)
(* again by a later step of the workflow (ApprovalWorkflow.transition).     *)
THEOREM ObsoleteHolds ==
  ASSUME ~Overlapping
  PROVE  Spec => []ObsoleteIsKept
<1>1. ControlInv /\ DocumentInv => ObsoleteIsKept
  <2> SUFFICES ASSUME ControlInv, DocumentInv, NEW d \in withdrawn, Live(Get(d))
               PROVE  MfgMeta(d) = "obsolete"
    BY DEF ObsoleteIsKept
  <2>1. d \in Docs
    BY TablesAreTyped DEF Get, Live, IsRegistry
  <2> QED  BY <2>1 DEF DocumentInv, DocumentIsSound, MfgMeta
<1> QED  BY <1>1, ControlInvariant, DocumentInvariant, PTL

----
(* What the gates on a document extraction can and cannot do (DocumentAnalysis). *)

(* The reading order is a counter, over Docling's blocks and over those OCR appends, *)
(* so the gate on a disordered layout, "high_reading_order_risk", can never fire for *)
(* a document Docling parsed (classify_parsed_document_quality,                      *)
(* document_quality_dimensions).                                                     *)
THEOREM ReadingOrderIsPosition ==
  ASSUME NEW S, NEW kept \in Seq(S), NEW P, NEW toRead \in Seq(P), NEW eyes,
         Bar.disorder \in Nat
  PROVE  ~Disordered(WithOcr(Normalized(kept), toRead, eyes))
<1> DEFINE first == Normalized(kept)
           second == [k \in DOMAIN toRead |-> ReadBlock(eyes, toRead[k], Len(first) + k - 1)]
           all == WithOcr(first, toRead, eyes)
<1>1. /\ Len(kept) \in Nat /\ DOMAIN kept = 1..Len(kept)
      /\ Len(toRead) \in Nat /\ DOMAIN toRead = 1..Len(toRead)
  OBVIOUS
<1>2. first = [n \in 1..Len(kept) |-> first[n]] /\ Len(first) = Len(kept)
  BY <1>1 DEF Normalized
<1>3. second = [k \in 1..Len(toRead) |-> second[k]] /\ Len(second) = Len(toRead)
  BY <1>1
<1>4. \A n \in 1..Len(kept) : first[n].order = n - 1
  BY <1>1 DEF Normalized
<1>5. \A k \in 1..Len(toRead) : second[k].order = Len(kept) + k - 1
  BY <1>1, <1>2 DEF ReadBlock
<1>6. all = first \o second
  BY DEF WithOcr
<1>7. /\ DOMAIN all = 1..(Len(kept) + Len(toRead))
      /\ Len(all) = Len(kept) + Len(toRead)
      /\ \A n \in 1..Len(kept) : all[n] = first[n]
      /\ \A n \in (Len(kept) + 1)..(Len(kept) + Len(toRead)) : all[n] = second[n - Len(kept)]
  <2> HIDE DEF first, second, all
  <2> QED  BY <1>1, <1>2, <1>3, <1>6
<1>8. \A n \in DOMAIN all : all[n].order = n - 1
  <2> HIDE DEF first, second, all
  <2>1. SUFFICES ASSUME NEW n \in 1..(Len(kept) + Len(toRead))  PROVE all[n].order = n - 1
    BY <1>7
  <2>2. CASE n \in 1..Len(kept)
    BY <1>4, <1>7, <2>2
  <2>3. CASE n \in (Len(kept) + 1)..(Len(kept) + Len(toRead))
    <3>1. n - Len(kept) \in 1..Len(toRead)
      BY <1>1, <2>3
    <3>2. second[n - Len(kept)].order = Len(kept) + (n - Len(kept)) - 1
      BY <1>5, <3>1
    <3> QED  BY <1>1, <1>7, <2>3, <3>2
  <2> QED  BY <1>1, <2>2, <2>3
<1>9. Inversions(all) = {}
  <2> HIDE DEF all
  <2> QED  BY <1>1, <1>7, <1>8 DEF Inversions
<1>10. Cardinality(Inversions(all)) = 0
  BY <1>9, FS_EmptySet
<1>11. 0 * 100 <= Bar.disorder * (Len(all) - 1) \/ Len(all) < 2
  <2>1. \A m, n \in Nat : m * n >= 0
    OBVIOUS
  <2>2. Len(all) \in Nat
    <3> HIDE DEF all
    <3> QED  BY <1>1, <1>7
  <2>3. Len(all) >= 2 => Len(all) - 1 \in Nat
    BY <2>2
  <2> HIDE DEF all
  <2> QED  BY <2>1, <2>2, <2>3
<1>12. Len(all) \in Int
  <2> HIDE DEF all
  <2> QED  BY <1>1, <1>7
<1>13. ~Disordered(all)
  <2> HIDE DEF all
  <2>1. Len(all) >= 2 => ~(0 * 100 > Bar.disorder * (Len(all) - 1))
    <3>1. Len(all) >= 2 => Bar.disorder * (Len(all) - 1) \in Int
      BY <1>12
    <3> QED  BY <1>11, <1>12, <3>1
  <2> QED  BY <1>10, <2>1 DEF Disordered
<1> QED  BY <1>13

(* A page nothing could read sends the whole document to review: unless the caller's *)
(* metadata says otherwise, none of its chunks, of whatever page, is retrieved       *)
(* (apply_external_ocr "fail loud", the provider_error gate).                        *)
THEOREM UnreadPageHoldsTheDocument ==
  ASSUME NEW file, NEW eyes, NEW foreign, NEW given,
         {"status", "retrievable"} \cap DOMAIN given = {},
         NEW k \in DOMAIN ToRead(file, Normalized(Kept(file.items))),
         Reading(eyes, ToRead(file, Normalized(Kept(file.items)))[k]) = "review_required",
         NEW c
  PROVE  ~RetrievalEligible(Stored(c, Floor(Docling(file, eyes), foreign), given))
<1> DEFINE doc == Docling(file, eyes)
           toRead == ToRead(file, Normalized(Kept(file.items)))
<1>1. /\ doc.provider = "docling"
      /\ doc.results = {"accepted"} \union Results(toRead, eyes)
  BY DEF Docling, Parsed
<1>2. "review_required" \in doc.results
  BY <1>1 DEF Results
<1>3. doc.results \cap {"error", "unavailable"} = {}
  BY <1>1 DEF Results, Reading
<1>4. "provider_error" \in Reasons(doc, foreign)
  <2> HIDE DEF doc
  <2> QED  BY <1>1, <1>2, <1>3 DEF Reasons, ProviderFailed
<1>5. Floor(doc, foreign) = "review_required"
  BY <1>4 DEF Floor
<1>6. ChunkStatus(c, Floor(doc, foreign)) = "review_required"
  BY <1>5 DEF ChunkStatus, Blocking
<1>7. Stored(c, Floor(doc, foreign), given).retrievable = FALSE
  BY <1>6 DEF Stored, QualityRecord, Blocking
<1> QED  BY <1>7 DEF RetrievalEligible

(* Every page of a PDF that Docling found nothing on gets a block with text, if only  *)
(* the note that it was not read; so "high_empty_page_risk" never fires for a PDF     *)
(* (document_quality_dimensions counts the text of the blocks after the OCR).         *)
THEOREM NoPdfPageLooksBare ==
  ASSUME NEW S, NEW blocks \in Seq(S), NEW P, NEW toRead \in Seq(P), NEW eyes, NEW pages,
         \A n \in DOMAIN blocks : blocks[n].text.chars \in Nat,
         \A p \in P : eyes.seen[p].chars \in Nat /\ eyes.draft[p].chars \in Nat,
         \A p \in pages : p \in Empty(blocks, {p}) => \E k \in DOMAIN toRead : toRead[k] = p
  PROVE  Bare(WithOcr(blocks, toRead, eyes), pages) = {}
<1> DEFINE second == [k \in DOMAIN toRead |-> ReadBlock(eyes, toRead[k], Len(blocks) + k - 1)]
           all == WithOcr(blocks, toRead, eyes)
<1>1. /\ Len(blocks) \in Nat /\ DOMAIN blocks = 1..Len(blocks)
      /\ Len(toRead) \in Nat /\ DOMAIN toRead = 1..Len(toRead)
  OBVIOUS
<1>2. Len(second) = Len(toRead) /\ second = [k \in 1..Len(toRead) |-> second[k]]
  BY <1>1
<1>3. \A k \in DOMAIN toRead : second[k].page = toRead[k] /\ second[k].text.chars # 0
  <2>1. SUFFICES ASSUME NEW k \in DOMAIN toRead
                 PROVE  second[k].page = toRead[k] /\ second[k].text.chars # 0
    OBVIOUS
  <2>2. toRead[k] \in P
    BY <1>1
  <2>3. second[k].page = toRead[k]
    BY DEF ReadBlock
  <2>4. second[k].text = CASE Reading(eyes, toRead[k]) = "ocr_filled" -> eyes.seen[toRead[k]]
                           [] Reading(eyes, toRead[k]) = "draft_visual" -> eyes.draft[toRead[k]]
                           [] OTHER -> Placeholder
    BY DEF ReadBlock
  <2>5. CASE Reading(eyes, toRead[k]) = "ocr_filled"
    BY <2>2, <2>3, <2>4, <2>5 DEF Reading
  <2>6. CASE Reading(eyes, toRead[k]) = "draft_visual"
    BY <2>2, <2>3, <2>4, <2>6 DEF Reading
  <2>7. CASE Reading(eyes, toRead[k]) = "review_required"
    BY <2>3, <2>4, <2>7 DEF Placeholder, NoText
  <2> QED  BY <2>5, <2>6, <2>7 DEF Reading
<1>4. /\ DOMAIN all = 1..(Len(blocks) + Len(toRead))
      /\ \A n \in 1..Len(blocks) : all[n] = blocks[n]
      /\ \A k \in 1..Len(toRead) : all[Len(blocks) + k] = second[k]
  <2>1. all = blocks \o second
    BY DEF WithOcr
  <2> HIDE DEF second, all
  <2> QED  BY <1>1, <1>2, <2>1
<1>5. SUFFICES ASSUME NEW p \in pages
               PROVE  \E n \in OnPage(all, p) : all[n].text.chars # 0
  BY DEF Bare
<1>6. CASE p \in Empty(blocks, {p})
  <2>1. PICK k \in DOMAIN toRead : toRead[k] = p
    BY <1>6
  <2>2. /\ Len(blocks) + k \in DOMAIN all
        /\ all[Len(blocks) + k].page = p
        /\ all[Len(blocks) + k].text.chars # 0
    <3> HIDE DEF second, all
    <3> QED  BY <1>1, <1>3, <1>4, <2>1
  <2> QED  BY <2>2 DEF OnPage
<1>7. CASE p \notin Empty(blocks, {p})
  <2>1. PICK n \in DOMAIN blocks : blocks[n].page = p /\ blocks[n].text.chars # 0
    BY <1>7 DEF Empty
  <2>2. n \in DOMAIN all /\ all[n] = blocks[n]
    <3> HIDE DEF second, all
    <3> QED  BY <1>1, <1>4, <2>1
  <2> QED  BY <2>1, <2>2 DEF OnPage
<1> QED  BY <1>6, <1>7

(* A warning of Docling's confidence report is lost: whatever is low enough for it    *)
(* ("low < 0.3" of _quality_from_confidence) is below the bar of the gate, so no      *)
(* document of Docling's has the floor accepted_with_warnings, as long as that bar    *)
(* stands at 30 or more.                                                              *)
THEOREM WarningNeverSurvives ==
  ASSUME NEW file, NEW eyes, NEW foreign,
         file.confidence.low \in Int, Bar.low \in Nat, Bar.low >= 30
  PROVE  Floor(Docling(file, eyes), foreign) \in {"accepted", "review_required"}
<1> DEFINE doc == Docling(file, eyes)
<1>1. doc.confidence = file.confidence /\ doc.status = Confident(file.confidence)
  BY DEF Docling, Parsed
<1>2. CASE file.confidence.low >= 0 /\ file.confidence.low < 30
  <2>1. Below(file.confidence.low, Bar.low)
    BY <1>2 DEF Below
  <2>2. "low_ocr_confidence_p10" \in Reasons(doc, foreign)
    <3> HIDE DEF doc
    <3> QED  BY <1>1, <2>1 DEF Reasons
  <2> QED  BY <2>2 DEF Floor
<1>3. CASE ~(file.confidence.low >= 0 /\ file.confidence.low < 30)
  <2>1. doc.status = "accepted"
    BY <1>1, <1>3 DEF Confident
  <2> HIDE DEF doc
  <2>2. Floor(doc, foreign) \in {"accepted", "review_required"}
    BY <2>1 DEF Floor
  <2> QED  BY <2>2 DEF doc
<1> QED  BY <1>2, <1>3

(* What a block is held back for holds its chunk back: a vision draft is no evidence, *)
(* whatever its text and its document look like (draft_visual, section 10).           *)
THEOREM HeldBlockIsNoEvidence ==
  ASSUME NEW chunk, chunk.status \in Blocking, NEW floor, NEW given,
         {"status", "retrievable"} \cap DOMAIN given = {}
  PROVE  /\ ~RetrievalEligible(Stored(chunk, floor, given))
         /\ Stored(chunk, floor, given).status \in Blocking
<1>1. ChunkStatus(chunk, floor) \in Blocking
  BY DEF ChunkStatus
<1>2. /\ Stored(chunk, floor, given).retrievable = FALSE
      /\ Stored(chunk, floor, given).status = ChunkStatus(chunk, floor)
  BY <1>1 DEF Stored, QualityRecord
<1> QED  BY <1>1, <1>2 DEF RetrievalEligible
===============================================================================
