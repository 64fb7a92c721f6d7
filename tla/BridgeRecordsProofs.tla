------------------------- MODULE BridgeRecordsProofs -------------------------
(***************************************************************************)
(* For any number of issues and entries, of any number of parts, and       *)
(* however many calls fail and processes die: the copies are exact.        *)
(*                                                                         *)
(* The argument: what the task has learnt from the calls it made is true   *)
(* until its next call, since nobody else writes to Feishu: the name it    *)
(* looked for is not there, the document has begun, the entries it is      *)
(* about to append are not in it and are later than all that are.  So      *)
(* whether a call is answered, or is taken and its answer lost, Feishu is  *)
(* as it should be; and work that starts again looks first.                *)
(***************************************************************************)
EXTENDS BridgeRecords, FiniteSetTheorems, SequenceTheorems, TLAPS

Doing(calls) == sync # None /\ sync.at \in calls

\* Entries of issue i that are not in S are in its document, or later than S.
Reaches(i, S) ==
  S \subseteq Of(i) /\ \A e \in Of(i) \ S : Has(i, e) \/ \A p \in S : p < e

\* What is not in a document is later than all that is.
NothingSkipped ==
  \A i \in Issues : docs[i] # <<>> =>
    \A e \in Of(i) : ~Has(i, e) => \A n \in DOMAIN Lines(i) : Lines(i)[n] < e

\* What the task knows of the folder and the document when it makes a call.
DocumentIsKnown ==
  LET i == sync.issue IN
  /\ Doing({"make folder"}) => folders = 0
  /\ Doing({"create"}) => docs[i] = <<>>
  /\ Doing({"fetch", "header", "append", "notify"}) => docs[i] # <<>>
  /\ Doing({"header"}) => Lines(i) = <<>>
  /\ Doing({"append", "notify"}) => Has(i, Header)
  /\ Doing({"fetch", "header", "append"}) => Reaches(i, sync.pending)
  /\ Doing({"append"}) => \A e \in sync.pending : ~Has(i, e)

\* What it knows of the rows of the entry it copies.
RowIsKnown ==
  LET e == sync.key[1]
      n == sync.key[2] IN
  /\ Doing(RecordCalls) =>
       /\ sync.key \in Key /\ e \in DOMAIN entry /\ n <= entry[e].parts
       /\ \A m \in 1 .. (n - 1) : history[<<e, m>>] = 1
  /\ Doing({"write"}) => history[sync.key] = 0

\* A document that is ready has its header, and its link was sent once, then.
ReadyHasBegun ==
  \A i \in Issues :
    /\ item[i].ready \/ item[i].notified => docs[i] # <<>> /\ Has(i, Header)
    /\ links[i] = IF item[i].notified THEN 1 ELSE 0

IInv == /\ TypeOK /\ CopiesAreExact /\ NothingSkipped /\ DocumentIsKnown /\ RowIsKnown
        /\ ReadyHasBegun

-----------------------------------------------------------------------------
\* The constants, and the positions of entries, are numbers.
LEMMA Bounds ==
  /\ MaxParts \in Nat \ {0} /\ MaxEntries \in Nat /\ MaxFailures \in Nat /\ MaxCrashes \in Nat
  /\ Header \in Line /\ 1 .. MaxEntries \subseteq Line /\ \A e \in 1 .. MaxEntries : Header < e
BY BridgeRecordsAssumption DEF Line, Header

LEMMA Entries ==
  ASSUME TypeOK
  PROVE  /\ Len(entry) \in Nat /\ DOMAIN entry = 1 .. Len(entry)
         /\ DOMAIN entry \subseteq 1 .. MaxEntries
         /\ \A e \in DOMAIN entry : entry[e] \in Entry
         /\ \A i \in Issues : Of(i) \subseteq DOMAIN entry
<1>1. entry \in Seq(Entry) /\ Len(entry) <= MaxEntries
  BY DEF TypeOK
<1>2. Len(entry) \in Nat /\ DOMAIN entry = 1 .. Len(entry) /\ \A e \in DOMAIN entry : entry[e] \in Entry
  BY <1>1
<1>3. MaxEntries \in Nat
  BY Bounds
<1>4. \A e \in DOMAIN entry : e \in 1 .. MaxEntries
  BY <1>1, <1>2, <1>3
<1>5. \A i \in Issues : Of(i) \subseteq DOMAIN entry
  BY DEF Of
<1> QED BY <1>2, <1>4, <1>5

\* Entries in their order are lines, and they are those entries.
LEMMA OrderedLines ==
  ASSUME NEW S, S \subseteq 1 .. MaxEntries, NEW s \in Ordered(S)
  PROVE  /\ s \in Seq(Line) /\ Len(s) \in Nat /\ DOMAIN s = 1 .. Len(s)
         /\ \A n \in 1 .. Len(s) : s[n] \in S
         /\ \A e \in S : \E n \in 1 .. Len(s) : s[n] = e
         /\ \A m, n \in 1 .. Len(s) : m < n => s[m] < s[n]
<1>1. IsFiniteSet(1 .. MaxEntries)
  BY Bounds, FS_Interval
<1>2. IsFiniteSet(S)
  BY <1>1, FS_Subset
<1>3. Cardinality(S) \in Nat
  BY <1>2, FS_CardinalityType
<1>4. s \in [1 .. Cardinality(S) -> S] /\ Range(s) = S
      /\ \A m, n \in DOMAIN s : m < n => s[m] < s[n]
  BY DEF Ordered
<1>5. S \subseteq Line
  BY Bounds
<1>6. s \in Seq(Line) /\ Len(s) = Cardinality(S) /\ DOMAIN s = 1 .. Len(s)
  <2> DEFINE c == Cardinality(S)
  <2>1. c \in Nat /\ s \in [1 .. c -> S]
    BY <1>3, <1>4
  <2> HIDE DEF c
  <2>2. s \in [1 .. c -> Line]
    BY <2>1, <1>5
  <2>3. s \in Seq(Line)
    BY <2>1, <2>2
  <2>4. Len(s) = c /\ DOMAIN s = 1 .. Len(s)
    BY <2>1, <2>2, <2>3
  <2> QED BY <2>3, <2>4 DEF c
<1>7. Range(s) = {s[n] : n \in 1 .. Len(s)}
  BY <1>6 DEF Range
<1>8. \A n \in 1 .. Len(s) : s[n] \in S
  BY <1>4, <1>7
<1>9. \A e \in S : \E n \in 1 .. Len(s) : s[n] = e
  BY <1>4, <1>7
<1> QED BY <1>3, <1>4, <1>6, <1>8, <1>9

\* Lines with further lines below them.
LEMMA Below ==
  ASSUME NEW s \in Seq(Line), NEW t \in Seq(Line)
  PROVE  /\ s \o t \in Seq(Line)
         /\ Len(s) \in Nat /\ Len(t) \in Nat /\ Len(s \o t) = Len(s) + Len(t)
         /\ DOMAIN (s \o t) = 1 .. (Len(s) + Len(t))
         /\ \A n \in 1 .. Len(s) : (s \o t)[n] = s[n]
         /\ \A n \in 1 .. Len(t) : (s \o t)[Len(s) + n] = t[n]
         /\ \A n \in DOMAIN (s \o t) :
              n \in 1 .. Len(s) \/ \E k \in 1 .. Len(t) : n = Len(s) + k
<1>1. /\ s \o t \in Seq(Line)
      /\ Len(s) \in Nat /\ Len(t) \in Nat /\ Len(s \o t) = Len(s) + Len(t)
      /\ DOMAIN (s \o t) = 1 .. (Len(s) + Len(t))
  OBVIOUS
<1>2. \A n \in 1 .. Len(s) : (s \o t)[n] = s[n]
  OBVIOUS
<1>3. \A n \in 1 .. Len(t) : (s \o t)[Len(s) + n] = t[n]
  OBVIOUS
<1>4. ASSUME NEW n \in 1 .. (Len(s) + Len(t)), n \notin 1 .. Len(s)
      PROVE  \E k \in 1 .. Len(t) : n = Len(s) + k
  <2>1. n - Len(s) \in 1 .. Len(t) /\ n = Len(s) + (n - Len(s))
    BY <1>1, <1>4
  <2> QED BY <2>1
<1> QED BY <1>1, <1>2, <1>3, <1>4

-----------------------------------------------------------------------------
(* What a call that is taken does to Feishu. *)

\* Feishu holds one folder, one document per issue and one row per part.
Cloud ==
  /\ folders \in Nat /\ folders <= 1
  /\ docs \in [Issues -> Seq(Seq(Line))] /\ \A i \in Issues : Len(docs[i]) <= 1
  /\ history \in [Key -> Nat] /\ HistoryOnce
  /\ DocumentInOrder /\ NothingSkipped

\* Nothing is taken away from it.
Grows ==
  /\ folders <= folders'
  /\ \A i \in Issues : docs[i] # <<>> =>
       /\ docs'[i] # <<>>
       /\ \A line \in Line : Has(i, line) => Has(i, line)'
  /\ \A k \in Key : history[k] = 1 => history'[k] = 1

\* What the task may go by when its call is answered.
Learnt ==
  \A i \in Issues : sync.issue = i =>
  /\ sync.at = "make folder" => folders' = 1
  /\ sync.at = "create" => docs'[i] # <<>>
  /\ sync.at = "header" => Has(i, Header)' /\ \A e \in 1 .. MaxEntries : ~Has(i, e)'
  /\ sync.at = "append" => \A e \in sync.pending : Has(i, e)'
  /\ sync.at \in {"header", "append", "fetch"} => docs'[i] # <<>>
  /\ sync.at = "write" => history'[sync.key] = 1
  /\ sync.at \in {"folder", "list", "fetch", "find"} => UNCHANGED cloud

\* The fields of the task's work.
LEMMA WorkFields ==
  ASSUME TypeOK, sync # None
  PROVE  /\ sync \in [at : DocCalls \cup RecordCalls \cup {"notify"}, issue : Issues,
                      pending : SUBSET DOMAIN entry, key : Key \cup {None}]
         /\ sync.issue \in Issues /\ sync.pending \subseteq DOMAIN entry
         /\ sync.key \in Key \cup {None}
BY DEF TypeOK

\* The invariant says that Feishu is as it should be.
LEMMA CloudHolds ==
  ASSUME IInv
  PROVE  Cloud
BY DEF IInv, TypeOK, CopiesAreExact, OneDocument, Cloud

\* Sequences of length one: their element, and putting another in its place.
LEMMA OneLong ==
  ASSUME NEW S, NEW q \in Seq(S), q # <<>>, Len(q) <= 1, NEW x \in S
  PROVE  /\ Len(q) = 1 /\ DOMAIN q = 1 .. 1 /\ q[1] \in S
         /\ [q EXCEPT ![1] = x] \in Seq(S) /\ Len([q EXCEPT ![1] = x]) = 1
         /\ [q EXCEPT ![1] = x] # <<>> /\ [q EXCEPT ![1] = x][1] = x
<1>0. Len(q) \in Nat /\ DOMAIN q = 1 .. Len(q) /\ (Len(q) = 0 => q = <<>>)
  BY EmptySeq, LenProperties
<1>1. Len(q) = 1
  BY <1>0
<1>2. DOMAIN q = 1 .. 1 /\ q[1] \in S
  BY <1>1
<1>3. [q EXCEPT ![1] = x] \in Seq(S) /\ Len([q EXCEPT ![1] = x]) = 1 /\ [q EXCEPT ![1] = x][1] = x
  BY <1>1, <1>2
<1> QED BY <1>1, <1>2, <1>3

\* A document that is there is one sequence of lines; these are its lines.
LEMMA TheDocument ==
  ASSUME docs \in [Issues -> Seq(Seq(Line))], NEW i \in Issues, docs[i] # <<>>, Len(docs[i]) <= 1
  PROVE  /\ Len(docs[i]) = 1 /\ DOMAIN docs[i] = 1 .. 1 /\ docs[i] \in Seq(Seq(Line))
         /\ Lines(i) \in Seq(Line) /\ Len(Lines(i)) \in Nat /\ DOMAIN Lines(i) = 1 .. Len(Lines(i))
         /\ \A line : Has(i, line) <=> \E n \in 1 .. Len(Lines(i)) : Lines(i)[n] = line
<1>1. docs[i] \in Seq(Seq(Line)) /\ <<>> \in Seq(Line)
  OBVIOUS
<1>2. Len(docs[i]) = 1 /\ DOMAIN docs[i] = 1 .. 1
  BY <1>1, OneLong
<1>3. docs[i][1] \in Seq(Line)
  BY <1>1, OneLong
<1>4. Lines(i) \in Seq(Line) /\ Len(Lines(i)) \in Nat /\ DOMAIN Lines(i) = 1 .. Len(Lines(i))
  BY <1>3 DEF Lines
<1>5. \A line : Has(i, line) <=> \E n \in 1 .. Len(Lines(i)) : Lines(i)[n] = line
  BY <1>4 DEF Has, Range
<1> QED BY <1>1, <1>2, <1>4, <1>5

\* Writing puts the new lines below the old ones, and touches no other document.
LEMMA Wrote ==
  ASSUME docs \in [Issues -> Seq(Seq(Line))], NEW i \in Issues, docs[i] # <<>>,
         Len(docs[i]) <= 1, NEW t \in Seq(Line), WriteLines(i, t)
  PROVE  /\ docs' \in [Issues -> Seq(Seq(Line))]
         /\ docs'[i] # <<>> /\ Len(docs'[i]) <= 1
         /\ Lines(i)' = Lines(i) \o t
         /\ \A j \in Issues : j # i => docs'[j] = docs[j]
         /\ folders' = folders /\ history' = history
<1>1. docs[i] \in Seq(Seq(Line)) /\ DOMAIN docs[i] = 1 .. 1 /\ Len(docs[i]) = 1
  BY TheDocument
<1>2. Lines(i) \in Seq(Line) /\ Lines(i) = docs[i][1]
  BY TheDocument DEF Lines
<1>3. Lines(i) \o t \in Seq(Line)
  BY <1>2
<1>4. docs' = [docs EXCEPT ![i] = [docs[i] EXCEPT ![1] = Lines(i) \o t]]
  BY <1>2 DEF WriteLines
<1>5. /\ [docs[i] EXCEPT ![1] = Lines(i) \o t] \in Seq(Seq(Line))
      /\ Len([docs[i] EXCEPT ![1] = Lines(i) \o t]) = 1
      /\ [docs[i] EXCEPT ![1] = Lines(i) \o t] # <<>>
      /\ [docs[i] EXCEPT ![1] = Lines(i) \o t][1] = Lines(i) \o t
  BY <1>1, <1>3, OneLong
<1>6. /\ docs' \in [Issues -> Seq(Seq(Line))]
      /\ docs'[i] = [docs[i] EXCEPT ![1] = Lines(i) \o t]
      /\ \A j \in Issues : j # i => docs'[j] = docs[j]
  BY <1>4, <1>5
<1>7. docs'[i] # <<>> /\ Len(docs'[i]) <= 1
  BY <1>5, <1>6
<1>8. Lines(i)' = Lines(i) \o t
  BY <1>5, <1>6 DEF Lines
<1> QED BY <1>6, <1>7, <1>8 DEF WriteLines

\* The lines of a document in order are its header and entries of its issue.
LEMMA LinesAre ==
  ASSUME Cloud, NEW i \in Issues, docs[i] # <<>>, NEW n \in DOMAIN Lines(i)
  PROVE  /\ \/ n = 1 /\ Lines(i)[n] = Header
            \/ n > 1 /\ Lines(i)[n] \in Of(i)
         /\ Header = Lines(i)[1] /\ Has(i, Header)
<1>1. docs \in [Issues -> Seq(Seq(Line))] /\ Len(docs[i]) <= 1
  BY DEF Cloud
<1>2. Lines(i) \in Seq(Line) /\ Len(Lines(i)) \in Nat /\ DOMAIN Lines(i) = 1 .. Len(Lines(i))
      /\ \A line : Has(i, line) <=> \E k \in 1 .. Len(Lines(i)) : Lines(i)[k] = line
  BY <1>1, TheDocument
<1>3. /\ Lines(i) # <<>> => Head(Lines(i)) = Header
      /\ \A m, k \in DOMAIN Lines(i) : m < k => Lines(i)[m] < Lines(i)[k] /\ Lines(i)[k] \in Of(i)
  BY DEF Cloud, DocumentInOrder
<1>4. Len(Lines(i)) >= 1 /\ 1 \in 1 .. Len(Lines(i)) /\ Lines(i) # <<>>
  BY <1>2
<1>5. Lines(i)[1] = Header
  BY <1>2, <1>3, <1>4
<1>6. n = 1 \/ n > 1
  BY <1>2
<1> QED BY <1>2, <1>3, <1>4, <1>5, <1>6

\* A document whose new lines leave it in order, with nothing skipped, is as it
\* should be, and it grew.
LEMMA WrittenInOrder ==
  ASSUME Cloud, NEW i \in Issues, docs[i] # <<>>, NEW t \in Seq(Line), WriteLines(i, t),
         \A j \in Issues : Of(j)' = Of(j),
         Lines(i)'[1] = Header,
         \A m, n \in DOMAIN (Lines(i) \o t) :
           m < n => (Lines(i) \o t)[m] < (Lines(i) \o t)[n] /\ (Lines(i) \o t)[n] \in Of(i),
         \A e \in Of(i) : ~Has(i, e)' => \A n \in DOMAIN (Lines(i) \o t) : (Lines(i) \o t)[n] < e
  PROVE  /\ Cloud' /\ Grows
         /\ docs'[i] # <<>> /\ Lines(i)' = Lines(i) \o t
         /\ \A line : Has(i, line)' <=> \E n \in 1 .. Len(Lines(i) \o t) : (Lines(i) \o t)[n] = line
<1>1. docs \in [Issues -> Seq(Seq(Line))] /\ \A j \in Issues : Len(docs[j]) <= 1
  BY DEF Cloud
<1>2. /\ docs' \in [Issues -> Seq(Seq(Line))]
      /\ docs'[i] # <<>> /\ Len(docs'[i]) <= 1
      /\ Lines(i)' = Lines(i) \o t
      /\ \A j \in Issues : j # i => docs'[j] = docs[j]
      /\ folders' = folders /\ history' = history
  BY <1>1, Wrote
<1>3. Lines(i) \in Seq(Line) /\ Len(Lines(i)) \in Nat /\ DOMAIN Lines(i) = 1 .. Len(Lines(i))
      /\ \A line : Has(i, line) <=> \E n \in 1 .. Len(Lines(i)) : Lines(i)[n] = line
  BY <1>1, TheDocument
<1>4. DOMAIN (Lines(i) \o t) = 1 .. Len(Lines(i) \o t)
  BY <1>3, Below
<1>5. \A line : Has(i, line)' <=> \E n \in 1 .. Len(Lines(i) \o t) : (Lines(i) \o t)[n] = line
  BY <1>2, <1>4 DEF Has, Range
<1>6. \A j \in Issues : j # i => Lines(j)' = Lines(j) /\ \A line : Has(j, line)' <=> Has(j, line)
  BY <1>2 DEF Lines, Has
<1>7. Grows
  <2>1. folders <= folders' /\ \A k \in Key : history[k] = 1 => history'[k] = 1
    BY <1>2 DEF Cloud
  <2>2. ASSUME NEW line \in Line, Has(i, line)
        PROVE  Has(i, line)'
    <3>1. PICK n \in 1 .. Len(Lines(i)) : Lines(i)[n] = line
      BY <1>3, <2>2
    <3>2. n \in 1 .. Len(Lines(i) \o t) /\ (Lines(i) \o t)[n] = line
      BY <1>3, <3>1, Below
    <3> QED BY <1>5, <3>2
  <2>3. ASSUME NEW j \in Issues, docs[j] # <<>>
        PROVE  docs'[j] # <<>> /\ \A line \in Line : Has(j, line) => Has(j, line)'
    BY <1>2, <1>6, <2>2, <2>3
  <2> QED BY <2>1, <2>3 DEF Grows
<1>8. DocumentInOrder'
  <2>1. Lines(i)' # <<>> => Head(Lines(i)') = Header
    BY <1>2
  <2>2. \A m, n \in DOMAIN Lines(i)' :
          m < n => Lines(i)'[m] < Lines(i)'[n] /\ Lines(i)'[n] \in Of(i)'
    BY <1>2
  <2>3. ASSUME NEW j \in Issues, j # i, docs'[j] # <<>>
        PROVE  /\ Lines(j)' # <<>> => Head(Lines(j)') = Header
               /\ \A m, n \in DOMAIN Lines(j)' :
                    m < n => Lines(j)'[m] < Lines(j)'[n] /\ Lines(j)'[n] \in Of(j)'
    BY <1>2, <1>6, <2>3 DEF Cloud, DocumentInOrder
  <2>4. Header' = Header
    BY DEF Header
  <2>5. ASSUME NEW j \in Issues, docs'[j] # <<>>
        PROVE  /\ Lines(j)' # <<>> => Head(Lines(j)') = Header'
               /\ \A m, n \in DOMAIN Lines(j)' :
                    m < n => Lines(j)'[m] < Lines(j)'[n] /\ Lines(j)'[n] \in Of(j)'
    BY <2>1, <2>2, <2>3, <2>4, <2>5
  <2> QED BY <2>5 DEF DocumentInOrder
<1>9. NothingSkipped'
  <2>1. ASSUME NEW j \in Issues, docs'[j] # <<>>, NEW e \in Of(j)', ~Has(j, e)', NEW n \in DOMAIN Lines(j)'
        PROVE  Lines(j)'[n] < e
    <3>1. CASE j = i
      BY <1>2, <2>1, <3>1
    <3>2. CASE j # i
      BY <1>2, <1>6, <2>1, <3>2 DEF Cloud, NothingSkipped
    <3> QED BY <3>1, <3>2
  <2> QED BY <2>1 DEF NothingSkipped
<1>10. Cloud'
  <2>1. \A j \in Issues : Len(docs'[j]) <= 1
    BY <1>1, <1>2
  <2>2. folders' \in Nat /\ folders' <= 1 /\ history' \in [Key -> Nat] /\ HistoryOnce'
    BY <1>2 DEF Cloud, HistoryOnce
  <2> QED BY <1>2, <1>8, <1>9, <2>1, <2>2 DEF Cloud
<1> QED BY <1>2, <1>5, <1>7, <1>10

\* A header goes into a document that has nothing yet.
LEMMA HeaderWritten ==
  ASSUME IInv, Doing({"header"}), Taken, \A j \in Issues : Of(j)' = Of(j)
  PROVE  Cloud' /\ Grows /\ Learnt
<1>0. Cloud /\ TypeOK /\ sync.issue \in Issues
  BY WorkFields, CloudHolds DEF IInv, Doing
<1>1. PICK i \in Issues : i = sync.issue
  BY <1>0
<1>2. docs[i] # <<>> /\ Lines(i) = <<>>
  BY <1>1 DEF IInv, DocumentIsKnown, Doing
<1>3. WriteLines(i, <<Header>>)
  BY <1>1 DEF Taken, Doing
<1>4. <<Header>> \in Seq(Line) /\ <<>> \o <<Header>> = <<Header>>
      /\ DOMAIN <<Header>> = 1 .. 1 /\ <<Header>>[1] = Header /\ Len(<<Header>>) = 1
  BY Bounds
<1>5. Of(i) \subseteq 1 .. MaxEntries
  BY <1>0, Entries
<1>6. Lines(i)'[1] = Header
  <2>1. docs \in [Issues -> Seq(Seq(Line))] /\ Len(docs[i]) <= 1
    BY <1>0 DEF Cloud
  <2>2. Lines(i)' = Lines(i) \o <<Header>>
    BY <1>1, <1>2, <1>3, <1>4, <2>1, Wrote
  <2> QED BY <1>2, <1>4, <2>2
<1>7. /\ \A m, n \in DOMAIN (Lines(i) \o <<Header>>) :
           m < n => /\ (Lines(i) \o <<Header>>)[m] < (Lines(i) \o <<Header>>)[n]
                    /\ (Lines(i) \o <<Header>>)[n] \in Of(i)
      /\ \A e \in Of(i) : \A n \in DOMAIN (Lines(i) \o <<Header>>) : (Lines(i) \o <<Header>>)[n] < e
  BY <1>2, <1>4, <1>5, Bounds
<1>8. /\ Cloud' /\ Grows
      /\ docs'[i] # <<>> /\ Lines(i)' = Lines(i) \o <<Header>>
      /\ \A line : Has(i, line)'
           <=> \E n \in 1 .. Len(Lines(i) \o <<Header>>) : (Lines(i) \o <<Header>>)[n] = line
  BY <1>0, <1>2, <1>3, <1>4, <1>6, <1>7, WrittenInOrder
<1>9. Has(i, Header)' /\ \A e \in 1 .. MaxEntries : ~Has(i, e)'
  BY <1>2, <1>4, <1>8, Bounds
<1> QED BY <1>1, <1>8, <1>9 DEF Learnt, Doing

\* Entries that were not in the document, and are later than all that are in it,
\* are appended in their order.
LEMMA EntriesWritten ==
  ASSUME IInv, Doing({"append"}), Taken, \A j \in Issues : Of(j)' = Of(j)
  PROVE  Cloud' /\ Grows /\ Learnt
<1>0. Cloud /\ TypeOK /\ sync.issue \in Issues /\ sync.pending \subseteq DOMAIN entry
  BY WorkFields, CloudHolds DEF IInv, Doing
<1>1. PICK i \in Issues, S \in SUBSET DOMAIN entry : i = sync.issue /\ S = sync.pending
  BY <1>0
<1>2. docs[i] # <<>> /\ Has(i, Header) /\ Reaches(i, S) /\ \A e \in S : ~Has(i, e)
  BY <1>1 DEF IInv, DocumentIsKnown, Doing
<1>3. PICK t \in Ordered(S) : WriteLines(i, t)
  BY <1>1 DEF Taken, Doing
<1>4. S \subseteq 1 .. MaxEntries /\ Of(i) \subseteq 1 .. MaxEntries /\ S \subseteq Of(i)
  BY <1>0, <1>1, <1>2, Entries DEF Reaches
<1>5. /\ t \in Seq(Line) /\ Len(t) \in Nat /\ DOMAIN t = 1 .. Len(t)
      /\ \A n \in 1 .. Len(t) : t[n] \in S
      /\ \A e \in S : \E n \in 1 .. Len(t) : t[n] = e
      /\ \A m, n \in 1 .. Len(t) : m < n => t[m] < t[n]
  BY <1>4, OrderedLines
<1>6. docs \in [Issues -> Seq(Seq(Line))] /\ Len(docs[i]) <= 1
  BY <1>0 DEF Cloud
<1>20. PICK s : s = Lines(i)
  OBVIOUS
<1>7. /\ s \in Seq(Line) /\ Len(s) \in Nat /\ DOMAIN s = 1 .. Len(s)
      /\ \A line : Has(i, line) <=> \E n \in 1 .. Len(s) : s[n] = line
  BY <1>1, <1>2, <1>6, <1>20, TheDocument
<1>8. /\ \A n \in 1 .. Len(s) : (n = 1 /\ s[n] = Header) \/ (n > 1 /\ s[n] \in Of(i))
      /\ Header = s[1] /\ 1 \in 1 .. Len(s)
  <2>1. PICK k \in 1 .. Len(s) : s[k] = Header
    BY <1>2, <1>7
  <2> QED BY <1>0, <1>2, <1>7, <2>1, <1>20, LinesAre
<1>9. \A m, n \in 1 .. Len(s) : m < n => s[m] < s[n] /\ s[n] \in Of(i)
  BY <1>0, <1>2, <1>7, <1>20 DEF Cloud, DocumentInOrder
<1>10. \A n \in 1 .. Len(s), e \in Of(i) : ~Has(i, e) => s[n] < e
  BY <1>0, <1>2, <1>7, <1>20 DEF Cloud, NothingSkipped
<1>11. Lines(i)' = s \o t
  BY <1>1, <1>2, <1>3, <1>5, <1>6, <1>20, Wrote
<1>12. /\ s \o t \in Seq(Line) /\ Len(s \o t) = Len(s) + Len(t)
       /\ DOMAIN (s \o t) = 1 .. (Len(s) + Len(t))
       /\ \A n \in 1 .. Len(s) : (s \o t)[n] = s[n]
       /\ \A n \in 1 .. Len(t) : (s \o t)[Len(s) + n] = t[n]
       /\ \A n \in DOMAIN (s \o t) :
            n \in 1 .. Len(s) \/ \E k \in 1 .. Len(t) : n = Len(s) + k
  BY <1>5, <1>7, Below
<1>13. Lines(i)'[1] = Header
  BY <1>8, <1>11, <1>12
<1>14. ASSUME NEW m \in DOMAIN (s \o t), NEW n \in DOMAIN (s \o t), m < n
       PROVE  (s \o t)[m] < (s \o t)[n] /\ (s \o t)[n] \in Of(i)
  <2>1. CASE n \in 1 .. Len(s)
    <3>1. m \in 1 .. Len(s)
      BY <1>7, <1>12, <1>14, <2>1
    <3> QED BY <1>9, <1>12, <1>14, <2>1, <3>1
  <2>2. CASE n \notin 1 .. Len(s)
    <3>1. PICK k \in 1 .. Len(t) : n = Len(s) + k
      BY <1>12, <2>2
    <3>2. (s \o t)[n] = t[k] /\ t[k] \in S
      BY <1>5, <1>12, <3>1
    <3>3. CASE m \in 1 .. Len(s)
      BY <1>2, <1>4, <1>10, <1>12, <3>2, <3>3
    <3>4. CASE m \notin 1 .. Len(s)
      <4>1. PICK l \in 1 .. Len(t) : m = Len(s) + l
        BY <1>12, <3>4
      <4>2. l < k
        BY <1>5, <1>7, <1>14, <3>1, <4>1
      <4> QED BY <1>4, <1>5, <1>12, <3>2, <4>1, <4>2
    <3> QED BY <3>3, <3>4
  <2> QED BY <2>1, <2>2
<1>15. ASSUME NEW e \in Of(i), ~Has(i, e)', NEW n \in DOMAIN (s \o t)
       PROVE  (s \o t)[n] < e
  <2>1. Has(i, e)' <=> \E k \in DOMAIN Lines(i)' : Lines(i)'[k] = e
    BY DEF Has, Range
  <2>2. \A k \in DOMAIN (s \o t) : (s \o t)[k] # e
    BY <1>11, <1>15, <2>1
  <2>3. ASSUME e \in S
        PROVE  FALSE
    <3>1. PICK k \in 1 .. Len(t) : t[k] = e
      BY <1>5, <2>3
    <3>2. Len(s) + k \in DOMAIN (s \o t) /\ (s \o t)[Len(s) + k] = e
      BY <1>5, <1>7, <1>12, <3>1
    <3> QED BY <2>2, <3>2
  <2>4. ~Has(i, e)
    BY <1>5, <1>7, <1>12, <2>2
  <2>5. \A p \in S : p < e
    BY <1>2, <2>3, <2>4 DEF Reaches
  <2>6. CASE n \in 1 .. Len(s)
    BY <1>10, <1>12, <2>4, <2>6
  <2>7. CASE n \notin 1 .. Len(s)
    <3>1. PICK k \in 1 .. Len(t) : n = Len(s) + k
      BY <1>12, <2>7
    <3> QED BY <1>5, <1>12, <2>5, <3>1
  <2> QED BY <2>6, <2>7
<1>16. /\ Cloud' /\ Grows
       /\ docs'[i] # <<>>
       /\ \A line : Has(i, line)' <=> \E n \in 1 .. Len(s \o t) : (s \o t)[n] = line
  <2>1. \A m, n \in DOMAIN (Lines(i) \o t) :
          m < n => (Lines(i) \o t)[m] < (Lines(i) \o t)[n] /\ (Lines(i) \o t)[n] \in Of(i)
    BY <1>14, <1>20
  <2>2. \A e \in Of(i) : ~Has(i, e)' => \A n \in DOMAIN (Lines(i) \o t) : (Lines(i) \o t)[n] < e
    BY <1>15, <1>20
  <2>3. /\ Cloud' /\ Grows
        /\ docs'[i] # <<>> /\ Lines(i)' = Lines(i) \o t
        /\ \A line : Has(i, line)' <=> \E n \in 1 .. Len(Lines(i) \o t) : (Lines(i) \o t)[n] = line
    BY <1>0, <1>2, <1>3, <1>5, <1>13, <2>1, <2>2, WrittenInOrder
  <2> QED BY <1>20, <2>3
<1>17. ASSUME NEW e \in S
       PROVE  Has(i, e)'
  <2>1. PICK n \in 1 .. Len(t) : t[n] = e
    BY <1>5
  <2>2. Len(s) + n \in 1 .. Len(s \o t) /\ (s \o t)[Len(s) + n] = e
    BY <1>5, <1>7, <1>12, <2>1
  <2> QED BY <1>16, <2>2
<1> QED BY <1>1, <1>16, <1>17 DEF Learnt, Doing

\* Whatever call is taken, Feishu is as it should be, has lost nothing, and
\* holds what the answer says.
LEMMA TakenGrows ==
  ASSUME IInv, sync # None, sync.at # "notify", Taken, \A j \in Issues : Of(j)' = Of(j)
  PROVE  Cloud' /\ Grows /\ Learnt
<1>0. Cloud /\ TypeOK /\ sync.issue \in Issues
  BY WorkFields, CloudHolds DEF IInv
<1>1. PICK i \in Issues : i = sync.issue
  BY <1>0
<1>2. sync.at \in DocCalls \cup RecordCalls
  BY <1>0, WorkFields
<1>3. docs \in [Issues -> Seq(Seq(Line))] /\ history \in [Key -> Nat] /\ folders \in Nat
  BY <1>0 DEF Cloud
<1>4. ASSUME docs' = docs
      PROVE  /\ DocumentInOrder' /\ NothingSkipped' /\ docs' \in [Issues -> Seq(Seq(Line))]
             /\ \A j \in Issues : Len(docs'[j]) <= 1
             /\ \A j \in Issues : docs[j] # <<>> =>
                  docs'[j] # <<>> /\ \A line \in Line : Has(j, line) => Has(j, line)'
  <2>1. \A j \in Issues : Lines(j)' = Lines(j) /\ \A line : Has(j, line)' <=> Has(j, line)
    BY <1>4 DEF Lines, Has
  <2>2. Header' = Header
    BY DEF Header
  <2>3. DocumentInOrder'
    BY <1>0, <1>4, <2>1, <2>2 DEF Cloud, DocumentInOrder
  <2>4. NothingSkipped'
    BY <1>0, <1>4, <2>1 DEF Cloud, NothingSkipped
  <2> QED BY <1>0, <1>4, <2>1, <2>3, <2>4 DEF Cloud
<1>5. CASE sync.at = "make folder"
  <2>1. folders' = folders + 1 /\ docs' = docs /\ history' = history
    BY <1>5 DEF Taken
  <2>2. folders = 0
    BY <1>5 DEF IInv, DocumentIsKnown, Doing
  <2>3. folders' = 1 /\ folders' \in Nat /\ folders' <= 1 /\ folders <= folders'
    BY <2>1, <2>2
  <2>4. HistoryOnce'
    BY <1>0, <2>1 DEF Cloud, HistoryOnce
  <2> QED BY <1>3, <1>4, <1>5, <2>1, <2>3, <2>4 DEF Cloud, Grows, Learnt
<1>6. CASE sync.at = "create"
  <2>1. docs' = [docs EXCEPT ![i] = Append(@, <<>>)] /\ folders' = folders /\ history' = history
    BY <1>1, <1>6 DEF Taken
  <2>2. docs[i] = <<>>
    BY <1>1, <1>6 DEF IInv, DocumentIsKnown, Doing
  <2>3. docs' = [docs EXCEPT ![i] = <<<<>>>>]
    BY <1>3, <2>1, <2>2
  <2>4. <<<<>>>> \in Seq(Seq(Line)) /\ Len(<<<<>>>>) = 1 /\ <<<<>>>> # <<>> /\ <<<<>>>>[1] = <<>>
        /\ DOMAIN <<>> = {}
    OBVIOUS
  <2>5. /\ docs' \in [Issues -> Seq(Seq(Line))] /\ \A j \in Issues : Len(docs'[j]) <= 1
        /\ docs'[i] # <<>> /\ docs'[i][1] = <<>>
        /\ \A j \in Issues : j # i => docs'[j] = docs[j]
    BY <1>0, <1>3, <2>3, <2>4 DEF Cloud
  <2>6. /\ Lines(i)' = <<>> /\ DOMAIN Lines(i)' = {}
        /\ \A j \in Issues : j # i =>
             Lines(j)' = Lines(j) /\ \A line : Has(j, line)' <=> Has(j, line)
    BY <2>4, <2>5 DEF Lines, Has
  <2>7. Header' = Header
    BY DEF Header
  <2>8. DocumentInOrder'
    <3>1. ASSUME NEW j \in Issues, docs'[j] # <<>>
          PROVE  /\ Lines(j)' # <<>> => Head(Lines(j)') = Header'
                 /\ \A m, n \in DOMAIN Lines(j)' :
                      m < n => Lines(j)'[m] < Lines(j)'[n] /\ Lines(j)'[n] \in Of(j)'
      <4>1. CASE j = i
        BY <2>6, <4>1
      <4>2. CASE j # i
        BY <1>0, <2>5, <2>6, <2>7, <3>1, <4>2 DEF Cloud, DocumentInOrder
      <4> QED BY <4>1, <4>2
    <3> QED BY <3>1 DEF DocumentInOrder
  <2>9. NothingSkipped'
    <3>1. ASSUME NEW j \in Issues, docs'[j] # <<>>, NEW e \in Of(j)', ~Has(j, e)',
                 NEW n \in DOMAIN Lines(j)'
          PROVE  Lines(j)'[n] < e
      <4>1. CASE j = i
        BY <2>6, <3>1, <4>1
      <4>2. CASE j # i
        BY <1>0, <2>5, <2>6, <3>1, <4>2 DEF Cloud, NothingSkipped
      <4> QED BY <4>1, <4>2
    <3> QED BY <3>1 DEF NothingSkipped
  <2>10. Cloud'
    <3>1. folders' \in Nat /\ folders' <= 1 /\ history' \in [Key -> Nat] /\ HistoryOnce'
      BY <1>0, <2>1 DEF Cloud, HistoryOnce
    <3> QED BY <2>5, <2>8, <2>9, <3>1 DEF Cloud
  <2>11. Grows
    <3>1. ASSUME NEW j \in Issues, docs[j] # <<>>
          PROVE  docs'[j] # <<>> /\ \A line \in Line : Has(j, line) => Has(j, line)'
      BY <2>2, <2>5, <2>6, <3>1
    <3>2. folders <= folders' /\ \A k \in Key : history[k] = 1 => history'[k] = 1
      BY <1>3, <2>1
    <3> QED BY <3>1, <3>2 DEF Grows
  <2> QED BY <1>1, <1>6, <2>5, <2>10, <2>11 DEF Learnt
<1>7. CASE sync.at = "header"
  BY <1>7, HeaderWritten DEF Doing
<1>8. CASE sync.at = "append"
  BY <1>8, EntriesWritten DEF Doing
<1>9. CASE sync.at = "write"
  <2>1. history' = [history EXCEPT ![sync.key] = @ + 1] /\ folders' = folders /\ docs' = docs
    BY <1>9 DEF Taken
  <2>2. sync.key \in Key /\ history[sync.key] = 0
    BY <1>9 DEF IInv, RowIsKnown, Doing, RecordCalls
  <2>3. history' \in [Key -> Nat] /\ history'[sync.key] = 1
        /\ \A k \in Key : k # sync.key => history'[k] = history[k]
    BY <1>3, <2>1, <2>2
  <2>4. HistoryOnce'
    <3>1. \A k \in Key : history[k] <= 1
      BY <1>0 DEF Cloud, HistoryOnce
    <3>2. \A k \in Key : history'[k] <= 1
      <4>1. TAKE k \in Key
      <4>2. CASE k = sync.key
        BY <2>3, <4>2
      <4>3. CASE k # sync.key
        BY <2>3, <3>1, <4>3
      <4> QED BY <4>2, <4>3
    <3> QED BY <3>2 DEF HistoryOnce
  <2>5. folders' \in Nat /\ folders' <= 1 /\ folders <= folders'
    BY <1>0, <2>1 DEF Cloud
  <2>6. \A k \in Key : history[k] = 1 => history'[k] = 1
    BY <2>3
  <2> QED BY <1>4, <1>9, <2>1, <2>3, <2>4, <2>5, <2>6 DEF Cloud, Grows, Learnt
<1>10. CASE sync.at \in {"folder", "list", "fetch", "find"}
  <2>1. folders' = folders /\ docs' = docs /\ history' = history
    BY <1>10 DEF Taken, cloud
  <2>2. folders' \in Nat /\ folders' <= 1 /\ folders <= folders' /\ history' \in [Key -> Nat]
    BY <1>0, <2>1 DEF Cloud
  <2>3. HistoryOnce'
    BY <1>0, <2>1 DEF Cloud, HistoryOnce
  <2>4. Learnt
    <3>1. sync.at = "fetch" => docs'[i] # <<>>
      BY <1>1, <2>1 DEF IInv, DocumentIsKnown, Doing
    <3> QED BY <1>1, <1>10, <2>1, <3>1 DEF Learnt, cloud
  <2> QED BY <1>4, <2>1, <2>2, <2>3, <2>4 DEF Cloud, Grows
<1> QED BY <1>2, <1>5, <1>6, <1>7, <1>8, <1>9, <1>10 DEF DocCalls, RecordCalls

\* So it is when no call is taken.
LEMMA NothingTaken ==
  ASSUME Cloud, UNCHANGED cloud, \A j \in Issues : Of(j)' = Of(j)
  PROVE  Cloud' /\ Grows
<1>1. folders' = folders /\ docs' = docs /\ history' = history
  BY DEF cloud
<1>2. \A j \in Issues : Lines(j)' = Lines(j) /\ \A line : Has(j, line)' <=> Has(j, line)
  BY <1>1 DEF Lines, Has
<1>3. Header' = Header
  BY DEF Header
<1>4. DocumentInOrder'
  BY <1>1, <1>2, <1>3 DEF Cloud, DocumentInOrder
<1>5. NothingSkipped'
  BY <1>1, <1>2 DEF Cloud, NothingSkipped
<1>6. HistoryOnce'
  BY <1>1 DEF Cloud, HistoryOnce
<1>7. folders' \in Nat /\ folders' <= 1 /\ folders <= folders'
  BY <1>1 DEF Cloud
<1> QED BY <1>1, <1>2, <1>4, <1>5, <1>6, <1>7 DEF Cloud, Grows

-----------------------------------------------------------------------------
(* What the bridge writes down about it. *)

\* A step ticks off only what is in Feishu by then, and adds no entry.
TicksOffWhatIsThere ==
  /\ Len(entry') = Len(entry) /\ entry' \in Seq(Entry) /\ item' \in [Issues -> Item]
  /\ links' = links /\ folder' \in BOOLEAN /\ (folder' => folders' = 1)
  /\ sync' \in {None} \cup [at : DocCalls \cup RecordCalls \cup {"notify"}, issue : Issues,
                           pending : SUBSET DOMAIN entry, key : Key \cup {None}]
  /\ \A i \in Issues :
       /\ item'[i].token => item[i].token \/ docs'[i] # <<>>
       /\ item'[i].notified = item[i].notified
       /\ item'[i].ready => item[i].ready \/ (docs'[i] # <<>> /\ Has(i, Header)')
  /\ \A e \in DOMAIN entry :
       /\ entry'[e].issue = entry[e].issue /\ entry'[e].parts = entry[e].parts
       /\ entry'[e].synced => \/ entry[e].synced
                              \/ \A i \in Issues : entry[e].issue = i => docs'[i] # <<>> /\ Has(i, e)'
       /\ entry'[e].recorded => \/ entry[e].recorded
                                \/ \A n \in 1 .. entry[e].parts : history'[<<e, n>>] = 1

\* Entries that keep their issue are the entries of the same issues.
LEMMA SameEntries ==
  ASSUME Len(entry') = Len(entry), entry \in Seq(Entry), entry' \in Seq(Entry),
         \A e \in DOMAIN entry : entry'[e].issue = entry[e].issue
  PROVE  DOMAIN entry' = DOMAIN entry /\ \A j \in Issues : Of(j)' = Of(j)
<1>1. DOMAIN entry' = DOMAIN entry
  OBVIOUS
<1> QED BY <1>1 DEF Of

\* Such a step, whatever it does to Feishu, leaves the copies exact.
LEMMA Stands ==
  ASSUME IInv, Cloud', Grows, TicksOffWhatIsThere
  PROVE  /\ TypeOK' /\ CopiesAreExact' /\ NothingSkipped' /\ ReadyHasBegun'
         /\ DOMAIN entry' = DOMAIN entry /\ \A j \in Issues : Of(j)' = Of(j)
<1>1. TypeOK /\ Cloud
  BY CloudHolds DEF IInv
<1>2. DOMAIN entry' = DOMAIN entry /\ \A j \in Issues : Of(j)' = Of(j)
  BY <1>1, SameEntries DEF TicksOffWhatIsThere, TypeOK
<1>3. TypeOK'
  BY <1>1, <1>2 DEF TicksOffWhatIsThere, TypeOK, Cloud
<1>4. /\ docs \in [Issues -> Seq(Seq(Line))] /\ \A i \in Issues : Len(docs[i]) <= 1
      /\ docs' \in [Issues -> Seq(Seq(Line))] /\ \A i \in Issues : Len(docs'[i]) <= 1
  BY <1>1 DEF Cloud
<1>5. Header' = Header /\ Header \in Line /\ DOMAIN entry \subseteq Line
  BY <1>1, Bounds, Entries DEF Header
<1>6. \A i \in Issues : docs[i] # <<>> =>
        docs'[i] # <<>> /\ \A line \in Line : Has(i, line) => Has(i, line)'
  BY DEF Grows
<1>7. OneDocument'
  <2>1. ASSUME NEW i \in Issues, item'[i].token
        PROVE  Len(docs'[i]) = 1
    <3>1. item[i].token => Len(docs[i]) = 1
      BY DEF IInv, CopiesAreExact, OneDocument
    <3>2. item[i].token => docs[i] # <<>>
      BY <3>1, EmptySeq
    <3>3. docs'[i] # <<>>
      BY <1>6, <2>1, <3>2 DEF TicksOffWhatIsThere
    <3> QED BY <1>4, <3>3, TheDocument, OneLong
  <2> QED BY <1>4, <2>1 DEF OneDocument, Cloud, TicksOffWhatIsThere
<1>8. TickedOffIsThere'
  <2>1. ASSUME NEW e \in DOMAIN entry, NEW i \in Issues, i = entry[e].issue, entry'[e].synced
        PROVE  docs'[i] # <<>> /\ Has(i, e)'
    <3>1. entry[e].synced => docs[i] # <<>> /\ Has(i, e)
      BY <2>1 DEF IInv, CopiesAreExact, TickedOffIsThere
    <3> QED BY <1>5, <1>6, <2>1, <3>1 DEF TicksOffWhatIsThere
  <2>2. ASSUME NEW e \in DOMAIN entry, entry'[e].recorded, NEW n \in 1 .. entry[e].parts
        PROVE  history'[<<e, n>>] = 1
    <3>1. e \in 1 .. MaxEntries /\ entry[e].parts \in 1 .. MaxParts
      BY <1>1, Entries DEF Entry
    <3>2. <<e, n>> \in Key
      BY <3>1, Bounds DEF Key
    <3>3. entry[e].recorded => history[<<e, n>>] = 1
      BY DEF IInv, CopiesAreExact, TickedOffIsThere
    <3> QED BY <2>2, <3>2, <3>3 DEF TicksOffWhatIsThere, Grows
  <2>3. \A e \in DOMAIN entry : entry[e].issue \in Issues
    BY <1>1, Entries DEF Entry
  <2>4. \A e \in DOMAIN entry : /\ entry'[e].issue = entry[e].issue
                                /\ entry'[e].parts = entry[e].parts
    BY DEF TicksOffWhatIsThere
  <2>5. ASSUME NEW e \in DOMAIN entry', entry'[e].synced
        PROVE  docs'[entry'[e].issue] # <<>> /\ Has(entry[e].issue, e)'
    <3>1. PICK i \in Issues : i = entry[e].issue /\ i = entry'[e].issue
      BY <1>2, <2>3, <2>4
    <3>2. docs'[i] # <<>> /\ Has(i, e)'
      BY <1>2, <2>1, <2>5, <3>1
    <3> QED BY <3>1, <3>2 DEF Has, Lines
  <2>6. ASSUME NEW e \in DOMAIN entry', entry'[e].recorded
        PROVE  \A n \in 1 .. entry'[e].parts : history'[<<e, n>>] = 1
    BY <1>2, <2>2, <2>4, <2>6
  <2> QED BY <2>5, <2>6 DEF TickedOffIsThere
<1>9. ReadyHasBegun'
  <2>1. ASSUME NEW i \in Issues
        PROVE  /\ item'[i].ready \/ item'[i].notified => docs'[i] # <<>> /\ Has(i, Header)'
               /\ links'[i] = IF item'[i].notified THEN 1 ELSE 0
    <3>1. /\ item[i].ready \/ item[i].notified => docs[i] # <<>> /\ Has(i, Header)
          /\ links[i] = IF item[i].notified THEN 1 ELSE 0
      BY DEF IInv, ReadyHasBegun
    <3> QED BY <1>5, <1>6, <3>1 DEF TicksOffWhatIsThere
  <2> QED BY <1>5, <2>1 DEF ReadyHasBegun
<1>10. LinkSentOnce'
  <2>1. ASSUME NEW i \in Issues
        PROVE  links'[i] <= 1 /\ (links'[i] = 1 => docs'[i] # <<>> /\ Has(i, Header)')
    <3>1. links[i] <= 1 /\ (links[i] = 1 => docs[i] # <<>> /\ Has(i, Header))
      BY DEF IInv, CopiesAreExact, LinkSentOnce
    <3> QED BY <1>5, <1>6, <3>1 DEF TicksOffWhatIsThere
  <2> QED BY <1>5, <2>1 DEF LinkSentOnce
<1> QED BY <1>2, <1>3, <1>7, <1>8, <1>9, <1>10 DEF CopiesAreExact, Cloud

\* A task at rest knows nothing.
LEMMA AtRest ==
  ASSUME sync' = None
  PROVE  DocumentIsKnown' /\ RowIsKnown'
BY DEF DocumentIsKnown, RowIsKnown, Doing

\* What the task may rely on when it goes on to another call for the document
\* of issue i.
LEMMA GoesOn ==
  ASSUME NEW at \in DocCalls \cup {"notify"}, NEW i \in Issues, NEW S,
         sync'.at = at, sync'.issue = i, sync'.pending = S,
         at = "make folder" => folders' = 0,
         at = "create" => docs'[i] = <<>>,
         at \in {"fetch", "header", "append", "notify"} => docs'[i] # <<>>,
         at = "header" => Lines(i)' = <<>>,
         at \in {"append", "notify"} => Has(i, Header)',
         at \in {"fetch", "header", "append"} => Reaches(i, S)',
         at = "append" => \A e \in S : ~Has(i, e)'
  PROVE  DocumentIsKnown' /\ RowIsKnown'
<1>1. \A calls : Doing(calls)' => at \in calls
  BY DEF Doing
<1>2. /\ Lines(sync.issue)' = Lines(i)' /\ \A line : Has(sync.issue, line)' <=> Has(i, line)'
      /\ Reaches(sync.issue, sync.pending)' <=> Reaches(i, S)'
  BY DEF Lines, Has, Reaches, Of
<1>3. DocumentIsKnown'
  BY <1>1, <1>2 DEF DocumentIsKnown
<1>4. RowIsKnown'
  BY <1>1 DEF RowIsKnown, DocCalls, RecordCalls
<1> QED BY <1>3, <1>4

\* An entry that was ticked off is in the document; so what is pending when the
\* document is about to be read is all that might be missing.
LEMMA PendingReaches ==
  ASSUME TickedOffIsThere, NEW i \in Issues
  PROVE  Reaches(i, Pending(i))
BY DEF TickedOffIsThere, Reaches, Pending, Of

\* The same work, at another call.
LEMMA SameWork ==
  ASSUME TypeOK, sync # None, NEW at \in DocCalls \cup RecordCalls \cup {"notify"}, sync' = [sync EXCEPT !.at = at]
  PROVE  /\ sync' \in [at : DocCalls \cup RecordCalls \cup {"notify"}, issue : Issues,
                       pending : SUBSET DOMAIN entry, key : Key \cup {None}]
         /\ sync'.at = at /\ sync'.issue = sync.issue /\ sync'.pending = sync.pending
         /\ sync'.key = sync.key
BY WorkFields

LEMMA NewWork ==
  ASSUME NEW at \in DocCalls \cup RecordCalls \cup {"notify"}, NEW i \in Issues,
         NEW S \in SUBSET DOMAIN entry, NEW key \in Key \cup {None}, sync' = Work(at, i, S, key)
  PROVE  /\ sync' \in [at : DocCalls \cup RecordCalls \cup {"notify"}, issue : Issues,
                       pending : SUBSET DOMAIN entry, key : Key \cup {None}]
         /\ sync'.at = at /\ sync'.issue = i /\ sync'.pending = S /\ sync'.key = key
BY DEF Work

\* A step that only moves the task on, or does nothing to the tables but for
\* the folder, ticks nothing off.
LEMMA TicksOffNothing ==
  ASSUME TypeOK, item' = item, entry' = entry, links' = links, folder' \in BOOLEAN,
         folder' => folders' = 1,
         sync' \in {None} \cup [at : DocCalls \cup RecordCalls \cup {"notify"}, issue : Issues,
                           pending : SUBSET DOMAIN entry, key : Key \cup {None}]
  PROVE  TicksOffWhatIsThere
BY DEF TicksOffWhatIsThere, TypeOK

LEMMA NoneOrOne ==
  \A n \in Nat : n <= 1 => n = 0 \/ n = 1
OBVIOUS

LEMMA FindFolderKeeps ==
  ASSUME IInv, FindFolder
  PROVE  IInv'
<1>1. TypeOK /\ Cloud /\ sync # None /\ sync.at = "folder" /\ Taken /\ entry' = entry
  BY CloudHolds DEF IInv, FindFolder, Call
<1>2. PICK i \in Issues : i = sync.issue
  BY <1>1, WorkFields
<1>3. UNCHANGED cloud
  BY <1>1 DEF Taken
<1>4. Cloud' /\ Grows
  BY <1>1, <1>3, NothingTaken DEF Of
<1>5. PICK at \in {"list", "make folder"} :
        /\ sync' = [sync EXCEPT !.at = at]
        /\ at = "make folder" => folders # 1
  BY DEF FindFolder, Then
<1>6. /\ sync' \in [at : DocCalls \cup RecordCalls \cup {"notify"}, issue : Issues,
                     pending : SUBSET DOMAIN entry, key : Key \cup {None}]
      /\ sync'.at = at /\ sync'.issue = i
  BY <1>1, <1>2, <1>5, SameWork DEF DocCalls
<1>7. TicksOffWhatIsThere
  BY <1>1, <1>3, <1>6, TicksOffNothing DEF FindFolder, cloud
<1>8. at = "make folder" => folders' = 0
  <2>1. folders \in Nat /\ folders <= 1
    BY <1>1 DEF Cloud
  <2>2. folders' = folders
    BY <1>3 DEF cloud
  <2> QED BY <1>5, <2>1, <2>2, NoneOrOne
<1>9. DocumentIsKnown' /\ RowIsKnown'
  BY <1>5, <1>6, <1>8, GoesOn DEF DocCalls
<1> QED BY <1>4, <1>7, <1>9, Stands DEF IInv

LEMMA MakeFolderKeeps ==
  ASSUME IInv, MakeFolder
  PROVE  IInv'
<1>1. TypeOK /\ sync # None /\ sync.at = "make folder" /\ Taken /\ entry' = entry
  BY DEF IInv, MakeFolder, Call
<1>2. PICK i \in Issues : i = sync.issue
  BY <1>1, WorkFields
<1>3. Cloud' /\ Grows /\ Learnt
  BY <1>1, TakenGrows DEF Of
<1>4. sync' = [sync EXCEPT !.at = "list"]
  BY DEF MakeFolder, Then
<1>5. /\ sync' \in [at : DocCalls \cup RecordCalls \cup {"notify"}, issue : Issues,
                     pending : SUBSET DOMAIN entry, key : Key \cup {None}]
      /\ sync'.at = "list" /\ sync'.issue = i
  BY <1>1, <1>2, <1>4, SameWork DEF DocCalls
<1>6. TicksOffWhatIsThere
  BY <1>1, <1>2, <1>3, <1>5, TicksOffNothing DEF MakeFolder, Learnt
<1>7. DocumentIsKnown' /\ RowIsKnown'
  BY <1>5, GoesOn DEF DocCalls
<1> QED BY <1>3, <1>6, <1>7, Stands DEF IInv

\* A document found, or created, is read next; nothing ticked off is missing.
LEMMA AdoptedKeeps ==
  ASSUME IInv, NEW i \in Issues, Cloud', Grows, docs'[i] # <<>>,
         Adopted(i), sync' = Work("fetch", i, Pending(i), None),
         UNCHANGED <<entry, links, folder>>
  PROVE  IInv'
<1>1. TypeOK
  BY DEF IInv
<1>2. Pending(i) \in SUBSET DOMAIN entry
  BY DEF Pending, Of
<1>3. /\ sync' \in [at : DocCalls \cup RecordCalls \cup {"notify"}, issue : Issues,
                     pending : SUBSET DOMAIN entry, key : Key \cup {None}]
      /\ sync'.at = "fetch" /\ sync'.issue = i /\ sync'.pending = Pending(i)
  BY <1>2, NewWork DEF DocCalls
<1>4. /\ item' \in [Issues -> Item]
      /\ \A j \in Issues : /\ item'[j].token => item[j].token \/ docs'[j] # <<>>
                           /\ item'[j].ready = item[j].ready /\ item'[j].notified = item[j].notified
  <2>1. item \in [Issues -> Item] /\ item[i] \in Item
    BY <1>1 DEF TypeOK
  <2>2. PICK x : x = [item[i] EXCEPT !.token = TRUE, !.due = TRUE, !.changed = TRUE]
    OBVIOUS
  <2>3. x \in Item /\ x.ready = item[i].ready /\ x.notified = item[i].notified
    BY <2>1, <2>2 DEF Item
  <2>4. item' = [item EXCEPT ![i] = x]
    BY <2>1, <2>2 DEF Adopted
  <2> QED BY <2>1, <2>3, <2>4
<1>5. folder' => folders' = 1
  <2>1. folder => folders = 1
    BY DEF IInv, CopiesAreExact, OneDocument
  <2>2. folders <= folders' /\ folders' \in Nat /\ folders' <= 1
    BY DEF Grows, Cloud
  <2>3. 1 <= folders' => folders' = 1
    BY <2>2
  <2> QED BY <2>1, <2>2, <2>3
<1>6. TicksOffWhatIsThere
  BY <1>1, <1>3, <1>4, <1>5 DEF TicksOffWhatIsThere, TypeOK
<1>7. TypeOK' /\ CopiesAreExact' /\ NothingSkipped' /\ ReadyHasBegun'
  BY <1>6, Stands
<1>8. Reaches(i, Pending(i))'
  BY <1>7 DEF CopiesAreExact, TickedOffIsThere, Reaches, Pending, Of, Has, Lines
<1>9. Pending(i)' = Pending(i)
  BY DEF Pending, Of
<1>10. \A S : S = Pending(i)' => Reaches(i, S)'
  BY <1>8 DEF Reaches, Of, Has, Lines
<1>11. DocumentIsKnown' /\ RowIsKnown'
  <2>1. PICK S : S = Pending(i)
    OBVIOUS
  <2>2. Reaches(i, S)'
    BY <1>9, <1>10, <2>1
  <2> QED BY <1>3, <2>1, <2>2, GoesOn DEF DocCalls
<1> QED BY <1>7, <1>11 DEF IInv

LEMMA FindDocumentKeeps ==
  ASSUME IInv, FindDocument
  PROVE  IInv'
<1>1. TypeOK /\ Cloud /\ sync # None /\ sync.at = "list" /\ Taken /\ entry' = entry
      /\ links' = links /\ folder' = folder
  BY CloudHolds DEF IInv, FindDocument, Call
<1>2. PICK i \in Issues : i = sync.issue
  BY <1>1, WorkFields
<1>3. UNCHANGED cloud
  BY <1>1 DEF Taken
<1>4. Cloud' /\ Grows /\ docs' = docs
  BY <1>1, <1>3, NothingTaken DEF Of, cloud
<1>5. CASE Len(docs[i]) = 1 /\ Adopted(i) /\ Then(Work("fetch", i, Pending(i), None))
  <2>1. docs'[i] # <<>>
    BY <1>4, <1>5, EmptySeq
  <2> QED BY <1>1, <1>4, <1>5, <2>1, AdoptedKeeps DEF Then
<1>6. CASE docs[i] = <<>> /\ Then([sync EXCEPT !.at = "create"]) /\ UNCHANGED item
  <2>1. /\ sync' \in [at : DocCalls \cup RecordCalls \cup {"notify"}, issue : Issues,
                     pending : SUBSET DOMAIN entry, key : Key \cup {None}]
        /\ sync'.at = "create" /\ sync'.issue = i
    BY <1>1, <1>2, <1>6, SameWork DEF DocCalls, Then
  <2>2. folder' \in BOOLEAN /\ (folder' => folders' = 1)
    BY <1>1, <1>3 DEF IInv, CopiesAreExact, OneDocument, TypeOK, cloud
  <2>3. TicksOffWhatIsThere
    BY <1>1, <1>6, <2>1, <2>2, TicksOffNothing
  <2>4. DocumentIsKnown' /\ RowIsKnown'
    BY <1>4, <1>6, <2>1, GoesOn DEF DocCalls
  <2> QED BY <1>4, <2>3, <2>4, Stands DEF IInv
<1> QED BY <1>2, <1>5, <1>6 DEF FindDocument

LEMMA CreateDocumentKeeps ==
  ASSUME IInv, CreateDocument
  PROVE  IInv'
<1>1. TypeOK /\ sync # None /\ sync.at = "create" /\ Taken /\ entry' = entry
  BY DEF IInv, CreateDocument, Call
<1>2. PICK i \in Issues : i = sync.issue
  BY <1>1, WorkFields
<1>3. Cloud' /\ Grows /\ Learnt
  BY <1>1, TakenGrows DEF Of
<1>4. docs'[i] # <<>>
  BY <1>1, <1>2, <1>3 DEF Learnt
<1>5. /\ Adopted(i) /\ sync' = Work("fetch", i, Pending(i), None)
      /\ UNCHANGED <<entry, links, folder>>
  BY <1>2 DEF CreateDocument, Then
<1> QED BY <1>3, <1>4, <1>5, AdoptedKeeps

\* Ticking entries off changes nothing else of them.
LEMMA TickedOff ==
  ASSUME TypeOK, NEW S,
         entry' = [e \in DOMAIN entry |->
                     IF e \in S THEN [entry[e] EXCEPT !.synced = TRUE] ELSE entry[e]]
  PROVE  /\ Len(entry') = Len(entry) /\ entry' \in Seq(Entry) /\ DOMAIN entry' = DOMAIN entry
         /\ \A j \in Issues : Of(j)' = Of(j)
         /\ \A e \in DOMAIN entry :
              /\ entry'[e].issue = entry[e].issue /\ entry'[e].parts = entry[e].parts
              /\ entry'[e].recorded = entry[e].recorded
              /\ entry'[e].synced => entry[e].synced \/ e \in S
<1>1. Len(entry) \in Nat /\ DOMAIN entry = 1 .. Len(entry) /\ \A e \in DOMAIN entry : entry[e] \in Entry
  BY Entries
<1>2. \A e \in DOMAIN entry :
        /\ entry'[e] \in Entry
        /\ entry'[e].issue = entry[e].issue /\ entry'[e].parts = entry[e].parts
        /\ entry'[e].recorded = entry[e].recorded
        /\ entry'[e].synced => entry[e].synced \/ e \in S
  <2>1. TAKE e \in DOMAIN entry
  <2>2. entry[e] \in Entry
    BY <1>1
  <2>3. entry'[e] = IF e \in S THEN [entry[e] EXCEPT !.synced = TRUE] ELSE entry[e]
    OBVIOUS
  <2> QED BY <2>2, <2>3 DEF Entry
<1>3. entry' \in [1 .. Len(entry) -> Entry] /\ DOMAIN entry' = DOMAIN entry
  BY <1>1, <1>2
<1>4. entry' \in Seq(Entry) /\ Len(entry') = Len(entry)
  BY <1>1, <1>3
<1>5. \A j \in Issues : Of(j)' = Of(j)
  BY <1>2, <1>3 DEF Of
<1> QED BY <1>2, <1>3, <1>4, <1>5

\* The folder is still there.
LEMMA FolderStays ==
  ASSUME IInv, Cloud', Grows, folder' = folder
  PROVE  folder' \in BOOLEAN /\ (folder' => folders' = 1)
<1>1. (folder => folders = 1) /\ folder \in BOOLEAN
  BY DEF IInv, CopiesAreExact, OneDocument, TypeOK
<1>2. folders <= folders' /\ folders' \in Nat /\ folders' <= 1
  BY DEF Grows, Cloud
<1>3. 1 <= folders' => folders' = 1
  BY <1>2
<1> QED BY <1>1, <1>2, <1>3

\* The transaction after the document was read, or got its header.
LEMMA SeenTicksOff ==
  ASSUME IInv, NEW i \in Issues, NEW S \in SUBSET Of(i), SeenInDocument(i, S), Cloud', Grows,
         docs'[i] # <<>>, Has(i, Header)', \A e \in S : Has(i, e)',
         links' = links, folder' = folder,
         sync' \in {None} \cup [at : DocCalls \cup RecordCalls \cup {"notify"}, issue : Issues,
                           pending : SUBSET DOMAIN entry, key : Key \cup {None}]
  PROVE  TicksOffWhatIsThere
<1>1. TypeOK
  BY DEF IInv
<1>2. /\ Len(entry') = Len(entry) /\ entry' \in Seq(Entry)
      /\ \A e \in DOMAIN entry :
              /\ entry'[e].issue = entry[e].issue /\ entry'[e].parts = entry[e].parts
              /\ entry'[e].recorded = entry[e].recorded
              /\ entry'[e].synced => entry[e].synced \/ e \in S
  BY <1>1, TickedOff DEF SeenInDocument
<1>3. /\ item' \in [Issues -> Item]
      /\ \A j \in Issues : /\ item'[j].token = item[j].token
                           /\ item'[j].ready => item[j].ready \/ j = i
                           /\ item'[j].notified = item[j].notified
  <2>1. item \in [Issues -> Item] /\ item[i] \in Item
    BY <1>1 DEF TypeOK
  <2>2. PICK x : x = [item[i] EXCEPT !.ready = TRUE, !.due = TRUE]
    OBVIOUS
  <2>3. x \in Item /\ x.token = item[i].token /\ x.notified = item[i].notified
    BY <2>1, <2>2 DEF Item
  <2>4. item' = [item EXCEPT ![i] = x]
    BY <2>1, <2>2 DEF SeenInDocument
  <2> QED BY <2>1, <2>3, <2>4
<1>4. \A e \in S : entry[e].issue = i
  BY DEF Of
<1>5. folder' \in BOOLEAN /\ (folder' => folders' = 1)
  BY FolderStays
<1>6. \A j \in Issues :
       /\ item'[j].token => item[j].token \/ docs'[j] # <<>>
       /\ item'[j].notified = item[j].notified
       /\ item'[j].ready => item[j].ready \/ (docs'[j] # <<>> /\ Has(j, Header)')
  <2>1. TAKE j \in Issues
  <2>2. j = i => docs'[j] # <<>> /\ Has(j, Header)'
    OBVIOUS
  <2> QED BY <1>3, <2>2
<1>7. \A e \in DOMAIN entry :
        entry'[e].synced => \/ entry[e].synced
                            \/ \A j \in Issues : entry[e].issue = j => docs'[j] # <<>> /\ Has(j, e)'
  <2>1. ASSUME NEW e \in S, NEW j \in Issues, entry[e].issue = j
        PROVE  docs'[j] # <<>> /\ Has(j, e)'
    <3>1. j = i
      BY <1>4, <2>1
    <3>2. docs'[i] # <<>> /\ Has(i, e)'
      OBVIOUS
    <3> QED BY <3>1, <3>2
  <2> QED BY <1>2, <2>1
<1> QED BY <1>2, <1>3, <1>5, <1>6, <1>7 DEF TicksOffWhatIsThere

\* With nothing missing the task goes on to the link, and otherwise it appends
\* what is missing.
LEMMA Continues ==
  ASSUME NEW i \in Issues, NEW S \in SUBSET DOMAIN entry, Continue(i, S)
  PROVE  /\ sync' \in [at : DocCalls \cup RecordCalls \cup {"notify"}, issue : Issues,
                       pending : SUBSET DOMAIN entry, key : Key \cup {None}]
         /\ sync'.at \in {"notify", "append"} /\ sync'.issue = i /\ sync'.pending = S
<1>1. PICK at \in {"notify", "append"} : sync' = Work(at, i, S, None)
  BY DEF Continue, Then
<1> QED BY <1>1, NewWork DEF DocCalls

LEMMA FetchDocumentKeeps ==
  ASSUME IInv, FetchDocument
  PROVE  IInv'
<1>1. /\ TypeOK /\ Cloud /\ sync # None /\ sync.at = "fetch" /\ Taken
      /\ links' = links /\ folder' = folder
  BY CloudHolds DEF IInv, FetchDocument, Call
<1>2. PICK i \in Issues, S \in SUBSET DOMAIN entry : i = sync.issue /\ S = sync.pending
  BY <1>1, WorkFields
<1>3. UNCHANGED cloud
  BY <1>1 DEF Taken
<1>4. docs[i] # <<>> /\ Reaches(i, S)
  BY <1>1, <1>2 DEF IInv, DocumentIsKnown, Doing
<1>5. PICK M : M = Missing(i, S)
  OBVIOUS
<1>6. /\ M \in SUBSET DOMAIN entry /\ M \subseteq S /\ S \ M \in SUBSET Of(i)
      /\ (\A e \in M : ~Has(i, e)) /\ (\A e \in S \ M : Has(i, e))
  BY <1>4, <1>5 DEF Missing, Reaches
<1>7. Reaches(i, M)
  BY <1>4, <1>6 DEF Reaches
<1>8. /\ docs' = docs /\ Lines(i)' = Lines(i) /\ \A line : Has(i, line)' <=> Has(i, line)
  BY <1>3 DEF Lines, Has, cloud
<1>9. CASE Has(i, Header) /\ SeenInDocument(i, S \ M) /\ Continue(i, M)
  <2>1. /\ sync' \in [at : DocCalls \cup RecordCalls \cup {"notify"}, issue : Issues,
                       pending : SUBSET DOMAIN entry, key : Key \cup {None}]
         /\ sync'.at \in {"notify", "append"} /\ sync'.issue = i /\ sync'.pending = M
    BY <1>6, <1>9, Continues
  <2>2. \A j \in Issues : Of(j)' = Of(j)
    BY <1>1, <1>9, TickedOff DEF SeenInDocument
  <2>3. Cloud' /\ Grows
    BY <1>1, <1>3, <2>2, NothingTaken
  <2>4. Header' = Header
    BY DEF Header
  <2>5. docs'[i] # <<>> /\ Has(i, Header)'
    BY <1>4, <1>8, <1>9, <2>4 DEF Has
  <2>6. TicksOffWhatIsThere
    BY <1>1, <1>6, <1>8, <1>9, <2>1, <2>3, <2>5, SeenTicksOff
  <2>7. Reaches(i, M)'
    BY <1>7, <1>8, <2>2 DEF Reaches
  <2>8. DocumentIsKnown' /\ RowIsKnown'
    BY <1>6, <1>8, <2>1, <2>5, <2>7, GoesOn DEF DocCalls
  <2> QED BY <2>3, <2>6, <2>8, Stands DEF IInv
<1>10. CASE ~Has(i, Header) /\ Then(Work("header", i, M, None)) /\ UNCHANGED <<item, entry>>
  <2>1. /\ sync' \in [at : DocCalls \cup RecordCalls \cup {"notify"}, issue : Issues,
                       pending : SUBSET DOMAIN entry, key : Key \cup {None}]
         /\ sync'.at = "header" /\ sync'.issue = i /\ sync'.pending = M
    BY <1>6, <1>10, NewWork DEF DocCalls, Then
  <2>2. \A j \in Issues : Of(j)' = Of(j)
    BY <1>10 DEF Of
  <2>3. Cloud' /\ Grows
    BY <1>1, <1>3, <2>2, NothingTaken
  <2>4. folder' \in BOOLEAN /\ (folder' => folders' = 1)
    BY <1>1, <2>3, FolderStays
  <2>5. TicksOffWhatIsThere
    BY <1>1, <1>10, <2>1, <2>4, TicksOffNothing
  <2>6. Lines(i)' = <<>>
    <3>1. docs \in [Issues -> Seq(Seq(Line))] /\ Len(docs[i]) <= 1
      BY <1>1 DEF Cloud
    <3>2. Lines(i) \in Seq(Line) /\ DOMAIN Lines(i) = 1 .. Len(Lines(i)) /\ Len(Lines(i)) \in Nat
      BY <1>4, <3>1, TheDocument
    <3>3. 1 \notin DOMAIN Lines(i)
      BY <1>1, <1>4, <1>10, LinesAre
    <3>4. Len(Lines(i)) = 0
      BY <3>2, <3>3
    <3> QED BY <1>8, <3>2, <3>4, EmptySeq
  <2>7. Reaches(i, M)'
    BY <1>7, <1>8, <2>2 DEF Reaches
  <2>8. DocumentIsKnown' /\ RowIsKnown'
    BY <1>4, <1>8, <2>1, <2>6, <2>7, GoesOn DEF DocCalls
  <2> QED BY <2>3, <2>5, <2>8, Stands DEF IInv
<1> QED BY <1>2, <1>5, <1>9, <1>10 DEF FetchDocument

LEMMA WriteHeaderKeeps ==
  ASSUME IInv, WriteHeader
  PROVE  IInv'
<1>1. /\ TypeOK /\ Cloud /\ sync # None /\ sync.at = "header" /\ Taken
      /\ links' = links /\ folder' = folder
  BY CloudHolds DEF IInv, WriteHeader, Call
<1>2. PICK i \in Issues, S \in SUBSET DOMAIN entry : i = sync.issue /\ S = sync.pending
  BY <1>1, WorkFields
<1>3. PICK N \in SUBSET Of(i) : N = {} /\ SeenInDocument(i, N) /\ Continue(i, S)
  BY <1>2 DEF WriteHeader
<1>4. Reaches(i, S) /\ docs[i] # <<>>
  BY <1>1, <1>2 DEF IInv, DocumentIsKnown, Doing
<1>5. \A j \in Issues : Of(j)' = Of(j)
  BY <1>1, <1>3, TickedOff DEF SeenInDocument
<1>6. Cloud' /\ Grows /\ Learnt
  BY <1>1, <1>5, TakenGrows
<1>7. docs'[i] # <<>> /\ Has(i, Header)' /\ \A e \in 1 .. MaxEntries : ~Has(i, e)'
  BY <1>1, <1>2, <1>6 DEF Learnt
<1>8. /\ sync' \in [at : DocCalls \cup RecordCalls \cup {"notify"}, issue : Issues,
                     pending : SUBSET DOMAIN entry, key : Key \cup {None}]
      /\ sync'.at \in {"notify", "append"} /\ sync'.issue = i /\ sync'.pending = S
  BY <1>3, Continues
<1>9. TicksOffWhatIsThere
  <2>1. \A e \in N : Has(i, e)'
    BY <1>3
  <2> QED BY <1>1, <1>3, <1>6, <1>7, <1>8, <2>1, SeenTicksOff
<1>10. S \subseteq 1 .. MaxEntries /\ Of(i) \subseteq 1 .. MaxEntries /\ 1 .. MaxEntries \subseteq Line
  BY <1>1, Entries, Bounds
<1>11. Reaches(i, S)'
  BY <1>4, <1>5, <1>6, <1>10 DEF Reaches, Grows
<1>12. DocumentIsKnown' /\ RowIsKnown'
  BY <1>7, <1>8, <1>10, <1>11, GoesOn DEF DocCalls
<1> QED BY <1>6, <1>9, <1>12, Stands DEF IInv

LEMMA AppendEntriesKeeps ==
  ASSUME IInv, AppendEntries
  PROVE  IInv'
<1>1. /\ TypeOK /\ Cloud /\ sync # None /\ sync.at = "append" /\ Taken
      /\ links' = links /\ folder' = folder /\ item' = item
  BY CloudHolds DEF IInv, AppendEntries, Call
<1>2. PICK i \in Issues, S \in SUBSET DOMAIN entry : i = sync.issue /\ S = sync.pending
  BY <1>1, WorkFields
<1>3. /\ entry' = [e \in DOMAIN entry |->
                     IF e \in S THEN [entry[e] EXCEPT !.synced = TRUE] ELSE entry[e]]
      /\ sync' = Work("notify", i, {}, None)
  BY <1>2 DEF AppendEntries, Then
<1>4. S \subseteq Of(i) /\ docs[i] # <<>> /\ Has(i, Header)
  BY <1>1, <1>2 DEF IInv, DocumentIsKnown, Doing, Reaches
<1>5. /\ Len(entry') = Len(entry) /\ entry' \in Seq(Entry)
      /\ \A j \in Issues : Of(j)' = Of(j)
      /\ \A e \in DOMAIN entry :
              /\ entry'[e].issue = entry[e].issue /\ entry'[e].parts = entry[e].parts
              /\ entry'[e].recorded = entry[e].recorded
              /\ entry'[e].synced => entry[e].synced \/ e \in S
  BY <1>1, <1>3, TickedOff
<1>6. Cloud' /\ Grows /\ Learnt
  BY <1>1, <1>5, TakenGrows
<1>7. docs'[i] # <<>> /\ \A e \in S : Has(i, e)'
  BY <1>1, <1>2, <1>6 DEF Learnt
<1>8. Has(i, Header)'
  <2>1. Header' = Header /\ Header \in Line
    BY Bounds DEF Header
  <2> QED BY <1>4, <1>6, <2>1 DEF Grows
<1>9. /\ sync' \in [at : DocCalls \cup RecordCalls \cup {"notify"}, issue : Issues,
                     pending : SUBSET DOMAIN entry, key : Key \cup {None}]
      /\ sync'.at = "notify" /\ sync'.issue = i /\ sync'.pending = {}
  BY <1>3, NewWork
<1>10. folder' \in BOOLEAN /\ (folder' => folders' = 1)
  BY <1>1, <1>6, FolderStays
<1>11. \A e \in DOMAIN entry :
        entry'[e].synced => \/ entry[e].synced
                            \/ \A j \in Issues : entry[e].issue = j => docs'[j] # <<>> /\ Has(j, e)'
  <2>1. ASSUME NEW e \in S, NEW j \in Issues, entry[e].issue = j
        PROVE  docs'[j] # <<>> /\ Has(j, e)'
    <3>1. j = i
      BY <1>4, <2>1 DEF Of
    <3>2. docs'[i] # <<>> /\ Has(i, e)'
      BY <1>7
    <3> QED BY <3>1, <3>2
  <2> QED BY <1>5, <2>1
<1>12. item' \in [Issues -> Item]
  BY <1>1 DEF TypeOK
<1>13. TicksOffWhatIsThere
  BY <1>1, <1>5, <1>9, <1>10, <1>11, <1>12 DEF TicksOffWhatIsThere
<1>14. DocumentIsKnown' /\ RowIsKnown'
  BY <1>7, <1>8, <1>9, GoesOn DEF DocCalls
<1> QED BY <1>6, <1>13, <1>14, Stands DEF IInv

\* Changing one entry, whose issue stays, leaves the others as they were.
LEMMA EntryChanged ==
  ASSUME TypeOK, NEW k \in DOMAIN entry, NEW x \in Entry, x.issue = entry[k].issue,
         entry' = [entry EXCEPT ![k] = x]
  PROVE  /\ Len(entry') = Len(entry) /\ entry' \in Seq(Entry) /\ DOMAIN entry' = DOMAIN entry
         /\ entry'[k] = x /\ \A e \in DOMAIN entry : e # k => entry'[e] = entry[e]
         /\ \A j \in Issues : Of(j)' = Of(j)
<1>1. entry \in Seq(Entry)
  BY DEF TypeOK
<1>2. /\ Len(entry') = Len(entry) /\ entry' \in Seq(Entry) /\ DOMAIN entry' = DOMAIN entry
      /\ entry'[k] = x /\ \A e \in DOMAIN entry : e # k => entry'[e] = entry[e]
  BY <1>1
<1>3. \A e \in DOMAIN entry : entry'[e].issue = entry[e].issue
  BY <1>2
<1> QED BY <1>2, <1>3 DEF Of

\* An entry of which all rows are there is ticked off, or nothing is.
LEMMA NextPartTicksOff ==
  ASSUME TypeOK, sync.key[1] \in DOMAIN entry, NextPart
  PROVE  \A j \in Issues : Of(j)' = Of(j)
<1>1. PICK e \in DOMAIN entry : e = sync.key[1]
  OBVIOUS
<1>2. entry[e] \in Entry
  BY Entries
<1>3. PICK x : x = [entry[e] EXCEPT !.recorded = TRUE]
  OBVIOUS
<1>4. x \in Entry /\ x.issue = entry[e].issue
  BY <1>2, <1>3 DEF Entry
<1>5. CASE entry' = entry
  BY <1>5 DEF Of
<1>6. CASE entry' = [entry EXCEPT ![e] = x]
  BY <1>4, <1>6, EntryChanged
<1> QED BY <1>1, <1>3, <1>5, <1>6 DEF NextPart

\* The parts of an entry have their rows up to the one the task is at; the next
\* part, or the end of the entry.
LEMMA NextPartKeeps ==
  ASSUME IInv, sync # None, sync.at \in RecordCalls, NextPart, Cloud', Grows,
         history'[sync.key] = 1, UNCHANGED <<item, links, folder>>
  PROVE  IInv'
<1>1. TypeOK /\ folder' \in BOOLEAN /\ (folder' => folders' = 1)
  BY FolderStays DEF IInv
<1>2. PICK k \in Key : k = sync.key
  BY DEF IInv, RowIsKnown, Doing
<1>3. PICK e \in 1 .. MaxEntries, n \in 1 .. MaxParts : k = <<e, n>> /\ e = k[1] /\ n = k[2]
  BY DEF Key
<1>4. /\ e \in DOMAIN entry /\ n <= entry[e].parts /\ n \in Nat /\ n >= 1
      /\ \A m \in 1 .. (n - 1) : history[<<e, m>>] = 1
  BY <1>2, <1>3, Bounds DEF IInv, RowIsKnown, Doing
<1>5. entry[e] \in Entry /\ entry[e].parts \in 1 .. MaxParts /\ MaxParts \in Nat
  BY <1>1, <1>4, Entries, Bounds DEF Entry
<1>6. \A m \in 1 .. n : history'[<<e, m>>] = 1
  <2>1. TAKE m \in 1 .. n
  <2>2. m = n \/ m \in 1 .. (n - 1)
    BY <1>4
  <2>3. <<e, m>> \in Key
    BY <1>3, <1>5, <2>1 DEF Key
  <2> QED BY <1>2, <1>3, <1>4, <2>2, <2>3 DEF Grows
<1>7. CASE n < entry[e].parts
  <2>1. sync' = [sync EXCEPT !.at = "find", !.key = <<e, n + 1>>] /\ entry' = entry
    BY <1>2, <1>3, <1>7 DEF NextPart, Then
  <2>2. n + 1 \in 1 .. MaxParts /\ n + 1 <= entry[e].parts /\ (n + 1) - 1 = n
    BY <1>4, <1>5, <1>7
  <2>3. /\ sync' \in [at : DocCalls \cup RecordCalls \cup {"notify"}, issue : Issues,
                       pending : SUBSET DOMAIN entry, key : Key \cup {None}]
        /\ sync'.at = "find" /\ sync'.key = <<e, n + 1>> /\ sync'.key[1] = e /\ sync'.key[2] = n + 1
    <3>1. <<e, n + 1>> \in Key
      BY <2>2 DEF Key
    <3> QED BY <1>1, <2>1, <3>1, WorkFields DEF RecordCalls
  <2>4. TicksOffWhatIsThere
    BY <1>1, <2>1, <2>3, TicksOffNothing
  <2>5. DocumentIsKnown'
    BY <2>3 DEF DocumentIsKnown, Doing
  <2>6. RowIsKnown'
    <3>1. <<e, n + 1>> \in Key
      BY <2>2 DEF Key
    <3> QED BY <1>4, <1>6, <2>1, <2>2, <2>3, <3>1 DEF RowIsKnown, Doing
  <2> QED BY <2>4, <2>5, <2>6, Stands DEF IInv
<1>8. CASE ~(n < entry[e].parts)
  <2>1. n = entry[e].parts
    BY <1>4, <1>5, <1>8
  <2>2. entry' = [entry EXCEPT ![e].recorded = TRUE] /\ sync' = None
    BY <1>2, <1>3, <1>8 DEF NextPart, Then
  <2>3. /\ Len(entry') = Len(entry) /\ entry' \in Seq(Entry)
        /\ \A f \in DOMAIN entry :
              /\ entry'[f].issue = entry[f].issue /\ entry'[f].parts = entry[f].parts
              /\ entry'[f].synced = entry[f].synced
              /\ entry'[f].recorded => entry[f].recorded \/ f = e
    <3>1. entry \in Seq(Entry)
      BY <1>1 DEF TypeOK
    <3>2. PICK x : x = [entry[e] EXCEPT !.recorded = TRUE]
      OBVIOUS
    <3>3. x \in Entry /\ x.issue = entry[e].issue /\ x.parts = entry[e].parts /\ x.synced = entry[e].synced
      BY <1>5, <3>2 DEF Entry
    <3>4. entry' = [entry EXCEPT ![e] = x]
      BY <2>2, <3>2
    <3> QED BY <1>4, <3>1, <3>3, <3>4
  <2>4. item' \in [Issues -> Item]
    BY <1>1 DEF TypeOK
  <2>5. TicksOffWhatIsThere
    BY <1>1, <1>6, <2>1, <2>2, <2>3, <2>4 DEF TicksOffWhatIsThere
  <2> QED BY <2>2, <2>5, AtRest, Stands DEF IInv
<1> QED BY <1>7, <1>8

LEMMA FindRowKeeps ==
  ASSUME IInv, FindRow
  PROVE  IInv'
<1>1. /\ TypeOK /\ Cloud /\ sync # None /\ sync.at = "find" /\ Taken
      /\ item' = item /\ links' = links /\ folder' = folder
  BY CloudHolds DEF IInv, FindRow, Call
<1>2. UNCHANGED cloud
  BY <1>1 DEF Taken
<1>3. CASE history[sync.key] = 1 /\ NextPart
  <2>1. \A j \in Issues : Of(j)' = Of(j)
    <3>1. sync.key[1] \in DOMAIN entry
      BY <1>1 DEF IInv, RowIsKnown, Doing, RecordCalls
    <3> QED BY <1>1, <1>3, <3>1, NextPartTicksOff
  <2>2. Cloud' /\ Grows
    BY <1>1, <1>2, <2>1, NothingTaken
  <2>3. history'[sync.key] = 1
    BY <1>2, <1>3 DEF cloud
  <2> QED BY <1>1, <1>3, <2>2, <2>3, NextPartKeeps DEF RecordCalls
<1>4. CASE history[sync.key] = 0 /\ Then([sync EXCEPT !.at = "write"]) /\ UNCHANGED entry
  <2>1. Cloud' /\ Grows
    BY <1>1, <1>2, <1>4, NothingTaken DEF Of
  <2>2. /\ sync' \in [at : DocCalls \cup RecordCalls \cup {"notify"}, issue : Issues,
                       pending : SUBSET DOMAIN entry, key : Key \cup {None}]
        /\ sync'.at = "write" /\ sync'.key = sync.key
    BY <1>1, <1>4, SameWork DEF RecordCalls, Then
  <2>3. folder' \in BOOLEAN /\ (folder' => folders' = 1)
    BY <1>1, <2>1, FolderStays
  <2>4. TicksOffWhatIsThere
    BY <1>1, <1>4, <2>2, <2>3, TicksOffNothing
  <2>5. DocumentIsKnown'
    BY <2>2 DEF DocumentIsKnown, Doing
  <2>6. RowIsKnown'
    <3>1. history' = history
      BY <1>2 DEF cloud
    <3>2. /\ sync.key \in Key /\ sync.key[1] \in DOMAIN entry /\ sync.key[2] <= entry[sync.key[1]].parts
          /\ \A m \in 1 .. (sync.key[2] - 1) : history[<<sync.key[1], m>>] = 1
      BY <1>1 DEF IInv, RowIsKnown, Doing, RecordCalls
    <3> QED BY <1>4, <2>2, <3>1, <3>2 DEF RowIsKnown, Doing
  <2> QED BY <2>1, <2>4, <2>5, <2>6, Stands DEF IInv
<1> QED BY <1>3, <1>4 DEF FindRow

LEMMA WriteRowKeeps ==
  ASSUME IInv, WriteRow
  PROVE  IInv'
<1>1. /\ TypeOK /\ sync # None /\ sync.at = "write" /\ Taken /\ NextPart
      /\ item' = item /\ links' = links /\ folder' = folder
  BY DEF IInv, WriteRow, Call
<1>2. PICK i \in Issues : i = sync.issue
  BY <1>1, WorkFields
<1>3. \A j \in Issues : Of(j)' = Of(j)
  <2>1. sync.key[1] \in DOMAIN entry
    BY <1>1 DEF IInv, RowIsKnown, Doing, RecordCalls
  <2> QED BY <1>1, <2>1, NextPartTicksOff
<1>4. Cloud' /\ Grows /\ Learnt
  BY <1>1, <1>3, TakenGrows
<1>5. history'[sync.key] = 1
  BY <1>1, <1>2, <1>4 DEF Learnt
<1> QED BY <1>1, <1>4, <1>5, NextPartKeeps DEF RecordCalls

\* The link is sent when the document has begun, and the flag stored with it.
LEMMA LinkSent ==
  ASSUME IInv, NEW i \in Issues, docs[i] # <<>>, Has(i, Header),
         links' = (IF item[i].notified THEN links ELSE [links EXCEPT ![i] = @ + 1]),
         item' = [item EXCEPT ![i].notified = TRUE], sync' = None,
         UNCHANGED <<entry, folder, cloud>>
  PROVE  IInv'
<1>1. TypeOK /\ Cloud
  BY CloudHolds DEF IInv
<1>2. docs' = docs /\ folders' = folders /\ history' = history /\ entry' = entry /\ folder' = folder
  BY DEF cloud
<1>3. Cloud'
  BY <1>1, NothingTaken DEF Of
<1>4. /\ item' \in [Issues -> Item] /\ item'[i].notified
      /\ \A j \in Issues : /\ item'[j].token = item[j].token
                           /\ item'[j].ready = item[j].ready
                           /\ j # i => item'[j].notified = item[j].notified
  <2>1. item \in [Issues -> Item] /\ item[i] \in Item
    BY <1>1 DEF TypeOK
  <2>2. PICK x : x = [item[i] EXCEPT !.notified = TRUE]
    OBVIOUS
  <2>3. x \in Item /\ x.token = item[i].token /\ x.ready = item[i].ready /\ x.notified
    BY <2>1, <2>2 DEF Item
  <2>4. item' = [item EXCEPT ![i] = x]
    BY <2>1, <2>2
  <2> QED BY <2>1, <2>3, <2>4
<1>5. links' \in [Issues -> Nat] /\ \A j \in Issues : links'[j] = IF item'[j].notified THEN 1 ELSE 0
  <2>1. links \in [Issues -> Nat] /\ \A j \in Issues : links[j] = IF item[j].notified THEN 1 ELSE 0
    BY <1>1 DEF IInv, TypeOK, ReadyHasBegun
  <2>2. item[i].notified => links[i] = 1
    BY <2>1
  <2>3. ~item[i].notified => links[i] = 0
    BY <2>1
  <2>4. links' \in [Issues -> Nat] /\ links'[i] = 1 /\ \A j \in Issues : j # i => links'[j] = links[j]
    <3>1. CASE item[i].notified
      BY <2>1, <2>2, <3>1
    <3>2. CASE ~item[i].notified
      <4>1. links' = [links EXCEPT ![i] = links[i] + 1] /\ links[i] = 0 /\ 0 + 1 = 1
        BY <2>3, <3>2
      <4>2. links' = [links EXCEPT ![i] = 1]
        BY <4>1
      <4> QED BY <2>1, <4>2
    <3> QED BY <3>1, <3>2
  <2> QED BY <1>4, <2>1, <2>4
<1>6. \A j \in Issues : Lines(j)' = Lines(j) /\ \A line : Has(j, line)' <=> Has(j, line)
  BY <1>2 DEF Lines, Has
<1>7. Header' = Header
  BY DEF Header
<1>8. TypeOK'
  BY <1>1, <1>2, <1>4, <1>5 DEF TypeOK
<1>9. OneDocument' /\ TickedOffIsThere'
  BY <1>2, <1>4 DEF IInv, CopiesAreExact, OneDocument, TickedOffIsThere, Has, Lines
<1>10. ReadyHasBegun'
  BY <1>2, <1>4, <1>5, <1>6, <1>7 DEF IInv, ReadyHasBegun
<1>11. LinkSentOnce'
  <2>1. ASSUME NEW j \in Issues
        PROVE  links'[j] <= 1 /\ (links'[j] = 1 => docs'[j] # <<>> /\ Has(j, Header)')
    BY <1>5, <1>7, <1>10 DEF ReadyHasBegun
  <2> QED BY <1>7, <2>1 DEF LinkSentOnce
<1> QED BY <1>3, <1>8, <1>9, <1>10, <1>11, AtRest DEF IInv, CopiesAreExact, Cloud

LEMMA NotifyReadyKeeps ==
  ASSUME IInv, NotifyReady
  PROVE  IInv'
<1>1. TypeOK /\ sync # None /\ sync.at = "notify"
  BY DEF IInv, NotifyReady
<1>2. PICK i \in Issues : i = sync.issue
  BY <1>1, WorkFields
<1>3. docs[i] # <<>> /\ Has(i, Header)
  BY <1>1, <1>2 DEF IInv, DocumentIsKnown, Doing
<1> QED BY <1>2, <1>3, LinkSent DEF NotifyReady, Then

LEMMA NotifyLateKeeps ==
  ASSUME IInv, NEW i \in Issues, NotifyLate(i)
  PROVE  IInv'
<1>1. docs[i] # <<>> /\ Has(i, Header)
  BY DEF IInv, ReadyHasBegun, NotifyLate
<1>2. sync' = None /\ links' = (IF item[i].notified THEN links ELSE [links EXCEPT ![i] = @ + 1])
  BY DEF NotifyLate
<1> QED BY <1>1, <1>2, LinkSent DEF NotifyLate

\* Columns that say nothing of Feishu may change.
LEMMA ColumnsChange ==
  ASSUME TypeOK, NEW i \in Issues, NEW x \in Item, item' = [item EXCEPT ![i] = x],
         x.token = item[i].token, x.ready = item[i].ready, x.notified = item[i].notified,
         UNCHANGED <<entry, links, sync, folder>>, folder => folders' = 1
  PROVE  TicksOffWhatIsThere
<1>1. /\ item' \in [Issues -> Item]
      /\ \A j \in Issues : /\ item'[j].token = item[j].token
                           /\ item'[j].ready = item[j].ready
                           /\ item'[j].notified = item[j].notified
  BY DEF TypeOK
<1> QED BY <1>1 DEF TicksOffWhatIsThere, TypeOK

\* While Feishu stays as it is, so does what the task knows.
LEMMA StillKnown ==
  ASSUME IInv, UNCHANGED <<sync, cloud>>, DOMAIN entry' = DOMAIN entry,
         \A j \in Issues : Of(j)' = Of(j),
         \A e \in DOMAIN entry : entry'[e].parts = entry[e].parts
  PROVE  DocumentIsKnown' /\ RowIsKnown'
<1>1. docs' = docs /\ folders' = folders /\ history' = history /\ sync' = sync
  BY DEF cloud
<1>2. /\ \A j : Lines(j)' = Lines(j) /\ \A line : Has(j, line)' <=> Has(j, line)
      /\ Header' = Header
  BY <1>1 DEF Lines, Has, Header
<1>3. sync # None => sync.issue \in Issues
  BY WorkFields DEF IInv
<1>4. sync # None => (Reaches(sync.issue, sync.pending)' <=> Reaches(sync.issue, sync.pending))
  BY <1>1, <1>2, <1>3 DEF Reaches, Has, Lines
<1>5. DocumentIsKnown'
  BY <1>1, <1>4 DEF IInv, DocumentIsKnown, Doing, Lines, Has, Header
<1>6. RowIsKnown'
  BY <1>1 DEF IInv, RowIsKnown, Doing, RecordCalls
<1> QED BY <1>5, <1>6

LEMMA MirrorIssueKeeps ==
  ASSUME IInv, NEW i \in Issues, MirrorIssue(i) \/ DocumentDue(i)
  PROVE  IInv'
<1>1. TypeOK /\ Cloud /\ item \in [Issues -> Item] /\ item[i] \in Item
  BY CloudHolds DEF IInv, TypeOK
<1>2. UNCHANGED <<entry, links, sync, folder, cloud>>
  BY DEF MirrorIssue, DocumentDue
<1>3. PICK x \in Item : /\ item' = [item EXCEPT ![i] = x]
                        /\ x.token = item[i].token /\ x.ready = item[i].ready
                        /\ x.notified = item[i].notified
  <2>1. CASE MirrorIssue(i)
    <3>1. PICK y : y = [item[i] EXCEPT !.record = TRUE, !.changed = FALSE, !.linked = item[i].token]
      OBVIOUS
    <3>2. y \in Item /\ y.token = item[i].token /\ y.ready = item[i].ready /\ y.notified = item[i].notified
      BY <1>1, <3>1 DEF Item
    <3>3. item' = [item EXCEPT ![i] = y]
      BY <1>1, <2>1, <3>1 DEF MirrorIssue
    <3> QED BY <3>2, <3>3
  <2>2. CASE DocumentDue(i)
    <3>1. PICK y : y = [item[i] EXCEPT !.due = TRUE]
      OBVIOUS
    <3>2. y \in Item /\ y.token = item[i].token /\ y.ready = item[i].ready /\ y.notified = item[i].notified
      BY <1>1, <3>1 DEF Item
    <3>3. item' = [item EXCEPT ![i] = y]
      BY <1>1, <2>2, <3>1 DEF DocumentDue
    <3> QED BY <3>2, <3>3
  <2> QED BY <2>1, <2>2
<1>4. Cloud' /\ Grows
  BY <1>1, <1>2, NothingTaken DEF Of
<1>5. folder' \in BOOLEAN /\ (folder' => folders' = 1)
  BY <1>2, <1>4, FolderStays
<1>6. TicksOffWhatIsThere
  BY <1>1, <1>2, <1>3, <1>5, ColumnsChange
<1>7. DocumentIsKnown' /\ RowIsKnown'
  BY <1>2, StillKnown DEF Of
<1> QED BY <1>4, <1>6, <1>7, Stands DEF IInv

LEMMA RecordDueKeeps ==
  ASSUME IInv, NEW e \in DOMAIN entry, RecordDue(e)
  PROVE  IInv'
<1>1. TypeOK /\ Cloud /\ entry[e] \in Entry
  BY CloudHolds, Entries DEF IInv
<1>2. UNCHANGED <<item, links, sync, folder, cloud>>
  BY DEF RecordDue
<1>3. PICK x : x = [entry[e] EXCEPT !.due = TRUE]
  OBVIOUS
<1>4. /\ x \in Entry /\ x.issue = entry[e].issue /\ x.parts = entry[e].parts
      /\ x.synced = entry[e].synced /\ x.recorded = entry[e].recorded
  BY <1>1, <1>3 DEF Entry
<1>5. entry' = [entry EXCEPT ![e] = x]
  BY <1>3 DEF RecordDue
<1>6. /\ Len(entry') = Len(entry) /\ entry' \in Seq(Entry) /\ DOMAIN entry' = DOMAIN entry
      /\ entry'[e] = x /\ \A f \in DOMAIN entry : f # e => entry'[f] = entry[f]
      /\ \A j \in Issues : Of(j)' = Of(j)
  BY <1>1, <1>4, <1>5, EntryChanged
<1>7. Cloud' /\ Grows
  BY <1>1, <1>2, <1>6, NothingTaken
<1>8. folder' \in BOOLEAN /\ (folder' => folders' = 1)
  BY <1>2, <1>7, FolderStays
<1>9. \A f \in DOMAIN entry :
        /\ entry'[f].issue = entry[f].issue /\ entry'[f].parts = entry[f].parts
        /\ entry'[f].synced = entry[f].synced /\ entry'[f].recorded = entry[f].recorded
  BY <1>4, <1>6
<1>10. TicksOffWhatIsThere
  BY <1>1, <1>2, <1>6, <1>8, <1>9 DEF TicksOffWhatIsThere, TypeOK
<1>11. DocumentIsKnown' /\ RowIsKnown'
  BY <1>2, <1>6, <1>9, StillKnown
<1> QED BY <1>7, <1>10, <1>11, Stands DEF IInv

LEMMA StartDocumentKeeps ==
  ASSUME IInv, NEW i \in Issues, StartDocument(i)
  PROVE  IInv'
<1>1. TypeOK /\ Cloud /\ UNCHANGED <<item, entry, links, folder, cloud>>
  BY CloudHolds DEF IInv, StartDocument
<1>2. Cloud' /\ Grows /\ docs' = docs
  BY <1>1, NothingTaken DEF Of, cloud
<1>3. folder' \in BOOLEAN /\ (folder' => folders' = 1)
  BY <1>1, <1>2, FolderStays
<1>4. CASE item[i].token /\ sync' = Work("fetch", i, Pending(i), None)
  <2>1. PICK S \in SUBSET DOMAIN entry : S = Pending(i)
    BY DEF Pending, Of
  <2>2. /\ sync' \in [at : DocCalls \cup RecordCalls \cup {"notify"}, issue : Issues,
                       pending : SUBSET DOMAIN entry, key : Key \cup {None}]
        /\ sync'.at = "fetch" /\ sync'.issue = i /\ sync'.pending = S
    BY <1>4, <2>1, NewWork DEF DocCalls
  <2>3. TicksOffWhatIsThere
    BY <1>1, <1>3, <2>2, TicksOffNothing
  <2>4. docs'[i] # <<>>
    BY <1>2, <1>4, EmptySeq DEF IInv, CopiesAreExact, OneDocument
  <2>5. Reaches(i, S)
    BY <2>1, PendingReaches DEF IInv, CopiesAreExact
  <2>6. Reaches(i, S)'
    BY <1>1, <1>2, <2>5 DEF Reaches, Of, Has, Lines
  <2>7. DocumentIsKnown' /\ RowIsKnown'
    BY <2>2, <2>4, <2>6, GoesOn DEF DocCalls
  <2> QED BY <1>2, <2>3, <2>7, Stands DEF IInv
<1>5. CASE \E at \in {"list", "folder"} : sync' = Work(at, i, {}, None)
  <2>1. PICK at \in {"list", "folder"} : sync' = Work(at, i, {}, None)
    BY <1>5
  <2>2. /\ sync' \in [at : DocCalls \cup RecordCalls \cup {"notify"}, issue : Issues,
                       pending : SUBSET DOMAIN entry, key : Key \cup {None}]
        /\ sync'.at = at /\ sync'.issue = i
    BY <2>1, NewWork DEF DocCalls
  <2>3. TicksOffWhatIsThere
    BY <1>1, <1>3, <2>2, TicksOffNothing
  <2>4. DocumentIsKnown' /\ RowIsKnown'
    BY <2>2, GoesOn DEF DocCalls
  <2> QED BY <1>2, <2>3, <2>4, Stands DEF IInv
<1> QED BY <1>4, <1>5 DEF StartDocument

LEMMA StartRecordKeeps ==
  ASSUME IInv, NEW e \in DOMAIN entry, StartRecord(e)
  PROVE  IInv'
<1>1. TypeOK /\ Cloud /\ UNCHANGED <<item, entry, links, folder, cloud>>
  BY CloudHolds DEF IInv, StartRecord
<1>2. Cloud' /\ Grows
  BY <1>1, NothingTaken DEF Of
<1>3. folder' \in BOOLEAN /\ (folder' => folders' = 1)
  BY <1>1, <1>2, FolderStays
<1>4. e \in 1 .. MaxEntries /\ entry[e].issue \in Issues /\ entry[e].parts \in 1 .. MaxParts
      /\ MaxParts \in Nat
  BY <1>1, Entries, Bounds DEF Entry
<1>5. 1 \in 1 .. MaxParts /\ 1 <= entry[e].parts /\ 1 - 1 = 0
  BY <1>4
<1>6. <<e, 1>> \in Key
  BY <1>4, <1>5 DEF Key
<1>7. PICK i \in Issues : i = entry[e].issue /\ sync' = Work("find", i, {}, <<e, 1>>)
  BY <1>4 DEF StartRecord
<1>8. /\ sync' \in [at : DocCalls \cup RecordCalls \cup {"notify"}, issue : Issues,
                     pending : SUBSET DOMAIN entry, key : Key \cup {None}]
      /\ sync'.at = "find" /\ sync'.key = <<e, 1>> /\ sync'.key[1] = e /\ sync'.key[2] = 1
  BY <1>6, <1>7, NewWork DEF RecordCalls
<1>9. TicksOffWhatIsThere
  BY <1>1, <1>3, <1>8, TicksOffNothing
<1>10. DocumentIsKnown'
  BY <1>8 DEF DocumentIsKnown, Doing
<1>11. RowIsKnown'
  <2>1. entry' = entry /\ \A m \in 1 .. (1 - 1) : FALSE
    BY <1>1, <1>5
  <2> QED BY <1>5, <1>6, <1>8, <2>1 DEF RowIsKnown, Doing
<1> QED BY <1>2, <1>9, <1>10, <1>11, Stands DEF IInv

\* Work put off ticks nothing off.
LEMMA PutOffKeeps ==
  ASSUME IInv, sync # None, sync.at # "notify", PutOff
  PROVE  /\ item' \in [Issues -> Item] /\ entry' \in Seq(Entry) /\ Len(entry') = Len(entry)
         /\ \A j \in Issues : /\ item'[j].token = item[j].token
                              /\ item'[j].ready = item[j].ready
                              /\ item'[j].notified = item[j].notified
         /\ \A j \in Issues : Of(j)' = Of(j)
         /\ \A f \in DOMAIN entry :
              /\ entry'[f].issue = entry[f].issue /\ entry'[f].parts = entry[f].parts
              /\ entry'[f].synced = entry[f].synced /\ entry'[f].recorded = entry[f].recorded
<1>1. TypeOK /\ item \in [Issues -> Item] /\ entry \in Seq(Entry)
  BY DEF IInv, TypeOK
<1>2. CASE sync.at \in RecordCalls
  <2>1. PICK e \in DOMAIN entry : e = sync.key[1]
    BY <1>2 DEF IInv, RowIsKnown, Doing
  <2>2. PICK x : x = [entry[e] EXCEPT !.due = FALSE]
    OBVIOUS
  <2>3. /\ x \in Entry /\ x.issue = entry[e].issue /\ x.parts = entry[e].parts
        /\ x.synced = entry[e].synced /\ x.recorded = entry[e].recorded
    BY <1>1, <2>2, Entries DEF Entry
  <2>4. entry' = [entry EXCEPT ![e] = x] /\ item' = item
    BY <1>2, <2>1, <2>2 DEF PutOff
  <2>5. /\ Len(entry') = Len(entry) /\ entry' \in Seq(Entry)
        /\ entry'[e] = x /\ \A f \in DOMAIN entry : f # e => entry'[f] = entry[f]
        /\ \A j \in Issues : Of(j)' = Of(j)
    BY <1>1, <2>3, <2>4, EntryChanged
  <2> QED BY <1>1, <2>3, <2>4, <2>5
<1>3. CASE sync.at \notin RecordCalls
  <2>1. PICK i \in Issues : i = sync.issue
    BY <1>1, WorkFields
  <2>2. PICK x : x = [item[i] EXCEPT !.due = FALSE]
    OBVIOUS
  <2>3. /\ x \in Item /\ x.token = item[i].token /\ x.ready = item[i].ready
        /\ x.notified = item[i].notified
    BY <1>1, <2>2 DEF Item
  <2>4. item' = [item EXCEPT ![i] = x] /\ entry' = entry
    BY <1>1, <1>3, <2>1, <2>2 DEF PutOff
  <2>5. \A j \in Issues : Of(j)' = Of(j)
    BY <2>4 DEF Of
  <2> QED BY <1>1, <2>3, <2>4, <2>5
<1> QED BY <1>2, <1>3

LEMMA CallFailsKeeps ==
  ASSUME IInv, NEW taken \in BOOLEAN, CallFails(taken)
  PROVE  IInv'
<1>1. /\ TypeOK /\ Cloud /\ sync # None /\ sync.at # "notify" /\ PutOff
      /\ sync' = None /\ links' = links /\ folder' = folder
  BY CloudHolds DEF IInv, CallFails
<1>2. /\ item' \in [Issues -> Item] /\ entry' \in Seq(Entry) /\ Len(entry') = Len(entry)
      /\ \A j \in Issues : /\ item'[j].token = item[j].token
                           /\ item'[j].ready = item[j].ready
                           /\ item'[j].notified = item[j].notified
      /\ \A j \in Issues : Of(j)' = Of(j)
      /\ \A f \in DOMAIN entry :
              /\ entry'[f].issue = entry[f].issue /\ entry'[f].parts = entry[f].parts
              /\ entry'[f].synced = entry[f].synced /\ entry'[f].recorded = entry[f].recorded
  BY <1>1, PutOffKeeps
<1>3. Cloud' /\ Grows
  <2>1. CASE Taken
    BY <1>1, <1>2, <2>1, TakenGrows
  <2>2. CASE UNCHANGED cloud
    BY <1>1, <1>2, <2>2, NothingTaken
  <2> QED BY <2>1, <2>2 DEF CallFails
<1>4. folder' \in BOOLEAN /\ (folder' => folders' = 1)
  BY <1>1, <1>3, FolderStays
<1>5. TicksOffWhatIsThere
  BY <1>1, <1>2, <1>4 DEF TicksOffWhatIsThere
<1> QED BY <1>1, <1>3, <1>5, AtRest, Stands DEF IInv

LEMMA CrashKeeps ==
  ASSUME IInv, Crash
  PROVE  IInv'
<1>1. /\ TypeOK /\ Cloud /\ sync' = None /\ folder' = FALSE /\ UNCHANGED <<item, entry, links>>
  BY CloudHolds DEF IInv, Crash
<1>2. \A j \in Issues : Of(j)' = Of(j)
  BY <1>1 DEF Of
<1>3. Cloud' /\ Grows
  <2>1. CASE sync # None /\ sync.at # "notify" /\ Taken
    BY <1>2, <2>1, TakenGrows
  <2>2. CASE UNCHANGED cloud
    BY <1>1, <1>2, <2>2, NothingTaken
  <2> QED BY <2>1, <2>2 DEF Crash
<1>4. TicksOffWhatIsThere
  BY <1>1, TicksOffNothing
<1> QED BY <1>1, <1>3, <1>4, AtRest, Stands DEF IInv

\* An entry that comes is later than all that is in a document and all that the
\* task is about to append.
LEMMA AddEntryKeeps ==
  ASSUME IInv, NEW i \in Issues, NEW parts \in 1 .. MaxParts, AddEntry(i, parts)
  PROVE  IInv'
<1>1. TypeOK /\ Cloud
  BY CloudHolds DEF IInv
<1>2. /\ links' = links /\ sync' = sync /\ folder' = folder
      /\ folders' = folders /\ docs' = docs /\ history' = history
  BY DEF AddEntry, cloud
<1>3. PICK new : new = [issue |-> i, parts |-> parts, synced |-> FALSE, recorded |-> FALSE,
                        due |-> TRUE]
  OBVIOUS
<1>4. new \in Entry /\ new.issue = i /\ ~new.synced /\ ~new.recorded
  BY <1>3 DEF Entry
<1>5. PICK e : e = Len(entry) + 1
  OBVIOUS
<1>6. entry \in Seq(Entry) /\ Len(entry) \in Nat /\ DOMAIN entry = 1 .. Len(entry)
      /\ Len(entry) < MaxEntries /\ MaxEntries \in Nat /\ entry' = Append(entry, new)
  BY <1>1, <1>3, Entries, Bounds DEF AddEntry, TypeOK
<1>7. /\ entry' \in Seq(Entry) /\ Len(entry') = e /\ Len(entry') <= MaxEntries /\ e \in Nat
      /\ DOMAIN entry' = DOMAIN entry \cup {e} /\ e \notin DOMAIN entry
      /\ entry'[e] = new /\ (\A f \in DOMAIN entry : entry'[f] = entry[f] /\ f < e)
  BY <1>4, <1>5, <1>6
<1>8. \A j \in Issues : /\ Of(j) \subseteq Of(j)' /\ Of(j)' \subseteq Of(j) \cup {e}
                        /\ \A f \in Of(j) : f < e
  BY <1>7 DEF Of
<1>9. /\ item' \in [Issues -> Item]
      /\ \A j \in Issues : /\ item'[j].token = item[j].token
                           /\ item'[j].ready = item[j].ready
                           /\ item'[j].notified = item[j].notified
  <2>1. item \in [Issues -> Item] /\ item[i] \in Item
    BY <1>1 DEF TypeOK
  <2>2. PICK x : x = [item[i] EXCEPT !.reported = TRUE, !.changed = TRUE]
    OBVIOUS
  <2>3. x \in Item /\ x.token = item[i].token /\ x.ready = item[i].ready /\ x.notified = item[i].notified
    BY <2>1, <2>2 DEF Item
  <2>4. item' = [item EXCEPT ![i] = x]
    BY <2>1, <2>2 DEF AddEntry
  <2> QED BY <2>1, <2>3, <2>4
<1>10. /\ \A j : Lines(j)' = Lines(j) /\ \A line : Has(j, line)' <=> Has(j, line)
       /\ Header' = Header
  BY <1>2 DEF Lines, Has, Header
<1>11. TypeOK'
  <2>1. sync' \in {None} \cup [at : DocCalls \cup RecordCalls \cup {"notify"}, issue : Issues,
                               pending : SUBSET DOMAIN entry', key : Key \cup {None}]
    <3>1. SUBSET DOMAIN entry \subseteq SUBSET DOMAIN entry'
      BY <1>7
    <3> QED BY <1>1, <1>2, <3>1 DEF TypeOK
  <2> QED BY <1>1, <1>2, <1>7, <1>9, <2>1 DEF TypeOK
<1>12. OneDocument' /\ HistoryOnce' /\ LinkSentOnce' /\ ReadyHasBegun'
  BY <1>2, <1>9, <1>10 DEF IInv, CopiesAreExact, OneDocument, HistoryOnce, LinkSentOnce, ReadyHasBegun
<1>13. DocumentInOrder'
  BY <1>2, <1>8, <1>10 DEF IInv, CopiesAreExact, DocumentInOrder
<1>14. TickedOffIsThere'
  BY <1>2, <1>4, <1>7 DEF IInv, CopiesAreExact, TickedOffIsThere, Has, Lines
<1>15. NothingSkipped'
  <2>1. ASSUME NEW j \in Issues, docs[j] # <<>>, NEW n \in DOMAIN Lines(j)
        PROVE  Lines(j)[n] < e
    <3>1. \/ Lines(j)[n] = Header
          \/ Lines(j)[n] \in Of(j)
      BY <1>1, <2>1, LinesAre
    <3>2. Header < e
      BY <1>5, <1>6 DEF Header
    <3> QED BY <1>8, <3>1, <3>2
  <2>2. ASSUME NEW j \in Issues, docs[j] # <<>>, NEW f \in Of(j)', ~Has(j, f), NEW n \in DOMAIN Lines(j)
        PROVE  Lines(j)[n] < f
    <3>1. f \in Of(j) \/ f = e
      BY <1>8
    <3> QED BY <1>1, <2>1, <2>2, <3>1 DEF Cloud, NothingSkipped
  <2> QED BY <1>2, <1>10, <2>2 DEF NothingSkipped
<1>16. DocumentIsKnown'
  <2>1. ASSUME NEW j \in Issues, NEW S \in SUBSET DOMAIN entry, Reaches(j, S)
        PROVE  Reaches(j, S)'
    <3>1. S \subseteq Of(j)'
      BY <1>8, <2>1 DEF Reaches
    <3>2. ASSUME NEW f \in Of(j)' \ S
          PROVE  Has(j, f)' \/ \A p \in S : p < f
      <4>1. f \in Of(j) \/ f = e
        BY <1>8
      <4>2. \A p \in S : p < e
        BY <1>7
      <4> QED BY <1>10, <2>1, <3>2, <4>1, <4>2 DEF Reaches
    <3> QED BY <3>1, <3>2 DEF Reaches
  <2>2. CASE sync = None
    BY <1>2, <2>2 DEF DocumentIsKnown, Doing
  <2>3. CASE sync # None
    <3>1. PICK j \in Issues, S \in SUBSET DOMAIN entry : j = sync.issue /\ S = sync.pending
      BY <1>1, <2>3, WorkFields
    <3>2. /\ Doing({"fetch", "header", "append"}) => Reaches(j, S)
          /\ Doing({"make folder"}) => folders = 0
          /\ Doing({"create"}) => docs[j] = <<>>
          /\ Doing({"fetch", "header", "append", "notify"}) => docs[j] # <<>>
          /\ Doing({"header"}) => Lines(j) = <<>>
          /\ Doing({"append", "notify"}) => Has(j, Header)
          /\ Doing({"append"}) => \A p \in S : ~Has(j, p)
      BY <3>1 DEF IInv, DocumentIsKnown
    <3>3. \A calls : Doing(calls)' <=> Doing(calls)
      BY <1>2 DEF Doing
    <3>4. Reaches(sync.issue, sync.pending)' <=> Reaches(j, S)'
      BY <1>2, <3>1 DEF Reaches, Of, Has, Lines
    <3> QED BY <1>2, <1>10, <2>1, <3>1, <3>2, <3>3, <3>4 DEF DocumentIsKnown, Lines, Has
  <2> QED BY <2>2, <2>3
<1>17. RowIsKnown'
  BY <1>2, <1>7 DEF IInv, RowIsKnown, Doing
<1> QED BY <1>11, <1>12, <1>13, <1>14, <1>15, <1>16, <1>17 DEF IInv, CopiesAreExact

-----------------------------------------------------------------------------
LEMMA IInvInit ==
  ASSUME Init
  PROVE  IInv
<1>1. /\ entry = <<>> /\ Len(entry) = 0 /\ DOMAIN entry = {} /\ entry \in Seq(Entry)
      /\ sync = None /\ folder = FALSE /\ folders = 0
      /\ docs = [i \in Issues |-> <<>>] /\ history = [k \in Key |-> 0]
      /\ links = [i \in Issues |-> 0]
  BY DEF Init
<1>2. /\ item \in [Issues -> Item]
      /\ \A i \in Issues : ~item[i].token /\ ~item[i].ready /\ ~item[i].notified
  BY DEF Init, Item
<1>3. <<>> \in Seq(Seq(Line)) /\ Len(<<>>) = 0
  OBVIOUS
<1>4. docs \in [Issues -> Seq(Seq(Line))] /\ \A i \in Issues : docs[i] = <<>> /\ Len(docs[i]) <= 1
  BY <1>1, <1>3
<1>5. TypeOK
  <2>1. MaxEntries \in Nat
    BY Bounds
  <2>2. history \in [Key -> Nat] /\ links \in [Issues -> Nat]
    BY <1>1
  <2>3. entry \in Seq(Entry) /\ Len(entry) <= MaxEntries
    BY <1>1, <2>1
  <2>4. folder \in BOOLEAN /\ folders \in Nat
    BY <1>1
  <2>5. sync \in {None}
    BY <1>1
  <2> QED BY <1>2, <1>4, <2>2, <2>3, <2>4, <2>5 DEF TypeOK
<1>6. OneDocument /\ DocumentInOrder /\ NothingSkipped
  BY <1>1, <1>2, <1>4 DEF OneDocument, DocumentInOrder, NothingSkipped
<1>7. HistoryOnce /\ TickedOffIsThere /\ LinkSentOnce
  BY <1>1 DEF HistoryOnce, TickedOffIsThere, LinkSentOnce
<1>8. DocumentIsKnown /\ RowIsKnown
  BY <1>1 DEF DocumentIsKnown, RowIsKnown, Doing
<1>9. ReadyHasBegun
  BY <1>1, <1>2 DEF ReadyHasBegun
<1> QED BY <1>5, <1>6, <1>7, <1>8, <1>9 DEF IInv, CopiesAreExact

\* No step of the task, of the bridge or of a failure breaks the invariant.
LEMMA IInvStep ==
  ASSUME IInv, [Next]_vars
  PROVE  IInv'
<1>1. CASE \E i \in Issues, n \in 1 .. MaxParts : AddEntry(i, n)
  BY <1>1, AddEntryKeeps
<1>2. CASE \E i \in Issues : MirrorIssue(i) \/ DocumentDue(i)
  BY <1>2, MirrorIssueKeeps
<1>3. CASE \E i \in Issues : StartDocument(i)
  BY <1>3, StartDocumentKeeps
<1>4. CASE \E i \in Issues : NotifyLate(i)
  BY <1>4, NotifyLateKeeps
<1>5. CASE \E e \in DOMAIN entry : StartRecord(e)
  BY <1>5, StartRecordKeeps
<1>6. CASE \E e \in DOMAIN entry : RecordDue(e)
  BY <1>6, RecordDueKeeps
<1>7. CASE Document
  BY <1>7, FindFolderKeeps, MakeFolderKeeps, FindDocumentKeeps, CreateDocumentKeeps,
     FetchDocumentKeeps, WriteHeaderKeeps, AppendEntriesKeeps, NotifyReadyKeeps DEF Document
<1>8. CASE Record
  BY <1>8, FindRowKeeps, WriteRowKeeps DEF Record
<1>9. CASE \E taken \in BOOLEAN : CallFails(taken)
  BY <1>9, CallFailsKeeps
<1>10. CASE Crash
  BY <1>10, CrashKeeps
<1>11. CASE UNCHANGED vars
  <2>1. UNCHANGED <<item, entry, links, sync, folder, folders, docs, history>>
    BY <1>11 DEF vars
  <2>2. TypeOK' /\ NothingSkipped' /\ ReadyHasBegun'
    BY <2>1 DEF IInv, TypeOK, NothingSkipped, ReadyHasBegun, Of, Has, Lines, Header
  <2>3. CopiesAreExact'
    BY <2>1 DEF IInv, CopiesAreExact, OneDocument, DocumentInOrder, HistoryOnce, TickedOffIsThere,
       LinkSentOnce, Of, Has, Lines, Header
  <2>4. DocumentIsKnown' /\ RowIsKnown'
    BY <2>1, StillKnown DEF cloud, Of
  <2> QED BY <2>2, <2>3, <2>4 DEF IInv
<1> QED BY <1>1, <1>2, <1>3, <1>4, <1>5, <1>6, <1>7, <1>8, <1>9, <1>10, <1>11 DEF Next

LEMMA IInvHolds == Spec => []IInv
<1>1. Init => IInv
  BY IInvInit
<1>2. IInv /\ [Next]_vars => IInv'
  BY IInvStep
<1> QED BY <1>1, <1>2, PTL DEF Spec

\* Whatever the bridge writes and however often its calls fail, its tables, the
\* task and Feishu hold values of their types.
THEOREM RecordsTypeCorrect == Spec => []TypeOK
<1>1. IInv => TypeOK
  BY DEF IInv
<1> QED BY <1>1, IInvHolds, PTL

\* However calls fail, answers are lost and processes die, there is one folder,
\* one document per issue, in order and with each entry once, one row per part,
\* nothing ticked off that is not there, and one link to a document begun.
THEOREM CopiesStayExact == Spec => []CopiesAreExact
<1>1. IInv => CopiesAreExact
  BY DEF IInv
<1> QED BY <1>1, IInvHolds, PTL

\* An entry that is not in its issue's document is later than all that are in
\* it: a document never has to be written anywhere but at its end.
THEOREM DocumentHasNoGaps == Spec => []NothingSkipped
<1>1. IInv => NothingSkipped
  BY DEF IInv
<1> QED BY <1>1, IInvHolds, PTL
==============================================================================
