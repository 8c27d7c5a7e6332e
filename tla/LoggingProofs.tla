--------------------------- MODULE LoggingProofs ---------------------------
(***************************************************************************)
(* Logging, for every number of records, of overlapping requests and of    *)
(* failures, and every cap.  The push log appender neither loses nor       *)
(* repeats a record, keeps its cap, and never leaves its queue to nobody.  *)
(* The Firehose appender puts each record at most once, in the order in    *)
(* which it was logged, loses none unnoticed and forgets none.             *)
(* The file appender keeps what it writes in order over all its archives,  *)
(* and its close never says that what it lost was kept.                    *)
(* A deferred promise's status is its promise's.  A record goes to the     *)
(* appenders of the manager and of the contexts its own task is in.        *)
(***************************************************************************)
EXTENDS PushLog, FileLog, FirehoseLog, LogRouting, DeferredPromise, FiniteSetTheorems, TLAPS

---------------------------------------------------------------------------
(* Queues of records.                                                      *)

NoDuplicates(q) == \A i, j \in DOMAIN q : q[i] = q[j] => i = j

LEMMA AppendedQueue ==
    ASSUME NEW q \in Seq(Records), NEW r \in Records
    PROVE  /\ Append(q, r) \in Seq(Records)
           /\ Elements(Append(q, r)) = Elements(q) \cup {r}
           /\ NoDuplicates(q) /\ r \notin Elements(q) => NoDuplicates(Append(q, r))
  BY DEF Elements, NoDuplicates

LEMMA TrimmedQueue ==
    ASSUME NEW q \in Seq(Records)
    PROVE  /\ Trim(q) \in Seq(Records)
           /\ Len(Trim(q)) <= QueueCap
           /\ Elements(q) = Elements(Trim(q)) \cup Trimmed(q)
           /\ Elements(Trim(q)) \cap Trimmed(q) = {}
           /\ NoDuplicates(q) => NoDuplicates(Trim(q))
  <1>1. CASE Len(q) <= QueueCap
    <2>1. Trim(q) = q
      BY <1>1, QueueAssumption DEF Trim
    <2> QED BY <1>1, <2>1 DEF Trimmed
  <1>2. CASE Len(q) > QueueCap
    <2> DEFINE first == Len(q) - QueueCap + 1
    <2>1. first \in 1..Len(q) /\ QueueCap \in Nat
      BY <1>2, QueueAssumption
    <2>2. Trim(q) = SubSeq(q, first, Len(q))
      BY <1>2 DEF Trim
    <2>3. /\ Trim(q) \in Seq(Records)
          /\ Len(Trim(q)) = QueueCap
          /\ \A i \in 1..QueueCap : Trim(q)[i] = q[i + first - 1] /\ i + first - 1 \in DOMAIN q
      BY <2>1, <2>2
    <2>4. DOMAIN Trim(q) = 1..QueueCap
      BY <2>3
    <2>5. Elements(Trim(q)) \subseteq Elements(q)
      BY <2>3, <2>4 DEF Elements
    <2>6. NoDuplicates(q) => NoDuplicates(Trim(q))
      BY <2>1, <2>3, <2>4 DEF NoDuplicates
    <2> QED BY <2>1, <2>3, <2>5, <2>6 DEF Trimmed
  <1> QED BY <1>1, <1>2, QueueAssumption

LEMMA JoinedQueues ==
    ASSUME NEW p \in Seq(Records), NEW q \in Seq(Records)
    PROVE  /\ p \o q \in Seq(Records)
           /\ Elements(p \o q) = Elements(p) \cup Elements(q)
           /\ NoDuplicates(p) /\ NoDuplicates(q) /\ Elements(p) \cap Elements(q) = {}
                => NoDuplicates(p \o q)
  <1>1. /\ p \o q \in Seq(Records)
        /\ DOMAIN (p \o q) = 1..(Len(p) + Len(q))
        /\ \A i \in DOMAIN (p \o q) :
               \/ i \in DOMAIN p /\ (p \o q)[i] = p[i]
               \/ i - Len(p) \in DOMAIN q /\ (p \o q)[i] = q[i - Len(p)]
    OBVIOUS
  <1>2. /\ \A i \in DOMAIN p : i \in DOMAIN (p \o q) /\ (p \o q)[i] = p[i]
        /\ \A i \in DOMAIN q : i + Len(p) \in DOMAIN (p \o q) /\ (p \o q)[i + Len(p)] = q[i]
    OBVIOUS
  <1>3. Elements(p \o q) = Elements(p) \cup Elements(q)
    <2>1. Elements(p \o q) \subseteq Elements(p) \cup Elements(q)
      BY <1>1, Zenon DEF Elements
    <2>2. Elements(p) \subseteq Elements(p \o q)
      BY <1>2, Zenon DEF Elements
    <2>3. Elements(q) \subseteq Elements(p \o q)
      BY <1>2, Zenon DEF Elements
    <2> QED BY <2>1, <2>2, <2>3
  <1>4. ASSUME NoDuplicates(p), NoDuplicates(q), Elements(p) \cap Elements(q) = {}
        PROVE  NoDuplicates(p \o q)
    <2> SUFFICES ASSUME NEW i \in DOMAIN (p \o q), NEW j \in DOMAIN (p \o q),
                        (p \o q)[i] = (p \o q)[j]
                 PROVE  i = j
      BY DEF NoDuplicates
    <2>1. CASE i \in DOMAIN p /\ (p \o q)[i] = p[i] /\ j \in DOMAIN p /\ (p \o q)[j] = p[j]
      BY <1>4, <2>1 DEF NoDuplicates
    <2>2. CASE /\ i - Len(p) \in DOMAIN q /\ (p \o q)[i] = q[i - Len(p)]
               /\ j - Len(p) \in DOMAIN q /\ (p \o q)[j] = q[j - Len(p)]
      <3>1. i - Len(p) = j - Len(p)
        BY <1>4, <2>2 DEF NoDuplicates
      <3>2. i \in Int /\ j \in Int /\ Len(p) \in Int
        BY <1>1
      <3> QED BY <3>1, <3>2
    <2>3. CASE /\ i \in DOMAIN p /\ (p \o q)[i] = p[i]
               /\ j - Len(p) \in DOMAIN q /\ (p \o q)[j] = q[j - Len(p)]
      <3>1. p[i] \in Elements(p) /\ q[j - Len(p)] \in Elements(q)
        BY <2>3 DEF Elements
      <3> QED BY <1>4, <2>3, <3>1
    <2>4. CASE /\ j \in DOMAIN p /\ (p \o q)[j] = p[j]
               /\ i - Len(p) \in DOMAIN q /\ (p \o q)[i] = q[i - Len(p)]
      <3>1. p[j] \in Elements(p) /\ q[i - Len(p)] \in Elements(q)
        BY <2>4 DEF Elements
      <3> QED BY <1>4, <2>4, <3>1
    <2> QED BY <1>1, <2>1, <2>2, <2>3, <2>4
  <1> QED BY <1>1, <1>3, <1>4

LEMMA CountedQueue ==
    ASSUME NEW q \in Seq(Records), NoDuplicates(q)
    PROVE  Cardinality(Elements(q)) = Len(q)
  <1> DEFINE S == 1..Len(q)
             f == [i \in S |-> q[i]]
  <1>1. Len(q) \in Nat /\ DOMAIN q = S
    <2>1. Len(q) \in Nat
      OBVIOUS
    <2>2. DOMAIN q = 1..Len(q)
      OBVIOUS
    <2> QED BY <2>1, <2>2
  <1>2. IsFiniteSet(S) /\ Cardinality(S) = Len(q)
    BY <1>1, FS_Interval
  <1>3. f \in [S -> Elements(q)] /\ \A i \in S : f[i] = q[i]
    <2>1. \A i \in S : q[i] \in Elements(q)
      BY <1>1 DEF Elements
    <2> QED BY <2>1
  <1>4. \A r \in Elements(q) : \E i \in S : f[i] = r
    BY <1>1, <1>3 DEF Elements
  <1>5. f \in Surjection(S, Elements(q))
    BY <1>3, <1>4 DEF Surjection
  <1>6. \A i, j \in S : f[i] = f[j] => i = j
    BY <1>1, <1>3 DEF NoDuplicates
  <1>7. f \in Injection(S, Elements(q))
    BY <1>3, <1>6 DEF Injection, IsInjective
  <1> QED BY <1>2, <1>5, <1>7, FS_Surjection

LEMMA EmptyQueue ==
    /\ <<>> \in Seq(Records)
    /\ Elements(<<>>) = {}
    /\ NoDuplicates(<<>>)
    /\ \A q \in Seq(Records) : Elements(q) = {} => q = <<>>
  <1>1. \A q \in Seq(Records) : q # <<>> => q[1] \in Elements(q)
    BY DEF Elements
  <1> QED BY <1>1 DEF Elements, NoDuplicates

---------------------------------------------------------------------------
(* Credentials.                                                            *)

\* While a deferred is kept, its POST is under way.
DeferredLive == credentialDeferred # NoFetch => fetches[credentialDeferred].live

\* Somebody will send the queue without being asked again.
Attended == ready > 0 \/ \E f \in Fetches : fetches[f].live /\ Continuing(f) > 0

LEMMA ContinuingType ==
    ASSUME CredentialsTypeOK, NEW f \in Fetches
    PROVE  Continuing(f) \in Nat
  BY DEF CredentialsTypeOK, Fetch, Continuing

LEMMA StartFetchKeeps ==
    ASSUME CredentialsTypeOK, NEW f \in Fetches, NEW forFlush \in BOOLEAN,
           StartFetch(f, forFlush)
    PROVE  /\ fetches' \in [Fetches -> Fetch]
           /\ credentialDeferred' \in Fetches \cup {NoFetch}
           /\ DeferredLive'
           /\ fetches'[f].live /\ (Continuing(f))' = IF forFlush THEN 1 ELSE 0
           /\ \A g \in Fetches : fetches[g].live => g # f /\ fetches'[g] = fetches[g]
  <1> DEFINE new == [PendingFetch EXCEPT !.forFlush = forFlush]
  <1>1. /\ new \in Fetch /\ new.live /\ new.forFlush = forFlush /\ new.waiters = 0
    BY DEF PendingFetch, NotFetching, Fetch
  <1>2. /\ ~fetches[f].live
        /\ fetches' = [fetches EXCEPT ![f] = new]
        /\ credentialDeferred' = f
    BY DEF StartFetch
  <1> HIDE DEF new
  <1>3. fetches' \in [Fetches -> Fetch] /\ fetches'[f] = new
    BY <1>1, <1>2 DEF CredentialsTypeOK
  <1>4. DeferredLive'
    BY <1>1, <1>2, <1>3 DEF DeferredLive
  <1>5. (Continuing(f))' = IF forFlush THEN 1 ELSE 0
    BY <1>1, <1>3 DEF Continuing
  <1> QED BY <1>1, <1>2, <1>3, <1>4, <1>5 DEF CredentialsTypeOK

\* A flush that is not turned away attends to the queue, itself or by a fetch.
LEMMA FlushKeeps ==
    ASSUME CredentialsTypeOK, DeferredLive, NoFetchAssumption, ready \in Nat,
           NEW q, Flush(q)
    PROVE  /\ CredentialsTypeOK' /\ DeferredLive' /\ ready' \in Nat
           /\ Attended => Attended'
           /\ q # <<>> /\ ~flushing => Attended'
  <1>1. CASE flushing \/ q = <<>>
    <2>1. UNCHANGED <<credentials, ready>>
      BY <1>1 DEF Flush
    <2> QED BY <1>1, <2>1 DEF CredentialsTypeOK, DeferredLive, Attended, Continuing, credentials
  <1>2. CASE HasCredentials /\ ready' = ready + 1 /\ UNCHANGED credentials
    BY <1>2 DEF CredentialsTypeOK, DeferredLive, Attended, credentials
  <1>3. CASE AwaitCredentials /\ UNCHANGED ready
    <2>1. cookie' \in {"none", "valid", "expired"} /\ UNCHANGED <<refreshTimer, unhandled>>
      BY <1>3 DEF AwaitCredentials, NoticeExpiry, CredentialsTypeOK
    <2>2. CASE credentialDeferred # NoFetch
      <3>1. PICK d \in Fetches : d = credentialDeferred
        BY <2>2 DEF CredentialsTypeOK
      <3> DEFINE more == [fetches[d] EXCEPT !.waiters = fetches[d].waiters + 1]
      <3>2. d # NoFetch /\ fetches[d] \in Fetch /\ fetches[d].live
        BY <2>2, <3>1 DEF CredentialsTypeOK, DeferredLive
      <3>3. /\ more \in Fetch /\ more.live
            /\ more.waiters = fetches[d].waiters + 1 /\ more.forFlush = fetches[d].forFlush
            /\ fetches[d].waiters \in Nat
        BY <3>2 DEF Fetch
      <3>4. fetches' = [fetches EXCEPT ![d] = more] /\ credentialDeferred' = d
        BY <1>3, <2>2, <3>1 DEF AwaitCredentials
      <3> HIDE DEF more
      <3>5. fetches' \in [Fetches -> Fetch] /\ fetches'[d] = more
        BY <3>2, <3>3, <3>4 DEF CredentialsTypeOK
      <3>6. CredentialsTypeOK' /\ DeferredLive'
        BY <2>1, <3>2, <3>3, <3>4, <3>5 DEF CredentialsTypeOK, DeferredLive
      <3>7. (Continuing(d))' > 0
        BY <3>3, <3>4, <3>5 DEF Continuing
      <3>8. Attended'
        BY <3>2, <3>3, <3>5, <3>7 DEF Attended
      <3> QED BY <1>3, <3>6, <3>8
    <2>3. CASE credentialDeferred = NoFetch
      <3>1. PICK f \in Fetches : StartFetch(f, TRUE)
        BY <1>3, <2>3 DEF AwaitCredentials
      <3>2. /\ fetches' \in [Fetches -> Fetch]
            /\ credentialDeferred' \in Fetches \cup {NoFetch}
            /\ DeferredLive'
            /\ fetches'[f].live /\ (Continuing(f))' = 1
        BY <3>1, StartFetchKeeps
      <3>3. Attended'
        BY <3>2 DEF Attended
      <3> QED BY <1>3, <2>1, <3>2, <3>3 DEF CredentialsTypeOK
    <2> QED BY <2>2, <2>3
  <1> QED BY <1>1, <1>2, <1>3 DEF Flush

LEMMA EndFetchKeeps ==
    ASSUME CredentialsTypeOK, NEW f \in Fetches,
           fetches' = [fetches EXCEPT ![f] = NotFetching]
    PROVE  /\ fetches' \in [Fetches -> Fetch]
           /\ \A g \in Fetches : g # f => fetches'[g] = fetches[g] /\ (Continuing(g))' = Continuing(g)
  BY DEF CredentialsTypeOK, NotFetching, Fetch, Continuing

LEMMA RejectedFetches ==
    ASSUME CredentialsTypeOK
    PROVE  /\ Rejected \in [Fetches -> Fetch]
           /\ \A f \in Fetches : /\ Rejected[f].live = fetches[f].live
                                 /\ Rejected[f].forFlush = fetches[f].forFlush
                                 /\ f # credentialDeferred => Rejected[f] = fetches[f]
  BY DEF CredentialsTypeOK, Rejected, Fetch

---------------------------------------------------------------------------
(* Where the records are.                                                  *)

\* n records, each in exactly one of: the queue, a batch, accepted, dropped.
Partition(P, B, A, D, n) ==
    /\ \A r \in 1..n : r \in P \/ r \in A \/ r \in D \/ \E i \in Puts : r \in B[i]
    /\ P \subseteq 1..n /\ A \subseteq 1..n /\ D \subseteq 1..n
    /\ P \cap A = {} /\ P \cap D = {} /\ A \cap D = {}
    /\ \A i \in Puts : /\ B[i] \subseteq 1..n
                       /\ B[i] \cap P = {} /\ B[i] \cap A = {} /\ B[i] \cap D = {}
    /\ \A i, j \in Puts : i # j => B[i] \cap B[j] = {}

LEMMA PartitionAppend ==
    ASSUME NEW P, NEW B, NEW A, NEW D, NEW n \in Nat, Partition(P, B, A, D, n),
           NEW Q, NEW T, Q \cup T = P \cup {n + 1}, Q \cap T = {}
    PROVE  Partition(Q, B, A, D \cup T, n + 1)
  <1>1. n + 1 \notin P /\ n + 1 \notin A /\ n + 1 \notin D /\ \A i \in Puts : n + 1 \notin B[i]
    BY DEF Partition
  <1>2. 1..(n + 1) = (1..n) \cup {n + 1}
    OBVIOUS
  <1>3. Q \subseteq P \cup {n + 1} /\ T \subseteq P \cup {n + 1}
    OBVIOUS
  <1>4. \A r \in 1..(n + 1) :
            r \in Q \/ r \in A \/ r \in D \cup T \/ \E i \in Puts : r \in B[i]
    BY <1>2 DEF Partition
  <1>5. Q \subseteq 1..(n + 1) /\ A \subseteq 1..(n + 1) /\ D \cup T \subseteq 1..(n + 1)
    BY <1>2, <1>3 DEF Partition
  <1>6. Q \cap A = {} /\ Q \cap (D \cup T) = {} /\ A \cap (D \cup T) = {}
    BY <1>1, <1>3 DEF Partition
  <1>7. \A i \in Puts : /\ B[i] \subseteq 1..(n + 1)
                        /\ B[i] \cap Q = {} /\ B[i] \cap A = {} /\ B[i] \cap (D \cup T) = {}
    BY <1>1, <1>2, <1>3 DEF Partition
  <1> QED BY <1>4, <1>5, <1>6, <1>7 DEF Partition

LEMMA PartitionSend ==
    ASSUME NEW P, NEW B, NEW A, NEW D, NEW n \in Nat, Partition(P, B, A, D, n),
           NEW i \in Puts, NEW C, C[i] = P, B[i] = {}, \A j \in Puts : j # i => C[j] = B[j]
    PROVE  Partition({}, C, A, D, n)
  BY DEF Partition

LEMMA PartitionEnd ==
    ASSUME NEW P, NEW B, NEW A, NEW D, NEW n \in Nat, Partition(P, B, A, D, n),
           NEW i \in Puts, NEW C, C[i] = {}, \A j \in Puts : j # i => C[j] = B[j]
    PROVE  /\ Partition(P, C, A \cup B[i], D, n)
           /\ Partition(P, C, A, D \cup B[i], n)
           /\ \A Q, T : Q \cup T = B[i] \cup P /\ Q \cap T = {} => Partition(Q, C, A, D \cup T, n)
  <1>1. Partition(P, C, A \cup B[i], D, n)
    BY DEF Partition
  <1>2. Partition(P, C, A, D \cup B[i], n)
    BY DEF Partition
  <1>3. ASSUME NEW Q, NEW T, Q \cup T = B[i] \cup P, Q \cap T = {}
        PROVE  Partition(Q, C, A, D \cup T, n)
    <2>1. Q \subseteq B[i] \cup P /\ T \subseteq B[i] \cup P
      BY <1>3
    <2>2. \A r \in 1..n : r \in Q \/ r \in A \/ r \in D \cup T \/ \E j \in Puts : r \in C[j]
      BY <1>3 DEF Partition
    <2>3. Q \subseteq 1..n /\ A \subseteq 1..n /\ D \cup T \subseteq 1..n
      BY <2>1 DEF Partition
    <2>4. Q \cap A = {} /\ Q \cap (D \cup T) = {} /\ A \cap (D \cup T) = {}
      BY <1>3, <2>1 DEF Partition
    <2>5. \A j \in Puts : /\ C[j] \subseteq 1..n
                          /\ C[j] \cap Q = {} /\ C[j] \cap A = {} /\ C[j] \cap (D \cup T) = {}
      BY <2>1 DEF Partition
    <2>6. \A j, k \in Puts : j # k => C[j] \cap C[k] = {}
      BY DEF Partition
    <2> QED BY <2>2, <2>3, <2>4, <2>5, <2>6 DEF Partition
  <1> QED BY <1>1, <1>2, <1>3

LEMMA PartitionDestroy ==
    ASSUME NEW P, NEW B, NEW A, NEW D, NEW n \in Nat, Partition(P, B, A, D, n)
    PROVE  Partition({}, B, A, D \cup P, n)
  BY DEF Partition

---------------------------------------------------------------------------
(* The inductive invariant.                                                *)

Batches == [i \in Puts |-> Elements(puts[i].records)]

\* The queue and the batches repeat nothing, and a free slot has no batch.
Distinct ==
    /\ NoDuplicates(pendingRecords)
    /\ \A i \in Puts : /\ NoDuplicates(puts[i].records)
                       /\ ~puts[i].live => puts[i].records = <<>>

Placed == Partition(Elements(pendingRecords), Batches, accepted, dropped, appended)

\* flushDeferred is not forgotten while no PUT is left to clear it.
FlushingHasPut == flushing => \E i \in Puts : puts[i].live

IInv ==
    /\ TypeOK
    /\ DeferredLive
    /\ Distinct
    /\ Placed
    /\ FlushingHasPut
    /\ QueueCapped
    /\ NobodyForgotten

LEMMA InitIInv == Init => IInv
  <1> SUFFICES ASSUME Init PROVE IInv
    OBVIOUS
  <1> USE QueueAssumption DEF Init, CredentialsInit
  <1>1. CredentialsTypeOK /\ DeferredLive
    BY DEF CredentialsTypeOK, DeferredLive, NotFetching, Fetch
  <1>2. puts \in [Puts -> Put] /\ \A i \in Puts : puts[i].records = <<>> /\ ~puts[i].live
    BY EmptyQueue DEF NoPut, Put
  <1>3. TypeOK
    <2>1. 0 \in 0..MaxRecords /\ 0 \in 0..MaxCalls /\ 0 \in 0..MaxFailures
      OBVIOUS
    <2>2. puts \in [Puts -> Put]
      BY <1>2
    <2> HIDE QueueAssumption
    <2> QED BY <1>1, <2>1, <2>2, EmptyQueue DEF TypeOK
  <1>4. Distinct
    BY <1>2, EmptyQueue DEF Distinct
  <1>5. Elements(pendingRecords) = {} /\ \A i \in Puts : Batches[i] = {}
    BY <1>2, EmptyQueue DEF Batches
  <1>6. 1..appended = {}
    OBVIOUS
  <1>7. Placed
    BY <1>5, <1>6 DEF Placed, Partition
  <1>8. FlushingHasPut /\ QueueCapped /\ NobodyForgotten
    BY DEF FlushingHasPut, QueueCapped, NobodyForgotten
  <1> QED BY <1>1, <1>3, <1>4, <1>7, <1>8 DEF IInv

\* The part of the invariant that only the queue and the batches matter to.
LEMMA RecordsUnmoved ==
    ASSUME IInv, UNCHANGED <<pendingRecords, puts, accepted, dropped, appended>>
    PROVE  Distinct' /\ Placed' /\ QueueCapped'
  <1>1. Batches' = Batches
    BY DEF Batches
  <1> QED BY <1>1 DEF IInv, Distinct, Placed, QueueCapped

LEMMA AppendKeeps == ASSUME IInv, Append_ PROVE IInv'
  <1> DEFINE r == appended + 1
             a == Append(pendingRecords, r)
  <1>1. /\ pendingRecords' = Trim(a) /\ dropped' = dropped \cup Trimmed(a)
        /\ appended' = r /\ gaveUp' = FALSE
        /\ UNCHANGED <<flushing, puts, accepted, bounds>>
    BY DEF Append_
  <1>2. r \in Records /\ appended \in Nat /\ pendingRecords \in Seq(Records)
    BY QueueAssumption DEF IInv, TypeOK, Append_, Records
  <1>3. r \notin Elements(pendingRecords)
    BY <1>2 DEF IInv, Placed, Partition
  <1>4. /\ a \in Seq(Records)
        /\ Elements(a) = Elements(pendingRecords) \cup {r}
        /\ NoDuplicates(a)
    BY <1>2, <1>3, AppendedQueue DEF IInv, Distinct
  <1>5. /\ Trim(a) \in Seq(Records) /\ Len(Trim(a)) <= QueueCap
        /\ Elements(a) = Elements(Trim(a)) \cup Trimmed(a)
        /\ Elements(Trim(a)) \cap Trimmed(a) = {}
        /\ NoDuplicates(Trim(a))
    BY <1>4, TrimmedQueue
  <1> HIDE DEF a
  <1>6. \/ Flush(Trim(a)) /\ UNCHANGED flushTimer
        \/ flushTimer' = TRUE /\ UNCHANGED <<credentials, ready>>
    BY DEF Append_, a
  <1>7. /\ CredentialsTypeOK' /\ DeferredLive' /\ ready' \in Nat /\ flushTimer' \in BOOLEAN
        /\ \/ flushTimer'
           \/ Trim(a) # <<>> /\ ~flushing => Attended'
    <2>1. CASE Flush(Trim(a)) /\ UNCHANGED flushTimer
      BY <2>1, FlushKeeps, NoFetchAssumption DEF IInv, TypeOK
    <2>2. CASE flushTimer' = TRUE /\ UNCHANGED <<credentials, ready>>
      BY <2>2 DEF IInv, TypeOK, credentials, CredentialsTypeOK, DeferredLive
    <2> QED BY <1>6, <2>1, <2>2
  <1>8. Trimmed(a) \subseteq Records
    BY <1>4 DEF Trimmed, Elements
  <1>9. TypeOK'
    <2>1. appended' \in 0..MaxRecords
      BY <1>1, <1>2 DEF Records
    <2>2. dropped' \in SUBSET Records
      BY <1>1, <1>8 DEF IInv, TypeOK
    <2> QED BY <1>1, <1>5, <1>7, <2>1, <2>2 DEF IInv, TypeOK, bounds
  <1>10. Distinct' /\ QueueCapped'
    BY <1>1, <1>5 DEF IInv, Distinct, QueueCapped
  <1>11. Placed'
    <2>1. Batches' = Batches
      BY <1>1 DEF Batches
    <2> QED BY <1>1, <1>2, <1>4, <1>5, <2>1, PartitionAppend DEF IInv, Placed
  <1>12. FlushingHasPut'
    BY <1>1 DEF IInv, FlushingHasPut
  <1>13. NobodyForgotten'
    BY <1>1, <1>7 DEF IInv, NobodyForgotten, FlushingHasPut, Attended
  <1> QED BY <1>7, <1>9, <1>10, <1>11, <1>12, <1>13 DEF IInv

\* forceFlush() and the flush timer: the timer is used up by a flush.
LEMMA FlushStepKeeps ==
    ASSUME IInv, ForceFlush \/ FlushTimerFires
    PROVE  IInv'
  <1>1. /\ flushTimer' = FALSE /\ Flush(pendingRecords)
        /\ UNCHANGED <<pendingRecords, flushing, puts, history, destroyed, failures>>
        /\ calls' \in 0..MaxCalls
    BY QueueAssumption DEF ForceFlush, FlushTimerFires, IInv, TypeOK, bounds
  <1>2. /\ CredentialsTypeOK' /\ DeferredLive' /\ ready' \in Nat
        /\ pendingRecords # <<>> /\ ~flushing => Attended'
    BY <1>1, FlushKeeps, NoFetchAssumption DEF IInv, TypeOK
  <1>3. TypeOK'
    BY <1>1, <1>2 DEF IInv, TypeOK, history
  <1>4. Distinct' /\ Placed' /\ QueueCapped'
    BY <1>1, RecordsUnmoved DEF history
  <1>5. FlushingHasPut'
    BY <1>1 DEF IInv, FlushingHasPut
  <1>6. NobodyForgotten'
    BY <1>1, <1>2 DEF IInv, NobodyForgotten, FlushingHasPut, Attended
  <1> QED BY <1>2, <1>3, <1>4, <1>5, <1>6 DEF IInv

LEMMA SendKeeps ==
    ASSUME IInv, NEW i \in Puts, Send(i)
    PROVE  IInv'
  <1> DEFINE put == [live |-> TRUE, records |-> pendingRecords]
  <1>1. /\ ready > 0 /\ ~puts[i].live /\ ready' = ready - 1 /\ flushing' = TRUE
        /\ puts' = [puts EXCEPT ![i] = put]
        /\ pendingRecords' = <<>>
        /\ UNCHANGED <<credentials, flushTimer, history, bounds>>
    BY DEF Send
  <1>2. put \in Put /\ put.live /\ put.records = pendingRecords
    BY DEF IInv, TypeOK, Put
  <1> HIDE DEF put
  <1>3. /\ puts' \in [Puts -> Put] /\ puts'[i] = put
        /\ \A j \in Puts : j # i => puts'[j] = puts[j]
    BY <1>1, <1>2 DEF IInv, TypeOK
  <1>4. CredentialsTypeOK' /\ DeferredLive'
    BY <1>1 DEF IInv, TypeOK, credentials, CredentialsTypeOK, DeferredLive
  <1>5. TypeOK'
    BY <1>1, <1>3, <1>4, EmptyQueue DEF IInv, TypeOK, history, bounds
  <1>6. Distinct'
    BY <1>1, <1>2, <1>3, EmptyQueue DEF IInv, Distinct
  <1>7. Placed'
    <2>1. /\ Batches'[i] = Elements(pendingRecords) /\ Batches[i] = {}
          /\ \A j \in Puts : j # i => Batches'[j] = Batches[j]
      BY <1>1, <1>2, <1>3, EmptyQueue DEF Batches, IInv, Distinct
    <2>2. appended \in Nat
      BY QueueAssumption DEF IInv, TypeOK
    <2>3. Partition({}, Batches', accepted, dropped, appended)
      BY <2>1, <2>2, PartitionSend DEF IInv, Placed
    <2> QED BY <1>1, <2>3, EmptyQueue DEF Placed, history
  <1>8. FlushingHasPut'
    BY <1>2, <1>3 DEF FlushingHasPut
  <1>9. QueueCapped' /\ NobodyForgotten'
    BY <1>1, QueueAssumption DEF QueueCapped, NobodyForgotten
  <1> QED BY <1>4, <1>5, <1>6, <1>7, <1>8, <1>9 DEF IInv

\* The finally block, for the queue q that the end of the PUT leaves.
LEMMA EndFlushKeeps ==
    ASSUME IInv, NEW i \in Puts, NEW q \in Seq(Records), EndFlush(i, q),
           Len(q) <= QueueCap, NoDuplicates(q),
           accepted' \in SUBSET Records, dropped' \in SUBSET Records,
           failures' \in 0..MaxFailures,
           Partition(Elements(q), Batches', accepted', dropped', appended)
    PROVE  IInv'
  <1>1. /\ puts' = [puts EXCEPT ![i] = NoPut] /\ pendingRecords' = q /\ flushing' = FALSE
        /\ flushTimer' = (flushTimer \/ q # <<>>)
        /\ UNCHANGED <<credentials, ready, appended, gaveUp, destroyed, calls>>
    BY DEF EndFlush
  <1>2. NoPut \in Put /\ NoPut.records = <<>>
    BY EmptyQueue DEF NoPut, Put
  <1>3. /\ puts' \in [Puts -> Put] /\ puts'[i] = NoPut
        /\ \A j \in Puts : j # i => puts'[j] = puts[j]
    BY <1>1, <1>2 DEF IInv, TypeOK
  <1>4. CredentialsTypeOK' /\ DeferredLive'
    BY <1>1 DEF IInv, TypeOK, credentials, CredentialsTypeOK, DeferredLive
  <1>5. flushTimer' \in BOOLEAN
    <2>1. flushTimer \in BOOLEAN
      BY DEF IInv, TypeOK
    <2> QED BY <1>1, <2>1, Zenon
  <1>6. TypeOK'
    BY <1>1, <1>3, <1>4, <1>5 DEF IInv, TypeOK
  <1>7. Distinct'
    BY <1>1, <1>2, <1>3, EmptyQueue DEF IInv, Distinct
  <1>8. Placed' /\ QueueCapped'
    BY <1>1 DEF Placed, QueueCapped
  <1>9. FlushingHasPut' /\ NobodyForgotten'
    BY <1>1 DEF FlushingHasPut, NobodyForgotten
  <1> QED BY <1>4, <1>6, <1>7, <1>8, <1>9 DEF IInv

LEMMA PutEndKeeps ==
    ASSUME IInv, NEW i \in Puts, PutAccepted(i) \/ PutRefused(i) \/ PutLost(i)
    PROVE  IInv'
  <1> DEFINE b == puts[i].records
             A2 == accepted \cup Elements(b)
  <1>1. /\ b \in Seq(Records) /\ Elements(b) \subseteq Records /\ NoDuplicates(b)
        /\ pendingRecords \in Seq(Records) /\ NoDuplicates(pendingRecords)
        /\ Len(pendingRecords) <= QueueCap
        /\ accepted \subseteq Records /\ dropped \subseteq Records
        /\ failures \in 0..MaxFailures /\ appended \in Nat
    BY QueueAssumption DEF IInv, TypeOK, Put, Elements, Distinct, QueueCapped
  <1>2. /\ \A j \in Puts : j # i => Batches'[j] = Batches[j]
        /\ Batches'[i] = {} /\ Batches[i] = Elements(b)
    <2>1. puts' = [puts EXCEPT ![i] = NoPut]
      BY DEF PutAccepted, PutRefused, PutLost, EndFlush
    <2>2. NoPut.records = <<>>
      BY DEF NoPut
    <2> QED BY <2>1, <2>2, EmptyQueue DEF Batches, IInv, TypeOK
  <1>3. Partition(Elements(pendingRecords), Batches, accepted, dropped, appended)
    BY DEF IInv, Placed
  <1>4. /\ Partition(Elements(pendingRecords), Batches', A2, dropped, appended)
        /\ Partition(Elements(pendingRecords), Batches', accepted,
                     dropped \cup Elements(b), appended)
        /\ \A Q, T : Q \cup T = Elements(b) \cup Elements(pendingRecords) /\ Q \cap T = {} =>
               Partition(Q, Batches', accepted, dropped \cup T, appended)
    BY <1>1, <1>2, <1>3, PartitionEnd
  <1>5. Fail => failures' \in 0..MaxFailures
    BY <1>1, QueueAssumption DEF Fail
  <1>6. CASE PutAccepted(i)
    BY <1>1, <1>4, <1>6, EndFlushKeeps DEF PutAccepted
  <1>7. CASE PutLost(i)
    BY <1>1, <1>4, <1>5, <1>7, EndFlushKeeps DEF PutLost
  <1>8. CASE PutRefused(i)
    <2> DEFINE q == b \o pendingRecords
    <2>1. Elements(b) \cap Elements(pendingRecords) = {}
      BY <1>2, <1>3 DEF Partition
    <2>2. /\ q \in Seq(Records) /\ NoDuplicates(q)
          /\ Elements(q) = Elements(b) \cup Elements(pendingRecords)
      BY <1>1, <2>1, JoinedQueues
    <2>3. /\ EndFlush(i, Trim(q)) /\ dropped' = dropped \cup Trimmed(q)
          /\ UNCHANGED accepted /\ Fail
      BY <1>8 DEF PutRefused
    <2> HIDE DEF q
    <2>4. /\ Trim(q) \in Seq(Records) /\ Len(Trim(q)) <= QueueCap
          /\ Elements(q) = Elements(Trim(q)) \cup Trimmed(q)
          /\ Elements(Trim(q)) \cap Trimmed(q) = {}
          /\ NoDuplicates(Trim(q))
      BY <2>2, TrimmedQueue
    <2>5. Trimmed(q) \subseteq Records
      BY <2>2 DEF Trimmed, Elements
    <2>6. Partition(Elements(Trim(q)), Batches', accepted, dropped \cup Trimmed(q), appended)
      BY <1>4, <2>2, <2>4
    <2> QED BY <1>1, <1>5, <2>3, <2>4, <2>5, <2>6, EndFlushKeeps
  <1> QED BY <1>6, <1>7, <1>8

\* The steps of the credentials, which move no record.
LEMMA CredentialsStepKeeps ==
    ASSUME IInv, CredentialsTypeOK', DeferredLive', ready' \in Nat, gaveUp' \in BOOLEAN,
           calls' \in 0..MaxCalls, failures' \in 0..MaxFailures,
           UNCHANGED <<pendingRecords, flushing, flushTimer, puts,
                       appended, accepted, dropped, destroyed>>,
           gaveUp => gaveUp', Attended => Attended' \/ gaveUp'
    PROVE  IInv'
  <1>1. TypeOK'
    BY DEF IInv, TypeOK
  <1>2. Distinct' /\ Placed' /\ QueueCapped'
    BY RecordsUnmoved
  <1>3. FlushingHasPut'
    BY DEF IInv, FlushingHasPut
  <1>4. NobodyForgotten'
    BY DEF IInv, NobodyForgotten, Attended
  <1> QED BY <1>1, <1>2, <1>3, <1>4 DEF IInv

LEMMA CredentialsReceivedKeeps ==
    ASSUME IInv, NEW f \in Fetches, CredentialsReceived(f)
    PROVE  IInv'
  <1>1. /\ ReceiveCredentials(f)
        /\ ready' = ready + Continuing(f)
                      + (IF pendingRecords # <<>> /\ ~flushing THEN 1 ELSE 0)
        /\ UNCHANGED <<pendingRecords, flushing, flushTimer, puts, history, bounds>>
    BY DEF CredentialsReceived
  <1>2. fetches' = [fetches EXCEPT ![f] = NotFetching]
    BY <1>1 DEF ReceiveCredentials
  <1>3. /\ fetches' \in [Fetches -> Fetch]
        /\ \A g \in Fetches : g # f => fetches'[g] = fetches[g] /\ (Continuing(g))' = Continuing(g)
    BY <1>2, EndFetchKeeps DEF IInv, TypeOK
  <1>4. CredentialsTypeOK' /\ DeferredLive'
    BY <1>1, <1>3, NoFetchAssumption
    DEF ReceiveCredentials, IInv, TypeOK, CredentialsTypeOK, DeferredLive
  <1>5. Continuing(f) \in Nat /\ ready \in Nat
    BY ContinuingType DEF IInv, TypeOK
  <1>6. ready' \in Nat /\ ready' >= ready + Continuing(f)
    BY <1>1, <1>5
  <1>7. Attended => Attended'
    BY <1>3, <1>5, <1>6 DEF Attended
  <1> QED BY <1>1, <1>4, <1>6, <1>7, CredentialsStepKeeps DEF history, bounds, IInv, TypeOK

LEMMA CredentialsLostKeeps ==
    ASSUME IInv, NEW f \in Fetches, CredentialsLost(f)
    PROVE  IInv'
  <1>1. /\ LoseCredentials(f) /\ Fail
        /\ gaveUp' = (gaveUp \/ Continuing(f) > 0)
        /\ UNCHANGED <<queue, appended, accepted, dropped, destroyed, calls>>
    BY DEF CredentialsLost
  <1>2. /\ fetches' = [fetches EXCEPT ![f] = NotFetching]
        /\ credentialDeferred' = NoFetch
        /\ UNCHANGED <<cookie, refreshTimer>>
        /\ unhandled' \in BOOLEAN
    BY <1>1 DEF LoseCredentials, IInv, TypeOK, CredentialsTypeOK
  <1>3. /\ fetches' \in [Fetches -> Fetch]
        /\ \A g \in Fetches : g # f => fetches'[g] = fetches[g] /\ (Continuing(g))' = Continuing(g)
    BY <1>2, EndFetchKeeps DEF IInv, TypeOK
  <1>4. CredentialsTypeOK' /\ DeferredLive'
    BY <1>2, <1>3 DEF IInv, TypeOK, CredentialsTypeOK, DeferredLive
  <1>5. Attended => Attended' \/ gaveUp'
    BY <1>1, <1>3 DEF Attended, queue
  <1>6. failures' \in 0..MaxFailures
    BY <1>1, QueueAssumption DEF Fail, IInv, TypeOK
  <1>7. gaveUp' \in BOOLEAN
    BY <1>1 DEF IInv, TypeOK
  <1> QED BY <1>1, <1>4, <1>5, <1>6, <1>7, CredentialsStepKeeps DEF queue, IInv, TypeOK

LEMMA RefreshTimerKeeps == ASSUME IInv, RefreshTimerFires PROVE IInv'
  <1>1. /\ RefreshCredentials
        /\ UNCHANGED <<queue, history, bounds>>
    BY DEF RefreshTimerFires
  <1>2. PICK f \in Fetches : StartFetch(f, FALSE)
    BY <1>1 DEF RefreshCredentials
  <1>3. /\ fetches' \in [Fetches -> Fetch]
        /\ credentialDeferred' \in Fetches \cup {NoFetch}
        /\ DeferredLive'
        /\ \A g \in Fetches : fetches[g].live => fetches'[g] = fetches[g]
    BY <1>2, StartFetchKeeps DEF IInv, TypeOK
  <1>4. CredentialsTypeOK'
    BY <1>1, <1>3 DEF RefreshCredentials, IInv, TypeOK, CredentialsTypeOK
  <1>5. Attended => Attended'
    BY <1>1, <1>3 DEF Attended, Continuing, queue
  <1> QED BY <1>1, <1>3, <1>4, <1>5, CredentialsStepKeeps
          DEF queue, history, bounds, IInv, TypeOK

LEMMA CookieExpiresKeeps == ASSUME IInv, CookieExpires PROVE IInv'
  <1>1. ExpireCookie /\ Fail /\ UNCHANGED <<queue, history, destroyed, calls>>
    BY DEF CookieExpires
  <1>2. CredentialsTypeOK' /\ DeferredLive'
    BY <1>1 DEF ExpireCookie, IInv, TypeOK, CredentialsTypeOK, DeferredLive
  <1>3. Attended => Attended'
    BY <1>1 DEF ExpireCookie, Attended, Continuing, queue
  <1>4. failures' \in 0..MaxFailures
    BY <1>1, QueueAssumption DEF Fail, IInv, TypeOK
  <1> QED BY <1>1, <1>2, <1>3, <1>4, CredentialsStepKeeps DEF queue, history, IInv, TypeOK

LEMMA ForceRefreshKeeps == ASSUME IInv, ForceRefresh PROVE IInv'
  <1>1. /\ ForceRefreshCredentials
        /\ gaveUp' = (gaveUp \/ Waiting > 0)
        /\ calls' \in 0..MaxCalls
        /\ UNCHANGED <<queue, appended, accepted, dropped, destroyed, failures>>
    BY QueueAssumption DEF ForceRefresh, IInv, TypeOK
  <1>2. PICK f \in Fetches : /\ ~fetches[f].live
                             /\ fetches' = [Rejected EXCEPT ![f] = PendingFetch]
                             /\ credentialDeferred' = f
    BY <1>1 DEF ForceRefreshCredentials
  <1>3. PendingFetch \in Fetch /\ PendingFetch.live
    BY DEF PendingFetch, NotFetching, Fetch
  <1>4. /\ Rejected \in [Fetches -> Fetch]
        /\ \A g \in Fetches : /\ Rejected[g].live = fetches[g].live
                              /\ Rejected[g].forFlush = fetches[g].forFlush
                              /\ g # credentialDeferred => Rejected[g] = fetches[g]
    BY RejectedFetches DEF IInv, TypeOK
  <1>5. /\ fetches' \in [Fetches -> Fetch] /\ fetches'[f] = PendingFetch
        /\ \A g \in Fetches : g # f => fetches'[g] = Rejected[g]
    BY <1>2, <1>3, <1>4
  <1>6. unhandled' \in BOOLEAN
    BY <1>1 DEF ForceRefreshCredentials, IInv, TypeOK, CredentialsTypeOK
  <1>7. CredentialsTypeOK' /\ DeferredLive'
    BY <1>1, <1>2, <1>3, <1>5, <1>6
    DEF ForceRefreshCredentials, CredentialsTypeOK, DeferredLive
  <1>8. Attended => Attended' \/ gaveUp'
    <2>1. CASE ready > 0
      BY <1>1, <2>1 DEF queue, Attended
    <2>2. ASSUME NEW g \in Fetches, fetches[g].live, Continuing(g) > 0
          PROVE  Attended' \/ gaveUp'
      <3>1. g # f /\ fetches'[g] = Rejected[g] /\ fetches'[g].live
        BY <1>2, <1>4, <1>5, <2>2
      <3>2. CASE g # credentialDeferred
        BY <1>4, <2>2, <3>1, <3>2 DEF Attended, Continuing
      <3>3. CASE g = credentialDeferred /\ fetches[g].waiters > 0
        BY <1>1, <3>3, NoFetchAssumption DEF Waiting
      <3>4. CASE g = credentialDeferred /\ ~(fetches[g].waiters > 0)
        <4>1. fetches[g] \in Fetch /\ fetches'[g] \in Fetch
          BY <1>5 DEF IInv, TypeOK, CredentialsTypeOK
        <4>2. fetches[g].forFlush
          BY <2>2, <3>4, <4>1 DEF Continuing, Fetch
        <4>3. fetches'[g].forFlush /\ fetches'[g].waiters \in Nat
          BY <1>4, <3>1, <4>1, <4>2 DEF Fetch
        <4>4. (Continuing(g))' > 0
          BY <4>3 DEF Continuing
        <4> QED BY <3>1, <4>4 DEF Attended
      <3> QED BY <3>2, <3>3, <3>4
    <2> QED BY <2>1, <2>2 DEF Attended
  <1>9. gaveUp' \in BOOLEAN
    BY <1>1 DEF IInv, TypeOK
  <1> QED BY <1>1, <1>7, <1>8, <1>9, CredentialsStepKeeps DEF queue, IInv, TypeOK

LEMMA DestroyKeeps == ASSUME IInv, Destroy PROVE IInv'
  <1>1. /\ flushTimer' = FALSE /\ flushing' = FALSE /\ destroyed' = TRUE
        /\ pendingRecords' = <<>> /\ dropped' = dropped \cup Elements(pendingRecords)
        /\ UNCHANGED <<ready, puts, appended, accepted, gaveUp, calls, failures>>
        /\ DestroyCredentials
    BY DEF Destroy
  <1>2. Rejected \in [Fetches -> Fetch]
    BY RejectedFetches DEF IInv, TypeOK
  <1>3. unhandled' \in BOOLEAN
    BY <1>1 DEF DestroyCredentials, IInv, TypeOK, CredentialsTypeOK
  <1>4. CredentialsTypeOK' /\ DeferredLive'
    BY <1>1, <1>2, <1>3 DEF DestroyCredentials, CredentialsTypeOK, DeferredLive
  <1>5. Elements(pendingRecords) \subseteq Records
    BY DEF IInv, TypeOK, Elements
  <1>6. TypeOK'
    BY <1>1, <1>4, <1>5, EmptyQueue DEF IInv, TypeOK
  <1>7. Distinct'
    BY <1>1, EmptyQueue DEF IInv, Distinct
  <1>8. Placed'
    <2>1. Batches' = Batches
      BY <1>1 DEF Batches
    <2>2. appended \in Nat
      BY QueueAssumption DEF IInv, TypeOK
    <2>3. Partition({}, Batches, accepted, dropped \cup Elements(pendingRecords), appended)
      BY <2>2, PartitionDestroy DEF IInv, Placed
    <2>4. Elements(pendingRecords') = {}
      BY <1>1, EmptyQueue
    <2> QED BY <1>1, <2>1, <2>3, <2>4 DEF Placed
  <1>9. FlushingHasPut' /\ QueueCapped' /\ NobodyForgotten'
    BY <1>1, QueueAssumption DEF FlushingHasPut, QueueCapped, NobodyForgotten
  <1> QED BY <1>4, <1>6, <1>7, <1>8, <1>9 DEF IInv

LEMMA StutterKeeps == ASSUME IInv, UNCHANGED vars PROVE IInv'
  <1> USE DEF vars, credentials, queue, history, bounds
  <1>1. CredentialsTypeOK' /\ DeferredLive'
    BY DEF IInv, TypeOK, CredentialsTypeOK, DeferredLive
  <1>2. Attended => Attended'
    BY DEF Attended, Continuing
  <1> QED BY <1>1, <1>2, CredentialsStepKeeps DEF IInv, TypeOK

---------------------------------------------------------------------------
(* The theorems.                                                           *)

\* The inductive invariant: records are placed once, and a queue has a keeper.
THEOREM Invariant == Spec => []IInv
  <1>1. IInv /\ [Next]_vars => IInv'
    BY AppendKeeps, FlushStepKeeps, SendKeeps, PutEndKeeps, CredentialsReceivedKeeps,
       CredentialsLostKeeps, RefreshTimerKeeps, CookieExpiresKeeps, ForceRefreshKeeps,
       DestroyKeeps, StutterKeeps
    DEF Next, Application, Answers
  <1> QED BY InitIInv, <1>1, PTL DEF Spec

\* Every variable of the appender and its credentials stays in its type.
THEOREM TypeCorrect == Spec => []TypeOK
  <1>1. IInv => TypeOK
    BY DEF IInv
  <1> QED BY Invariant, <1>1, PTL

\* However requests overlap and fail, no record vanishes and none is sent twice.
THEOREM RecordsKept == Spec => []EachRecordOnce
  <1>1. IInv => EachRecordOnce
    <2> SUFFICES ASSUME IInv PROVE EachRecordOnce
      OBVIOUS
    <2> DEFINE P == Elements(pendingRecords)
    <2>1. Partition(P, Batches, accepted, dropped, appended)
      BY DEF IInv, Placed
    <2>2. \A i \in Puts : Batches[i] = Elements(puts[i].records)
      BY DEF Batches
    <2>3. \A r : r \in InFlight <=> \E i \in Puts : r \in Batches[i]
      BY <2>2 DEF InFlight
    <2>4. Cardinality(P) = Len(pendingRecords)
      BY CountedQueue DEF IInv, TypeOK, Distinct
    <2>5. P \cup InFlight \cup accepted \cup dropped = 1..appended
      BY <2>1, <2>3 DEF Partition
    <2>6. /\ P \cap (InFlight \cup accepted \cup dropped) = {}
          /\ InFlight \cap (accepted \cup dropped) = {}
          /\ accepted \cap dropped = {}
      BY <2>1, <2>3 DEF Partition
    <2>7. \A i, j \in Puts :
              i # j => Elements(puts[i].records) \cap Elements(puts[j].records) = {}
      BY <2>1, <2>2 DEF Partition
    <2> QED BY <2>4, <2>5, <2>6, <2>7 DEF EachRecordOnce
  <1> QED BY Invariant, <1>1, PTL

\* The queue never holds more than LOG_QUEUE_MAX_RECORDS.
THEOREM CapHolds == Spec => []QueueCapped
  <1>1. IInv => QueueCapped
    BY DEF IInv
  <1> QED BY Invariant, <1>1, PTL

\* Queued records always have a timer, a PUT or a flush that will see to them.
THEOREM QueueAttended == Spec => []NobodyForgotten
  <1>1. IInv => NobodyForgotten
    BY DEF IInv
  <1> QED BY Invariant, <1>1, PTL
---------------------------------------------------------------------------
(* The Firehose appender.                                                  *)

BatchPhases == {"none", "preparing", "sending"}

FirehoseTypeOK ==
    /\ waiting \in Seq(Nat) /\ batch \in Seq(Nat)
    /\ phase \in BatchPhases
    /\ logged \in Nat
    /\ stored \subseteq 1..logged
    /\ gone \in [{"cap", "put", "expired"} -> SUBSET (1..logged)]

Increasing(q) == \A i, j \in DOMAIN q : i < j => q[i] < q[j]

\* Every number of S is less than every one of T.
Before(S, T) == \A a \in S, b \in T : a < b

Tried == stored \cup gone.put \cup gone.expired

\* A batch is there while it is put.
BatchIsPut == phase # "sending" => batch = <<>>

\* The records, oldest first: those tried, those being put, those that wait.
InOrder ==
    /\ Increasing(batch) /\ Increasing(waiting)
    /\ Before(Tried, Range(batch)) /\ Before(Tried, Range(waiting))
    /\ Before(Range(batch), Range(waiting))

\* A record that is given up is so for one reason, and not stored.
OneEnd ==
    /\ stored \cap gone.cap = {} /\ stored \cap gone.put = {} /\ stored \cap gone.expired = {}
    /\ gone.cap \cap gone.put = {} /\ gone.cap \cap gone.expired = {} /\ gone.put \cap gone.expired = {}

\* Those given up for room were never tried, and do not wait.
EachPlaced ==
    /\ Range(batch) \cup Range(waiting) \cup stored \cup gone.cap \cup gone.put \cup gone.expired = 1..logged
    /\ gone.cap \cap (Range(batch) \cup Range(waiting)) = {}

RecordsAttended ==
    /\ Len(waiting) <= LogQueueMaxRecords
    /\ waiting # <<>> => phase # "none" \/ loading # {} \/ timer \/ stalled

FirehoseInv == FirehoseTypeOK /\ BatchIsPut /\ InOrder /\ OneEnd /\ EachPlaced /\ RecordsAttended

---------------------------------------------------------------------------
LEMMA FirehoseNumbers ==
  /\ LogQueueMaxRecords \in Nat /\ LogQueueMaxRecords > 0
  /\ BatchSize \in Nat /\ BatchSize > 0
BY FirehoseAssumption

LEMMA RecordAppended ==
  ASSUME NEW q \in Seq(Nat), NEW r \in Nat, Increasing(q), Before(Range(q), {r}),
         Len(q) <= LogQueueMaxRecords
  PROVE  LET new == Capped(Append(q, r))
         IN  /\ Append(q, r) \in Seq(Nat) /\ new \in Seq(Nat)
             /\ Range(Append(q, r)) = Range(q) \cup {r}
             /\ Range(new) \subseteq Range(q) \cup {r}
             /\ Increasing(new)
             /\ Len(new) <= LogQueueMaxRecords
<1> DEFINE all == Append(q, r)
           n == Len(q)
<1>1. /\ all \in Seq(Nat) /\ Len(all) = n + 1 /\ n \in Nat
      /\ DOMAIN all = 1..(n + 1) /\ DOMAIN q = 1..n
      /\ \A i \in 1..n : all[i] = q[i]
      /\ all[n + 1] = r
  OBVIOUS
<1> HIDE DEF all, n
<1>2. Range(all) = Range(q) \cup {r}
  <2>1. ASSUME NEW i \in 1..(n + 1) PROVE all[i] \in Range(q) \cup {r}
    <3>1. i \in 1..n \/ i = n + 1 BY <1>1
    <3> QED BY <1>1, <3>1 DEF Range
  <2>2. ASSUME NEW i \in 1..n PROVE i \in 1..(n + 1) /\ q[i] = all[i]
    BY <1>1
  <2>3. n + 1 \in 1..(n + 1) BY <1>1
  <2> QED BY <1>1, <2>1, <2>2, <2>3, Zenon DEF Range
<1>3. Increasing(all)
  <2> SUFFICES ASSUME NEW i \in 1..(n + 1), NEW j \in 1..(n + 1), i < j PROVE all[i] < all[j]
    BY <1>1 DEF Increasing
  <2>1. i \in 1..n BY <1>1
  <2>2. j \in 1..n \/ j = n + 1 BY <1>1
  <2>3. q[i] \in Range(q) BY <1>1, <2>1 DEF Range
  <2>4. CASE j \in 1..n BY <1>1, <2>1, <2>4 DEF Increasing
  <2>5. CASE j = n + 1 BY <1>1, <2>1, <2>3, <2>5 DEF Before
  <2> QED BY <2>2, <2>4, <2>5
<1>4. CASE ~(Len(all) > LogQueueMaxRecords)
  <2>1. Capped(all) = all BY <1>4 DEF Capped
  <2> QED BY <1>1, <1>2, <1>3, <1>4, <2>1, FirehoseNumbers DEF all
<1>5. CASE Len(all) > LogQueueMaxRecords
  <2> DEFINE new == Tail(all)
  <2>1. Capped(all) = new BY <1>5 DEF Capped
  <2>2. /\ new \in Seq(Nat) /\ Len(new) = n /\ DOMAIN new = 1..n
        /\ \A i \in 1..n : new[i] = all[i + 1]
    BY <1>1
  <2> HIDE DEF new
  <2>3. \A i \in 1..n : i + 1 \in 1..(n + 1) BY <1>1
  <2>4. Range(new) \subseteq Range(all)
    <3>1. ASSUME NEW i \in 1..n PROVE new[i] \in Range(all)
      <4>1. all[i + 1] \in Range(all) BY <1>1, <2>3 DEF Range
      <4> QED BY <2>2, <4>1
    <3> QED BY <2>2, <3>1, Zenon DEF Range
  <2>5. Increasing(new)
    <3> SUFFICES ASSUME NEW i \in 1..n, NEW j \in 1..n, i < j PROVE new[i] < new[j]
      BY <2>2 DEF Increasing
    <3>1. i + 1 \in 1..(n + 1) /\ j + 1 \in 1..(n + 1) /\ i + 1 < j + 1 BY <1>1
    <3>2. all[i + 1] < all[j + 1] BY <1>1, <1>3, <3>1, Zenon DEF Increasing
    <3> QED BY <2>2, <3>2
  <2>6. Len(new) <= LogQueueMaxRecords BY <2>2 DEF n
  <2> QED BY <1>1, <1>2, <2>1, <2>2, <2>4, <2>5, <2>6 DEF all
<1> QED BY <1>4, <1>5

LEMMA BatchTaken ==
  ASSUME NEW q \in Seq(Nat), Increasing(q), NEW n \in 0..Len(q)
  PROVE  LET b == SubSeq(q, 1, n)
             w == SubSeq(q, n + 1, Len(q))
         IN  /\ b \in Seq(Nat) /\ w \in Seq(Nat)
             /\ Range(b) \cup Range(w) = Range(q)
             /\ Increasing(b) /\ Increasing(w)
             /\ Before(Range(b), Range(w))
             /\ Len(w) <= Len(q)
             /\ n = 0 => b = <<>>
             /\ n = Len(q) => w = <<>>
<1> DEFINE b == SubSeq(q, 1, n)
           w == SubSeq(q, n + 1, Len(q))
           L == Len(q)
<1>1. /\ b \in Seq(Nat) /\ DOMAIN b = 1..n /\ \A i \in 1..n : b[i] = q[i]
      /\ w \in Seq(Nat) /\ DOMAIN w = 1..(L - n) /\ \A i \in 1..(L - n) : w[i] = q[n + i]
      /\ Len(w) = L - n /\ L \in Nat /\ n \in 0..L /\ DOMAIN q = 1..L
      /\ n = 0 => b = <<>>
      /\ n = Len(q) => w = <<>>
  <2>1. b \in Seq(Nat) /\ DOMAIN b = 1..n /\ \A i \in 1..n : b[i] = q[i]
    <3>1. b = SubSeq(q, 1, n) /\ n \in 0..Len(q) OBVIOUS
    <3>2. SubSeq(q, 1, n) \in Seq(Nat) /\ Len(SubSeq(q, 1, n)) = n OBVIOUS
    <3> QED BY <3>1, <3>2
  <2>2. /\ w \in Seq(Nat) /\ DOMAIN w = 1..(L - n) /\ \A i \in 1..(L - n) : w[i] = q[n + i]
        /\ Len(w) = L - n /\ L \in Nat /\ n \in 0..L /\ DOMAIN q = 1..L OBVIOUS
  <2>3. n = 0 => b = <<>> OBVIOUS
  <2>4. n = Len(q) => w = <<>> OBVIOUS
  <2> QED BY <2>1, <2>2, <2>3, <2>4
<1> HIDE DEF b, w, L
<1>2. Range(b) \cup Range(w) = Range(q)
  <2>1. \A i \in 1..n : i \in 1..L BY <1>1
  <2>2. \A i \in 1..(L - n) : n + i \in 1..L BY <1>1
  <2>3. Range(b) \subseteq Range(q) BY <1>1, <2>1, Zenon DEF Range
  <2>4. Range(w) \subseteq Range(q)
    <3>1. ASSUME NEW i \in 1..(L - n) PROVE w[i] \in Range(q)
      <4>1. q[n + i] \in Range(q) BY <1>1, <2>2 DEF Range
      <4> QED BY <1>1, <4>1
    <3> QED BY <1>1, <3>1, Zenon DEF Range
  <2>5. ASSUME NEW i \in 1..L PROVE q[i] \in Range(b) \cup Range(w)
    <3>1. i \in 1..n \/ (i - n \in 1..(L - n) /\ n + (i - n) = i) BY <1>1
    <3>2. CASE i \in 1..n BY <1>1, <3>2 DEF Range
    <3>3. CASE i - n \in 1..(L - n) /\ n + (i - n) = i BY <1>1, <3>3 DEF Range
    <3> QED BY <3>1, <3>2, <3>3
  <2>6. Range(q) \subseteq Range(b) \cup Range(w) BY <1>1, <2>5, Zenon DEF Range
  <2> QED BY <2>3, <2>4, <2>6
<1>3. Increasing(b)
  <2> SUFFICES ASSUME NEW i \in 1..n, NEW j \in 1..n, i < j PROVE b[i] < b[j]
    BY <1>1 DEF Increasing
  <2>1. i \in 1..L /\ j \in 1..L BY <1>1
  <2> QED BY <1>1, <2>1 DEF Increasing
<1>4. Increasing(w)
  <2> SUFFICES ASSUME NEW i \in 1..(L - n), NEW j \in 1..(L - n), i < j PROVE w[i] < w[j]
    BY <1>1 DEF Increasing
  <2>1. n + i \in 1..L /\ n + j \in 1..L /\ n + i < n + j BY <1>1
  <2>2. q[n + i] < q[n + j] BY <1>1, <2>1, Zenon DEF Increasing
  <2> QED BY <1>1, <2>2
<1>5. Before(Range(b), Range(w))
  <2>1. ASSUME NEW i \in 1..n, NEW j \in 1..(L - n) PROVE b[i] < w[j]
    <3>1. i \in 1..L /\ n + j \in 1..L /\ i < n + j BY <1>1
    <3>2. q[i] < q[n + j] BY <1>1, <3>1, Zenon DEF Increasing
    <3> QED BY <1>1, <3>2
  <2>2. Range(b) = {b[i] : i \in 1..n} /\ Range(w) = {w[j] : j \in 1..(L - n)}
    BY <1>1 DEF Range
  <2> QED BY <2>1, <2>2 DEF Before
<1>6. Len(w) <= L BY <1>1
<1> QED BY <1>1, <1>2, <1>3, <1>4, <1>5, <1>6 DEF b, w, L

\* The loop goes on: what is kept of the records when the batch is done with.
LEMMA BatchIsNext ==
  ASSUME FirehoseTypeOK, Increasing(waiting), Len(waiting) <= LogQueueMaxRecords, NextBatch
  PROVE  /\ batch' \in Seq(Nat) /\ waiting' \in Seq(Nat) /\ phase' \in BatchPhases
         /\ Range(batch') \cup Range(waiting') = Range(waiting)
         /\ Increasing(batch)' /\ Increasing(waiting)'
         /\ Before(Range(batch'), Range(waiting'))
         /\ Len(waiting') <= LogQueueMaxRecords
         /\ phase' # "sending" => batch' = <<>>
         /\ phase' = "none" => waiting' = <<>>
<1> DEFINE n == IF Len(waiting) < BatchSize THEN Len(waiting) ELSE BatchSize
<1>1. waiting \in Seq(Nat) BY DEF FirehoseTypeOK
<1>2. n \in 0..Len(waiting) /\ (n = 0 => n = Len(waiting)) BY <1>1, FirehoseNumbers
<1>3. /\ batch' = SubSeq(waiting, 1, n)
      /\ waiting' = SubSeq(waiting, n + 1, Len(waiting))
      /\ phase' = IF n = 0 THEN "none" ELSE "sending"
  BY DEF NextBatch
<1> HIDE DEF n
<1>4. /\ batch' \in Seq(Nat) /\ waiting' \in Seq(Nat)
      /\ Range(batch') \cup Range(waiting') = Range(waiting)
      /\ Increasing(batch') /\ Increasing(waiting')
      /\ Before(Range(batch'), Range(waiting'))
      /\ Len(waiting') <= Len(waiting)
      /\ n = 0 => batch' = <<>>
      /\ n = Len(waiting) => waiting' = <<>>
  BY <1>1, <1>2, <1>3, BatchTaken
<1>5. Len(waiting') <= LogQueueMaxRecords
  <2>1. Len(waiting) \in Nat /\ Len(waiting') \in Nat BY <1>1, <1>4
  <2> QED BY <1>4, <2>1, FirehoseNumbers
<1>6. Increasing(batch)' /\ Increasing(waiting)' BY <1>4 DEF Increasing
<1> QED BY <1>2, <1>3, <1>4, <1>5, <1>6, Zenon DEF BatchPhases

\* getCredentials sets the timer when there are none.
LEMMA FlushStarted ==
  ASSUME NEW records, NEW promised, NEW armed, phase \in BatchPhases, FlushWith(records, promised, armed)
  PROVE  /\ phase' \in BatchPhases
         /\ phase' # phase => phase = "none" /\ phase' = "preparing"
         /\ records # <<>> /\ phase' = "none" => timer'
BY DEF FlushWith, BatchPhases

---------------------------------------------------------------------------
LEMMA FirehoseStarts == FirehoseInit => FirehoseInv
<1> SUFFICES ASSUME FirehoseInit PROVE FirehoseInv OBVIOUS
<1>1. Range(<<>>) = {} /\ Increasing(<<>>) BY DEF Range, Increasing
<1>2. FirehoseTypeOK BY DEF FirehoseInit, FirehoseTypeOK, BatchPhases
<1>3. BatchIsPut BY DEF FirehoseInit, BatchIsPut
<1>4. InOrder BY <1>1 DEF FirehoseInit, InOrder, Before
<1>5. OneEnd BY DEF FirehoseInit, OneEnd
<1>6. EachPlaced
  <2>1. 1..0 = {} OBVIOUS
  <2> QED BY <1>1, <2>1 DEF FirehoseInit, EachPlaced
<1>7. RecordsAttended BY FirehoseNumbers DEF FirehoseInit, RecordsAttended
<1> QED BY <1>2, <1>3, <1>4, <1>5, <1>6, <1>7 DEF FirehoseInv
---------------------------------------------------------------------------
\* Those tried are before those that are being put, which are before those that wait.
LEMMA QueuesApart ==
  ASSUME FirehoseInv
  PROVE  /\ Range(batch) \subseteq Nat /\ Range(waiting) \subseteq Nat /\ Tried \subseteq Nat
         /\ Tried \cap (Range(batch) \cup Range(waiting)) = {}
         /\ Range(batch) \cap Range(waiting) = {}
<1> USE DEF FirehoseInv
<1>1. Range(batch) \subseteq Nat /\ Range(waiting) \subseteq Nat BY DEF EachPlaced
<1>2. Tried \subseteq Nat BY DEF EachPlaced, Tried
<1>3. \A n \in Nat : ~(n < n) OBVIOUS
<1> QED BY <1>1, <1>2, <1>3, Zenon DEF FirehoseInv, InOrder, Before

\* Nothing happens to the records, and somebody still attends to those that wait.
LEMMA EndsKept ==
  ASSUME FirehoseInv, UNCHANGED <<waiting, batch, logged, stored, gone>>,
         phase' \in BatchPhases,
         phase' # "sending" => batch = <<>>,
         waiting # <<>> => phase' # "none" \/ loading' # {} \/ timer' \/ stalled'
  PROVE  FirehoseInv'
<1>1. FirehoseTypeOK' BY DEF FirehoseInv, FirehoseTypeOK
<1>2. BatchIsPut' BY DEF BatchIsPut
<1>3. InOrder' BY DEF FirehoseInv, InOrder, Increasing, Before, Tried
<1>4. OneEnd' BY DEF FirehoseInv, OneEnd
<1>5. EachPlaced' BY DEF FirehoseInv, EachPlaced
<1>6. RecordsAttended' BY DEF FirehoseInv, RecordsAttended
<1> QED BY <1>1, <1>2, <1>3, <1>4, <1>5, <1>6 DEF FirehoseInv

\* The batch is done with: S is stored, P was refused, E expired.  The batch
\* after it, if any, is taken from those that wait.
LEMMA BatchDone ==
  ASSUME FirehoseInv, logged' = logged,
         batch' \in Seq(Nat), waiting' \in Seq(Nat), phase' \in BatchPhases,
         Range(batch') \cup Range(waiting') = Range(waiting),
         Increasing(batch)', Increasing(waiting)',
         Before(Range(batch'), Range(waiting')),
         Len(waiting') <= LogQueueMaxRecords,
         phase' # "sending" => batch' = <<>>,
         waiting' # <<>> => phase' # "none" \/ loading' # {} \/ timer' \/ stalled',
         NEW S, NEW P, NEW E, S \cup P \cup E = Range(batch),
         S \cap P = {}, S \cap E = {}, P \cap E = {},
         stored' = stored \cup S,
         gone' = [cap |-> gone.cap, put |-> gone.put \cup P, expired |-> gone.expired \cup E]
  PROVE  FirehoseInv'
<1>1. /\ gone'.cap = gone.cap /\ gone'.put = gone.put \cup P
      /\ gone'.expired = gone.expired \cup E
  OBVIOUS
<1>2. Range(batch) \subseteq 1..logged BY DEF FirehoseInv, EachPlaced
<1>3. FirehoseTypeOK'
  <2>1. S \subseteq 1..logged /\ P \subseteq 1..logged /\ E \subseteq 1..logged BY <1>2
  <2>2. gone.cap \subseteq 1..logged /\ gone.put \subseteq 1..logged /\ gone.expired \subseteq 1..logged
    BY DEF FirehoseInv, FirehoseTypeOK
  <2>3. gone' \in [{"cap", "put", "expired"} -> SUBSET (1..logged')]
    <3> DEFINE N == 1..logged
    <3>1. /\ gone.cap \in SUBSET N
          /\ gone.put \cup P \in SUBSET N /\ gone.expired \cup E \in SUBSET N
      BY <2>1, <2>2
    <3> HIDE DEF N
    <3>2. gone' \in [{"cap", "put", "expired"} -> SUBSET N] BY <3>1
    <3> QED BY <3>2 DEF N
  <2> QED BY <2>1, <2>3 DEF FirehoseInv, FirehoseTypeOK
<1>4. BatchIsPut' BY DEF BatchIsPut
<1>5. InOrder'
  <2>1. Tried' = Tried \cup Range(batch) BY <1>1 DEF Tried
  <2>2. Before(Tried, Range(waiting)) /\ Before(Range(batch), Range(waiting))
    BY DEF FirehoseInv, InOrder
  <2>3. Before(Tried', Range(batch')) /\ Before(Tried', Range(waiting'))
    BY <2>1, <2>2, Zenon DEF Before
  <2>4. Range(batch)' = Range(batch') /\ Range(waiting)' = Range(waiting') BY DEF Range
  <2> QED BY <2>3, <2>4, Zenon DEF InOrder, Before
<1>6. OneEnd'
  <2>1. Range(batch) \cap (stored \cup gone.put \cup gone.expired \cup gone.cap) = {}
    BY QueuesApart DEF Tried, FirehoseInv, EachPlaced
  <2> QED BY <1>1, <2>1 DEF FirehoseInv, OneEnd
<1>7. EachPlaced'
  <2>1. Range(batch)' = Range(batch') /\ Range(waiting)' = Range(waiting') BY DEF Range
  <2> QED BY <1>1, <2>1 DEF FirehoseInv, EachPlaced
<1>8. RecordsAttended' BY DEF RecordsAttended
<1> QED BY <1>3, <1>4, <1>5, <1>6, <1>7, <1>8 DEF FirehoseInv

LEMMA LogRecordKeeps == FirehoseInv /\ LogRecord => FirehoseInv'
<1> SUFFICES ASSUME FirehoseInv, LogRecord PROVE FirehoseInv' OBVIOUS
<1> DEFINE r == logged + 1
           all == Append(waiting, r)
           new == Capped(all)
<1>1. /\ logged \in Nat /\ waiting \in Seq(Nat) /\ Increasing(waiting)
      /\ Len(waiting) <= LogQueueMaxRecords /\ phase \in BatchPhases
  BY DEF FirehoseInv, FirehoseTypeOK, InOrder, RecordsAttended
<1>2. /\ logged' = r /\ waiting' = new
      /\ gone' = [gone EXCEPT !.cap = @ \cup (Range(all) \ Range(new))]
      /\ FlushWith(new, loadDeferred, timer)
      /\ UNCHANGED <<batch, loading, stored>>
  BY DEF LogRecord
<1>3. r \in Nat /\ 1..r = (1..logged) \cup {r} /\ r \notin 1..logged
      /\ \A n \in 1..logged : n < r
  BY <1>1
<1>4. Range(waiting) \subseteq 1..logged /\ Range(batch) \subseteq 1..logged
  BY DEF FirehoseInv, EachPlaced
<1>5. Before(Range(waiting), {r}) BY <1>3, <1>4 DEF Before
<1>6. /\ all \in Seq(Nat) /\ new \in Seq(Nat)
      /\ Range(all) = Range(waiting) \cup {r}
      /\ Range(new) \subseteq Range(waiting) \cup {r}
      /\ Increasing(new)
      /\ Len(new) <= LogQueueMaxRecords
  BY <1>1, <1>3, <1>5, RecordAppended
<1> HIDE DEF r, all, new
<1> DEFINE lost == Range(all) \ Range(new)
<1>7. lost \subseteq Range(waiting) \cup {r} BY <1>6
<1>8. gone \in [{"cap", "put", "expired"} -> SUBSET (1..logged)] BY DEF FirehoseInv, FirehoseTypeOK
<1>9. gone'.cap = gone.cap \cup lost /\ gone'.put = gone.put /\ gone'.expired = gone.expired
  BY <1>2, <1>8
<1>10. gone.cap \subseteq 1..logged /\ gone.put \subseteq 1..logged /\ gone.expired \subseteq 1..logged
       /\ stored \subseteq 1..logged
  BY <1>8 DEF FirehoseInv, FirehoseTypeOK
<1>11. lost \subseteq 1..r BY <1>3, <1>4, <1>7
<1>12. Range(batch)' = Range(batch) /\ Range(waiting)' = Range(new) BY <1>2 DEF Range
<1>13. lost \cup Range(new) = Range(waiting) \cup {r} /\ lost \cap Range(new) = {} BY <1>6
<1>14. /\ Tried \cap (Range(batch) \cup Range(waiting)) = {}
       /\ Range(batch) \cap Range(waiting) = {}
  BY QueuesApart
<1> HIDE DEF lost
<1>15. FirehoseTypeOK'
  <2>1. waiting' \in Seq(Nat) /\ batch' \in Seq(Nat) BY <1>2, <1>6 DEF FirehoseInv, FirehoseTypeOK
  <2>2. phase' \in BatchPhases BY <1>1, <1>2, FlushStarted
  <2>3. logged' \in Nat /\ stored' \subseteq 1..logged' BY <1>2, <1>3, <1>10
  <2>4. gone' \in [{"cap", "put", "expired"} -> SUBSET (1..logged')]
    <3>1. gone' = [gone EXCEPT !.cap = gone.cap \cup lost] BY <1>2, <1>8 DEF lost
    <3>2. gone \in [{"cap", "put", "expired"} -> SUBSET (1..r)] BY <1>3, <1>8
    <3>3. gone.cap \cup lost \in SUBSET (1..r) BY <1>3, <1>10, <1>11
    <3> QED BY <1>2, <3>1, <3>2, <3>3
  <2> QED BY <2>1, <2>2, <2>3, <2>4 DEF FirehoseTypeOK
<1>16. BatchIsPut'
  <2>1. phase' # "sending" => phase # "sending" BY <1>1, <1>2, FlushStarted
  <2> QED BY <1>2, <2>1 DEF FirehoseInv, BatchIsPut
<1>17. InOrder'
  <2>1. Increasing(batch)' /\ Increasing(waiting)'
    BY <1>2, <1>6, Zenon DEF FirehoseInv, InOrder, Increasing
  <2>2. Tried' = Tried BY <1>2, <1>9 DEF Tried
  <2>3. Tried \subseteq 1..logged BY <1>10 DEF Tried
  <2>4. Before(Tried, Range(waiting) \cup {r}) BY <1>3, <2>3, Zenon DEF FirehoseInv, InOrder, Before
  <2>5. Before(Range(batch), Range(waiting) \cup {r})
    BY <1>3, <1>4, Zenon DEF FirehoseInv, InOrder, Before
  <2>6. Before(Tried, Range(new)) /\ Before(Range(batch), Range(new))
    BY <1>6, <2>4, <2>5, Zenon DEF Before
  <2>7. Before(Tried, Range(batch)) BY DEF FirehoseInv, InOrder
  <2> QED BY <1>12, <2>1, <2>2, <2>6, <2>7, Zenon DEF InOrder, Before
<1>18. OneEnd'
  <2>1. stored \cup gone.put \cup gone.expired \subseteq 1..logged BY <1>10
  <2>2. lost \cap (stored \cup gone.put \cup gone.expired) = {}
    BY <1>3, <1>7, <1>14, <2>1 DEF Tried
  <2> QED BY <1>2, <1>9, <2>2 DEF FirehoseInv, OneEnd
<1>19. EachPlaced'
  <2>1. Range(batch)' \cup Range(waiting)' \cup stored' \cup gone'.cap \cup gone'.put \cup gone'.expired
           = 1..logged \cup {r}
    BY <1>2, <1>9, <1>12, <1>13 DEF FirehoseInv, EachPlaced
  <2>2. gone.cap \cap (Range(batch) \cup Range(waiting) \cup {r}) = {}
    BY <1>3, <1>10 DEF FirehoseInv, EachPlaced
  <2>3. lost \cap Range(batch) = {} BY <1>3, <1>4, <1>7, <1>14
  <2>4. gone'.cap \cap (Range(batch)' \cup Range(waiting)') = {}
    BY <1>6, <1>9, <1>12, <1>13, <2>2, <2>3
  <2> QED BY <1>2, <1>3, <2>1, <2>4 DEF EachPlaced
<1>20. RecordsAttended'
  <2>1. waiting' # <<>> /\ phase' = "none" => timer' BY <1>1, <1>2, FlushStarted
  <2> QED BY <1>2, <1>6, <2>1 DEF RecordsAttended
<1> QED BY <1>15, <1>16, <1>17, <1>18, <1>19, <1>20 DEF FirehoseInv
---------------------------------------------------------------------------
LEMMA ClientReadyKeeps == FirehoseInv /\ ClientReady => FirehoseInv'
<1> SUFFICES ASSUME FirehoseInv, ClientReady PROVE FirehoseInv' OBVIOUS
<1>1. /\ FirehoseTypeOK /\ Increasing(waiting) /\ Len(waiting) <= LogQueueMaxRecords
      /\ NextBatch /\ phase = "preparing"
      /\ UNCHANGED <<logged, stored, gone>>
  BY DEF FirehoseInv, InOrder, RecordsAttended, ClientReady
<1>2. batch = <<>> BY <1>1 DEF FirehoseInv, BatchIsPut
<1>3. Range(batch) = {} BY <1>2 DEF Range
<1>4. gone' = [cap |-> gone.cap, put |-> gone.put \cup {}, expired |-> gone.expired \cup {}]
  BY <1>1 DEF FirehoseTypeOK
<1>5. stored' = stored \cup {} BY <1>1
<1>6. {} \cup {} \cup {} = Range(batch) /\ {} \cap {} = {} BY <1>3
<1>7. waiting' # <<>> => phase' # "none" BY <1>1, BatchIsNext
<1> QED BY <1>1, <1>4, <1>5, <1>6, <1>7, BatchIsNext, BatchDone

LEMMA BatchPutKeeps == FirehoseInv /\ BatchPut => FirehoseInv'
<1> SUFFICES ASSUME FirehoseInv, BatchPut PROVE FirehoseInv' OBVIOUS
<1>1. /\ FirehoseTypeOK /\ Increasing(waiting) /\ Len(waiting) <= LogQueueMaxRecords
      /\ NextBatch /\ logged' = logged
  BY DEF FirehoseInv, InOrder, RecordsAttended, BatchPut
<1>2. PICK failed \in SUBSET Range(batch) :
        /\ stored' = stored \cup (Range(batch) \ failed)
        /\ gone' = [gone EXCEPT !.put = @ \cup failed]
  BY DEF BatchPut
<1>3. gone' = [cap |-> gone.cap, put |-> gone.put \cup failed, expired |-> gone.expired \cup {}]
  BY <1>1, <1>2 DEF FirehoseTypeOK
<1> DEFINE S == Range(batch) \ failed
<1>4. /\ S \cup failed \cup {} = Range(batch)
      /\ S \cap failed = {} /\ S \cap {} = {} /\ failed \cap {} = {}
  BY <1>2
<1>5. stored' = stored \cup S BY <1>2
<1> HIDE DEF S
<1>6. waiting' # <<>> => phase' # "none" BY <1>1, BatchIsNext
<1> QED BY <1>1, <1>3, <1>4, <1>5, <1>6, BatchIsNext, BatchDone

\* The batch is given up: by an error, or by the refusal of the token.
LEMMA BatchGivenUp ==
  ASSUME FirehoseInv, phase' = "none", batch' = <<>>, UNCHANGED <<waiting, logged, stored>>,
         timer' \/ stalled', NEW P, NEW E, P \cup E = Range(batch), P \cap E = {},
         gone' = [cap |-> gone.cap, put |-> gone.put \cup P, expired |-> gone.expired \cup E]
  PROVE  FirehoseInv'
<1>1. /\ waiting' \in Seq(Nat) /\ batch' \in Seq(Nat) /\ phase' \in BatchPhases
      /\ Len(waiting') <= LogQueueMaxRecords
  BY DEF FirehoseInv, FirehoseTypeOK, RecordsAttended, BatchPhases
<1>2. Range(batch') = {} /\ Range(waiting') = Range(waiting) BY DEF Range
<1>3. Range(batch') \cup Range(waiting') = Range(waiting) /\ Before(Range(batch'), Range(waiting'))
  BY <1>2 DEF Before
<1>4. Increasing(batch)' /\ Increasing(waiting)' BY DEF FirehoseInv, InOrder, Increasing
<1>5. {} \cup P \cup E = Range(batch) /\ {} \cap P = {} /\ {} \cap E = {} /\ stored' = stored \cup {}
  OBVIOUS
<1> QED BY <1>1, <1>3, <1>4, <1>5, BatchDone

LEMMA PutFailsKeeps == FirehoseInv /\ PutFails => FirehoseInv'
<1> SUFFICES ASSUME FirehoseInv, PutFails PROVE FirehoseInv' OBVIOUS
<1>1. gone' = [cap |-> gone.cap, put |-> gone.put \cup Range(batch), expired |-> gone.expired \cup {}]
  BY DEF FirehoseInv, FirehoseTypeOK, PutFails
<1>2. Range(batch) \cup {} = Range(batch) /\ Range(batch) \cap {} = {} OBVIOUS
<1> QED BY <1>1, <1>2, BatchGivenUp DEF PutFails

LEMMA TokenExpiredKeeps == FirehoseInv /\ TokenExpired => FirehoseInv'
<1> SUFFICES ASSUME FirehoseInv, TokenExpired PROVE FirehoseInv' OBVIOUS
<1>1. gone' = [cap |-> gone.cap, put |-> gone.put \cup {}, expired |-> gone.expired \cup Range(batch)]
  BY DEF FirehoseInv, FirehoseTypeOK, TokenExpired
<1>2. {} \cup Range(batch) = Range(batch) /\ {} \cap Range(batch) = {} OBVIOUS
<1> QED BY <1>1, <1>2, BatchGivenUp DEF TokenExpired

LEMMA CredentialsLoadedKeeps ==
  ASSUME NEW l \in Loads, FirehoseInv, CredentialsLoaded(l) PROVE FirehoseInv'
<1>1. PICK promised : FlushWith(waiting, promised, TRUE) BY DEF CredentialsLoaded
<1>2. phase \in BatchPhases BY DEF FirehoseInv, FirehoseTypeOK
<1>3. phase' \in BatchPhases /\ (phase' # phase => phase = "none") BY <1>1, <1>2, FlushStarted
<1>4. phase' # "sending" => batch = <<>> BY <1>3 DEF FirehoseInv, BatchIsPut
<1>5. waiting # <<>> => phase' # "none" \/ timer' BY <1>1, <1>2, FlushStarted
<1> QED BY <1>3, <1>4, <1>5, EndsKept DEF CredentialsLoaded

\* What touches neither the records nor a put, and leaves a reason to wait.
LEMMA OthersKeep ==
  ASSUME FirehoseInv,
         \/ ClientFails \/ Refresh \/ Expire \/ ForceUpdateCredentials \/ DestroyManager
         \/ (\E l \in Loads : LoadFails(l)) \/ UNCHANGED firehose
  PROVE  FirehoseInv'
<1>1. phase \in BatchPhases /\ (phase # "sending" => batch = <<>>)
      /\ (waiting # <<>> => phase # "none" \/ loading # {} \/ timer \/ stalled)
  BY DEF FirehoseInv, FirehoseTypeOK, BatchIsPut, RecordsAttended
<1>2. CASE ClientFails
  BY <1>1, <1>2, EndsKept DEF ClientFails, BatchPhases
<1>3. CASE Refresh
  BY <1>1, <1>3, EndsKept DEF Refresh
<1>4. CASE Expire
  BY <1>1, <1>4, EndsKept DEF Expire
<1>5. CASE ForceUpdateCredentials
  BY <1>1, <1>5, EndsKept DEF ForceUpdateCredentials
<1>6. CASE DestroyManager
  BY <1>1, <1>6, EndsKept DEF DestroyManager
<1>7. CASE \E l \in Loads : LoadFails(l)
  BY <1>1, <1>7, EndsKept DEF LoadFails
<1>8. CASE UNCHANGED firehose
  BY <1>1, <1>8, EndsKept DEF firehose
<1> QED BY <1>2, <1>3, <1>4, <1>5, <1>6, <1>7, <1>8

LEMMA FirehoseSteps == FirehoseInv /\ [FirehoseNext]_firehose => FirehoseInv'
BY LogRecordKeeps, ClientReadyKeeps, BatchPutKeeps, PutFailsKeeps, TokenExpiredKeeps,
   CredentialsLoadedKeeps, OthersKeep, Zenon DEF FirehoseNext

---------------------------------------------------------------------------
LEMMA CountedUnion ==
  ASSUME NEW A, NEW B, IsFiniteSet(A), IsFiniteSet(B), A \cap B = {}
  PROVE  /\ IsFiniteSet(A \cup B)
         /\ Cardinality(A \cup B) = Cardinality(A) + Cardinality(B)
<1>1. /\ IsFiniteSet(A \cup B)
      /\ Cardinality(A \cup B) = Cardinality(A) + Cardinality(B) - Cardinality(A \cap B)
  BY FS_Union
<1>2. Cardinality(A \cap B) = 0 BY FS_EmptySet, Zenon
<1>3. Cardinality(A) \in Nat /\ Cardinality(B) \in Nat BY FS_CardinalityType
<1> QED BY <1>1, <1>2, <1>3

\* The records that are put now, then those that wait.
LEMMA UnderwayInOrder ==
  ASSUME FirehoseInv
  PROVE  /\ Range(Underway) = Range(batch) \cup Range(waiting)
         /\ Increasing(Underway)
         /\ Underway # <<>> => Underway[1] \in Range(Underway)
<1> DEFINE m == Len(batch)
           n == Len(waiting)
           all == batch \o waiting
<1>1. batch \in Seq(Nat) /\ waiting \in Seq(Nat) BY DEF FirehoseInv, FirehoseTypeOK
<1>2. /\ m \in Nat /\ n \in Nat /\ DOMAIN batch = 1..m /\ DOMAIN waiting = 1..n
      /\ all \in Seq(Nat) /\ DOMAIN all = 1..(m + n)
      /\ \A i \in 1..m : all[i] = batch[i]
      /\ \A i \in 1..n : all[m + i] = waiting[i]
      /\ all # <<>> => 1 \in 1..(m + n)
  BY <1>1
<1> HIDE DEF m, n, all
<1>3. /\ \A i \in 1..m : i \in 1..(m + n)
      /\ \A i \in 1..n : m + i \in 1..(m + n)
  BY <1>2
<1>4. ASSUME NEW i \in 1..(m + n)
      PROVE  \/ i \in 1..m /\ all[i] = batch[i]
             \/ i - m \in 1..n /\ all[i] = waiting[i - m]
  <2>1. i \in 1..m \/ (i - m \in 1..n /\ m + (i - m) = i) BY <1>2
  <2> QED BY <1>2, <2>1
<1>5. Range(all) = Range(batch) \cup Range(waiting)
  <2>1. \A i \in 1..(m + n) : all[i] \in Range(batch) \cup Range(waiting) BY <1>2, <1>4 DEF Range
  <2>2. Range(batch) \subseteq Range(all) BY <1>2, <1>3, Zenon DEF Range
  <2>3. Range(waiting) \subseteq Range(all)
    <3>1. ASSUME NEW i \in 1..n PROVE waiting[i] \in Range(all)
      <4>1. all[m + i] \in Range(all) BY <1>2, <1>3 DEF Range
      <4> QED BY <1>2, <4>1
    <3> QED BY <1>2, <3>1, Zenon DEF Range
  <2>4. Range(all) \subseteq Range(batch) \cup Range(waiting) BY <1>2, <2>1, Zenon DEF Range
  <2> QED BY <2>2, <2>3, <2>4
<1>6. Increasing(all)
  <2> SUFFICES ASSUME NEW i \in 1..(m + n), NEW j \in 1..(m + n), i < j PROVE all[i] < all[j]
    BY <1>2 DEF Increasing
  <2>1. Increasing(batch) /\ Increasing(waiting) /\ Before(Range(batch), Range(waiting))
    BY DEF FirehoseInv, InOrder
  <2>2. CASE j \in 1..m
    <3>1. i \in 1..m BY <1>2, <2>2
    <3> QED BY <1>2, <2>1, <2>2, <3>1 DEF Increasing
  <2>3. CASE i \in 1..m /\ j - m \in 1..n
    <3>1. batch[i] \in Range(batch) /\ waiting[j - m] \in Range(waiting) BY <1>2, <2>3 DEF Range
    <3>2. m + (j - m) = j BY <1>2
    <3> QED BY <1>2, <2>1, <2>3, <3>1, <3>2 DEF Before
  <2>4. CASE i - m \in 1..n /\ j - m \in 1..n
    <3>1. i - m < j - m /\ m + (i - m) = i /\ m + (j - m) = j BY <1>2
    <3>2. waiting[i - m] < waiting[j - m] BY <1>2, <2>1, <2>4, <3>1, Zenon DEF Increasing
    <3> QED BY <1>2, <2>4, <3>1, <3>2
  <2> QED BY <1>4, <2>2, <2>3, <2>4
<1>7. all # <<>> => all[1] \in Range(all) BY <1>2 DEF Range
<1> QED BY <1>5, <1>6, <1>7 DEF Underway, all

LEMMA FirehoseSafe == FirehoseInv => PutOnceInOrder
<1> SUFFICES ASSUME FirehoseInv PROVE PutOnceInOrder OBVIOUS
<1>1. \A i, j \in DOMAIN Underway : i < j => Underway[i] < Underway[j]
  BY UnderwayInOrder DEF Increasing
<1>2. Range(Underway) \cap Settled = {} /\ Range(Underway) \cup Settled = 1..logged
  BY UnderwayInOrder, QueuesApart DEF FirehoseInv, EachPlaced, Settled, Tried
<1>3. Cardinality(stored) + Cardinality(gone.cap) + Cardinality(gone.put) + Cardinality(gone.expired)
        = Cardinality(Settled)
  <2>1. IsFiniteSet(1..logged) BY FS_Interval DEF FirehoseInv, FirehoseTypeOK
  <2>2. /\ stored \subseteq 1..logged /\ gone.cap \subseteq 1..logged
        /\ gone.put \subseteq 1..logged /\ gone.expired \subseteq 1..logged
    BY DEF FirehoseInv, FirehoseTypeOK
  <2>3. IsFiniteSet(stored) /\ IsFiniteSet(gone.cap) /\ IsFiniteSet(gone.put) /\ IsFiniteSet(gone.expired)
    BY <2>1, <2>2, FS_Subset
  <2> DEFINE A == stored \cup gone.cap
             B == A \cup gone.put
  <2>4. /\ stored \cap gone.cap = {} /\ A \cap gone.put = {} /\ B \cap gone.expired = {}
    BY DEF FirehoseInv, OneEnd
  <2>5. IsFiniteSet(A) /\ Cardinality(A) = Cardinality(stored) + Cardinality(gone.cap)
    BY <2>3, <2>4, CountedUnion
  <2> HIDE DEF A
  <2>6. IsFiniteSet(B) /\ Cardinality(B) = Cardinality(A) + Cardinality(gone.put)
    BY <2>3, <2>4, <2>5, CountedUnion
  <2> HIDE DEF B
  <2>7. Cardinality(B \cup gone.expired) = Cardinality(B) + Cardinality(gone.expired)
    BY <2>3, <2>4, <2>6, CountedUnion
  <2> QED BY <2>5, <2>6, <2>7 DEF A, B, Settled
<1>4. Underway # <<>> => \A r \in stored \cup gone.put \cup gone.expired : r < Underway[1]
  BY UnderwayInOrder DEF FirehoseInv, InOrder, Before, Tried
<1> QED BY <1>1, <1>2, <1>3, <1>4 DEF FirehoseInv, RecordsAttended, PutOnceInOrder

\* However loads, flushes and failures overlap, each record is put at most once,
\* in the order in which it was logged, or is given up for one known reason, and
\* those that wait are attended to: whatever the cap and the size of a batch.
THEOREM FirehosePutsInOrder == FirehoseSpec => []PutOnceInOrder
BY FirehoseStarts, FirehoseSteps, FirehoseSafe, PTL DEF FirehoseSpec

---------------------------------------------------------------------------
(* Deferred promises.                                                      *)

DeferredTypeOK ==
    /\ made \in [Deferreds -> {"no", "plain", "wrapping"}]
    /\ {isSettled, isCancelled, isFulfilled, isRejected} \subseteq [Deferreds -> BOOLEAN]
    /\ DOMAIN result = Deferreds /\ DOMAIN err = Deferreds
    /\ {promise, wrapped} \subseteq [Deferreds -> Outcomes \cup {Pending}]

\* A plain deferred's flags and results are those of its promise.
FlagsFit(d) ==
    /\ isCancelled[d] => isSettled[d]
    /\ made[d] # "wrapping" => wrapped[d] = Pending
    /\ made[d] # "wrapping" /\ ~isSettled[d] => promise[d] = Pending /\ ~isFulfilled[d]
    /\ made[d] # "wrapping" /\ isSettled[d] =>
           \/ isCancelled[d] /\ promise[d] = Pending
           \/ isFulfilled[d] /\ promise[d] = <<"fulfilled", result[d]>>
           \/ ~isFulfilled[d] /\ promise[d] = <<"rejected", err[d]>>
    /\ isSettled[d] /\ ~isCancelled[d] => promise[d] # Pending

DeferredInv == DeferredTypeOK /\ \A d \in Deferreds : FlagsFit(d)

LEMMA OutcomesAreNotPending ==
    \A r : <<"fulfilled", r>> # Pending /\ <<"rejected", r>> # Pending
  BY DEF Pending

\* A step of one deferred.
LEMMA OneDeferred ==
    ASSUME DeferredInv, DeferredTypeOK', NEW d \in Deferreds, FlagsFit(d)',
           \A o \in Deferreds \ {d} :
               /\ made'[o] = made[o] /\ promise'[o] = promise[o] /\ wrapped'[o] = wrapped[o]
               /\ isSettled'[o] = isSettled[o] /\ isCancelled'[o] = isCancelled[o]
               /\ isFulfilled'[o] = isFulfilled[o] /\ result'[o] = result[o] /\ err'[o] = err[o]
    PROVE  DeferredInv'
  <1>1. ASSUME NEW o \in Deferreds \ {d} PROVE FlagsFit(o)'
    BY <1>1 DEF DeferredInv, FlagsFit
  <1> QED BY <1>1 DEF DeferredInv

LEMMA DeferredStepInv == DeferredInv /\ [DeferredNext]_deferred => DeferredInv'
  <1> SUFFICES ASSUME DeferredInv, [DeferredNext]_deferred PROVE DeferredInv'
    OBVIOUS
  <1>0. DeferredTypeOK /\ \A d \in Deferreds : FlagsFit(d)
    BY DEF DeferredInv
  <1>1. CASE UNCHANGED deferred
    BY <1>1 DEF deferred, flags, DeferredInv, DeferredTypeOK, FlagsFit
  <1>2. ASSUME NEW d \in Deferreds, NEW kind \in {"plain", "wrapping"}, NewDeferred(d, kind)
        PROVE  DeferredInv'
    <2>1. DeferredTypeOK'
      BY <1>0, <1>2 DEF NewDeferred, flags, DeferredTypeOK
    <2>2. FlagsFit(d)'
      BY <1>0, <1>2 DEF NewDeferred, flags, DeferredTypeOK, FlagsFit
    <2> QED BY <1>2, <2>1, <2>2, OneDeferred DEF NewDeferred, flags, DeferredInv, DeferredTypeOK
  <1>3. ASSUME NEW d \in Deferreds, NEW r \in Results, Resolve(d, r) PROVE DeferredInv'
    <2>0. <<"fulfilled", r>> \in Outcomes
      BY DEF Outcomes
    <2>1. DeferredTypeOK'
      BY <1>0, <1>3, <2>0 DEF Resolve, Settle, DeferredTypeOK
    <2>2. FlagsFit(d)'
      BY <1>0, <1>3, OutcomesAreNotPending DEF Resolve, Settle, DeferredTypeOK, FlagsFit
    <2> QED BY <1>3, <2>1, <2>2, OneDeferred DEF Resolve, Settle, DeferredInv, DeferredTypeOK
  <1>4. ASSUME NEW d \in Deferreds, NEW e \in Results, Reject(d, e) PROVE DeferredInv'
    <2>0. <<"rejected", e>> \in Outcomes
      BY DEF Outcomes
    <2>1. DeferredTypeOK'
      BY <1>0, <1>4, <2>0 DEF Reject, Settle, DeferredTypeOK
    <2>2. FlagsFit(d)'
      BY <1>0, <1>4, OutcomesAreNotPending DEF Reject, Settle, DeferredTypeOK, FlagsFit
    <2> QED BY <1>4, <2>1, <2>2, OneDeferred DEF Reject, Settle, DeferredInv, DeferredTypeOK
  <1>5. ASSUME NEW d \in Deferreds, Cancel(d) PROVE DeferredInv'
    <2>1. DeferredTypeOK'
      BY <1>0, <1>5 DEF Cancel, DeferredTypeOK
    <2>2. FlagsFit(d)'
      BY <1>0, <1>5 DEF Cancel, DeferredTypeOK, FlagsFit
    <2> QED BY <1>5, <2>1, <2>2, OneDeferred DEF Cancel, DeferredInv, DeferredTypeOK
  <1>6. ASSUME NEW d \in Deferreds, NEW how \in Outcomes, WrappedSettles(d, how) PROVE DeferredInv'
    <2>1. DeferredTypeOK'
      BY <1>0, <1>6 DEF WrappedSettles, flags, DeferredTypeOK
    <2>2. FlagsFit(d)'
      BY <1>0, <1>6 DEF WrappedSettles, flags, DeferredTypeOK, FlagsFit
    <2> QED BY <1>6, <2>1, <2>2, OneDeferred DEF WrappedSettles, flags, DeferredInv, DeferredTypeOK
  <1>7. ASSUME NEW d \in Deferreds, Adopt(d) PROVE DeferredInv'
    <2>1. DeferredTypeOK'
      BY <1>0, <1>7 DEF Adopt, Settle, flags, DeferredTypeOK
    <2>2. FlagsFit(d)'
      BY <1>0, <1>7 DEF Adopt, Settle, flags, DeferredTypeOK, FlagsFit
    <2> QED BY <1>7, <2>1, <2>2, OneDeferred DEF Adopt, Settle, flags, DeferredInv, DeferredTypeOK
  <1> QED BY <1>1, <1>2, <1>3, <1>4, <1>5, <1>6, <1>7 DEF DeferredNext

LEMMA DeferredInitInv == DeferredInit => DeferredInv
  <1> SUFFICES ASSUME DeferredInit PROVE DeferredInv
    OBVIOUS
  <1>1. DeferredTypeOK
    BY DEF DeferredInit, DeferredTypeOK
  <1>2. ASSUME NEW d \in Deferreds PROVE FlagsFit(d)
    BY DEF DeferredInit, FlagsFit
  <1> QED BY <1>1, <1>2 DEF DeferredInv

(***************************************************************************)
(* Deferred: for any deferreds and results, and in whatever order they are *)
(* resolved, rejected, cancelled and settled by what they wrap, what a     *)
(* deferred says of itself is so of its promise.                           *)
(***************************************************************************)
THEOREM StatusIsAlwaysThePromise == DeferredSpec => []StatusIsThePromise
  <1>1. DeferredInv => StatusIsThePromise
    <2> SUFFICES ASSUME DeferredInv, NEW d \in Deferreds
                 PROVE  StatusIsThePromise!(d)
      BY DEF StatusIsThePromise
    <2>1. FlagsFit(d) /\ isSettled[d] \in BOOLEAN /\ isCancelled[d] \in BOOLEAN /\ isFulfilled[d] \in BOOLEAN
      BY DEF DeferredInv, DeferredTypeOK
    <2> QED BY <2>1, OutcomesAreNotPending DEF FlagsFit, Status, GetResult, GetError
  <1> QED BY DeferredInitInv, DeferredStepInv, <1>1, PTL DEF DeferredSpec

---------------------------------------------------------------------------
(* Where records go: the inductive invariant.                              *)

Beginnings == [Tasks -> {<<>>} \cup (Tasks \X Contexts)]

SettingsOK ==
    /\ rootLevel \in LogLevels
    /\ overrides \in Seq([pattern : SUBSET Categories, level : LogLevels])
    /\ appenders \in Seq(LogAppenders)
    /\ DOMAIN loggers \subseteq Categories
    /\ \A k \in DOMAIN loggers : loggers[k].level \in LogLevels \cup {NoLevel} /\ loggers[k].own \in Seq(LogAppenders)

RoutingTypeOK ==
    /\ SettingsOK
    /\ contexts \in [Tasks -> Seq(Contexts)]
    /\ parent \in Beginnings

\* Tasks begin once, and are begun by those that have.
BegunByRunning ==
    \A t \in Tasks :
        /\ contexts[t] = <<>> => parent[t] = <<>>
        /\ parent[t] # <<>> => Running(parent[t][1])

\* A task is in the contexts it was begun in, and in no other.
InContextsEntered == \A t \in Tasks : ToSet(contexts[t]) = Entered(t)

RoutingInv == RoutingTypeOK /\ BegunByRunning /\ InContextsEntered

---------------------------------------------------------------------------
(* Who began whom.                                                         *)

\* S has who began each of its members.
Lineage(S, began) == \A u \in S : began[u] # <<>> => began[u][1] \in S

LEMMA ForebearsAreLeast ==
    ASSUME NEW began \in Beginnings, NEW t \in Tasks
    PROVE  /\ Forebears(t, began) \in SUBSET Tasks /\ t \in Forebears(t, began)
           /\ Lineage(Forebears(t, began), began)
           /\ \A S \in SUBSET Tasks : t \in S /\ Lineage(S, began) => Forebears(t, began) \subseteq S
  <1> DEFINE F == Forebears(t, began)
  <1>1. F = {v \in Tasks : \A S \in SUBSET Tasks : t \in S /\ Lineage(S, began) => v \in S}
    BY DEF Forebears, Lineage
  <1> HIDE DEF F
  <1>2. ASSUME NEW u \in F, began[u] # <<>> PROVE began[u][1] \in F
    <2>1. began[u][1] \in Tasks
      BY <1>1, <1>2 DEF Beginnings
    <2>2. ASSUME NEW S \in SUBSET Tasks, t \in S, Lineage(S, began) PROVE began[u][1] \in S
      BY <1>1, <1>2, <2>2 DEF Lineage
    <2> QED BY <1>1, <2>1, <2>2
  <1> QED BY <1>1, <1>2 DEF Lineage, F

\* A task that is begun adds itself to the forebears of its own only: nobody
\* has begun another before.
Begins(t, child, old, new) ==
    /\ t # child /\ old[child] = <<>>
    /\ \E context \in Contexts : new = [old EXCEPT ![child] = <<t, context>>]
    /\ \A u \in Tasks : old[u] # <<>> => old[u][1] # child

LEMMA ForebearsGrow ==
    ASSUME NEW old \in Beginnings, NEW new \in Beginnings,
           NEW t \in Tasks, NEW child \in Tasks, Begins(t, child, old, new)
    PROVE  /\ \A u \in Tasks \ {child} : Forebears(u, new) = Forebears(u, old) /\ child \notin Forebears(u, old)
           /\ Forebears(child, new) = {child} \cup Forebears(t, old)
  <1>0. t # child /\ old[child] = <<>> /\ \A u \in Tasks : old[u] # <<>> => old[u][1] # child
    BY DEF Begins
  <1>1. PICK context \in Contexts :
            new[child] = <<t, context>> /\ \A u \in Tasks \ {child} : new[u] = old[u]
    BY DEF Begins, Beginnings
  <1>2. \A S \in SUBSET Tasks : Lineage(S, new) => Lineage(S, old) /\ (child \in S => t \in S)
    BY <1>0, <1>1 DEF Lineage
  <1>3. \A S \in SUBSET Tasks : Lineage(S, old) /\ (child \in S => t \in S) => Lineage(S, new)
    BY <1>0, <1>1 DEF Lineage
  <1>4. Lineage(Tasks \ {child}, old)
    BY <1>0 DEF Lineage, Beginnings
  <1>5. ASSUME NEW u \in Tasks \ {child}
        PROVE  Forebears(u, new) = Forebears(u, old) /\ child \notin Forebears(u, old)
    <2>1. child \notin Forebears(u, old)
      <3>1. Tasks \ {child} \in SUBSET Tasks /\ u \in Tasks
        OBVIOUS
      <3>2. Forebears(u, old) \subseteq Tasks \ {child}
        BY <1>4, <3>1, ForebearsAreLeast
      <3> QED BY <3>2
    <2>2. /\ Forebears(u, old) \in SUBSET Tasks /\ u \in Forebears(u, old)
          /\ Lineage(Forebears(u, old), old)
      BY ForebearsAreLeast
    <2>3. Forebears(u, new) \in SUBSET Tasks /\ u \in Forebears(u, new) /\ Lineage(Forebears(u, new), new)
      BY ForebearsAreLeast
    <2>4. Lineage(Forebears(u, old), new) /\ Lineage(Forebears(u, new), old)
      BY <1>2, <1>3, <2>1, <2>2, <2>3
    <2>5. Forebears(u, new) \subseteq Forebears(u, old)
      BY <2>2, <2>4, ForebearsAreLeast
    <2>6. Forebears(u, old) \subseteq Forebears(u, new)
      BY <2>3, <2>4, ForebearsAreLeast
    <2> QED BY <2>1, <2>5, <2>6
  <1>6. Forebears(child, new) = {child} \cup Forebears(t, old)
    <2> DEFINE F == {child} \cup Forebears(t, old)
               G == Forebears(child, new)
    <2>1. /\ Forebears(t, old) \in SUBSET Tasks /\ t \in Forebears(t, old)
          /\ Lineage(Forebears(t, old), old)
      BY ForebearsAreLeast
    <2>2. F \in SUBSET Tasks /\ child \in F /\ Lineage(F, new)
      <3>1. Lineage(F, old)
        BY <1>0, <2>1 DEF Lineage
      <3> QED BY <1>3, <2>1, <3>1
    <2>3. G \in SUBSET Tasks /\ child \in G /\ Lineage(G, new)
      BY ForebearsAreLeast
    <2>4. t \in G /\ Lineage(G, old)
      BY <1>2, <2>3
    <2> HIDE DEF G
    <2>5. Forebears(t, old) \subseteq G
      BY <2>3, <2>4, ForebearsAreLeast
    <2>6. G \subseteq F
      BY <2>2, ForebearsAreLeast DEF G
    <2> QED BY <2>3, <2>5, <2>6 DEF G
  <1> QED BY <1>5, <1>6

---------------------------------------------------------------------------
(* Every step.                                                             *)

LEMMA RoutingStarts == RoutingInit => RoutingInv
  <1> SUFFICES ASSUME RoutingInit PROVE RoutingInv
    OBVIOUS
  <1>1. /\ contexts = [t \in Tasks |-> <<>>] /\ parent = [t \in Tasks |-> <<>>]
        /\ rootLevel \in LogLevels /\ overrides = <<>> /\ appenders = <<>> /\ loggers = <<>>
    BY DEF RoutingInit
  <1>2. RoutingTypeOK
    <2>1. parent \in Beginnings
      BY <1>1 DEF Beginnings
    <2>2. DOMAIN loggers = {}
      BY <1>1
    <2> QED BY <1>1, <2>1, <2>2 DEF RoutingTypeOK, SettingsOK
  <1>3. \A t \in Tasks : Entered(t) = {} /\ ToSet(contexts[t]) = {}
    <2> TAKE t \in Tasks
    <2>1. Forebears(t, parent) \in SUBSET Tasks
      BY <1>2, ForebearsAreLeast DEF RoutingTypeOK
    <2> QED BY <1>1, <2>1 DEF Entered, ToSet
  <1> QED BY <1>1, <1>2, <1>3 DEF RoutingInv, BegunByRunning, InContextsEntered

\* What changes neither a task's contexts nor who began it.
LEMMA SettingsKeep ==
    ASSUME RoutingInv, UNCHANGED <<contexts, parent>>, RoutingTypeOK'
    PROVE  RoutingInv'
  <1>1. contexts' = contexts /\ parent' = parent
    OBVIOUS
  <1>2. BegunByRunning'
    BY <1>1 DEF RoutingInv, BegunByRunning, Running
  <1>3. InContextsEntered'
    BY <1>1 DEF RoutingInv, InContextsEntered, Entered
  <1> QED BY <1>2, <1>3 DEF RoutingInv

LEMMA RunInContextKeeps ==
    ASSUME RoutingInv, NEW t \in Tasks, NEW child \in Tasks, NEW context \in Contexts,
           RunInContext(t, child, context)
    PROVE  RoutingInv'
  <1> DEFINE q == contexts[t]
             new == IF context \in ToSet(q) THEN q ELSE Append(q, context)
  <1>1. /\ contexts' = [contexts EXCEPT ![child] = new] /\ Running(t)
        /\ parent' = [parent EXCEPT ![child] = <<t, context>>]
        /\ child # Main /\ contexts[child] = <<>>
        /\ rootLevel' = rootLevel /\ overrides' = overrides /\ appenders' = appenders /\ loggers' = loggers
    BY DEF RunInContext, settings
  <1>2. /\ RoutingTypeOK /\ BegunByRunning /\ InContextsEntered /\ parent \in Beginnings
        /\ contexts \in [Tasks -> Seq(Contexts)]
    BY DEF RoutingInv, RoutingTypeOK
  <1>3. q \in Seq(Contexts) /\ new \in Seq(Contexts) /\ new # <<>> /\ ToSet(new) = ToSet(q) \cup {context}
    <2>1. q \in Seq(Contexts)
      BY <1>2
    <2> HIDE DEF q
    <2>2. CASE context \in ToSet(q)
      BY <2>1, <2>2 DEF ToSet
    <2>3. CASE context \notin ToSet(q)
      <3> DEFINE longer == Append(q, context)
      <3>1. /\ longer \in Seq(Contexts) /\ DOMAIN longer = 1..Len(q) + 1 /\ DOMAIN q = 1..Len(q)
            /\ longer[Len(q) + 1] = context /\ \A i \in 1..Len(q) : longer[i] = q[i]
            /\ Len(q) \in Nat /\ longer # <<>>
        BY <2>1
      <3> HIDE DEF longer
      <3>2. ToSet(longer) = ToSet(q) \cup {context}
        <4>1. ASSUME NEW i \in DOMAIN longer PROVE longer[i] \in ToSet(q) \cup {context}
          <5>1. CASE i = Len(q) + 1
            BY <3>1, <5>1
          <5>2. CASE i # Len(q) + 1
            <6>1. i \in 1..Len(q)
              BY <3>1, <5>2
            <6> QED BY <3>1, <6>1 DEF ToSet
          <5> QED BY <5>1, <5>2
        <4>2. ASSUME NEW i \in DOMAIN q PROVE q[i] \in ToSet(longer)
          <5>1. i \in DOMAIN longer /\ longer[i] = q[i]
            BY <3>1
          <5> QED BY <5>1 DEF ToSet
        <4>3. context \in ToSet(longer)
          <5>1. Len(q) + 1 \in DOMAIN longer
            BY <3>1
          <5> QED BY <3>1, <5>1 DEF ToSet
        <4> QED BY <4>1, <4>2, <4>3 DEF ToSet
      <3> QED BY <2>1, <2>3, <3>1, <3>2 DEF longer
    <2> QED BY <2>2, <2>3
  <1> HIDE DEF new, q
  <1>4. parent' \in Beginnings /\ contexts' \in [Tasks -> Seq(Contexts)]
    <2>1. <<t, context>> \in Tasks \X Contexts
      OBVIOUS
    <2>2. parent' \in Beginnings
      BY <1>1, <1>2, <2>1 DEF Beginnings
    <2> QED BY <1>1, <1>2, <1>3, <2>2
  <1>5. RoutingTypeOK'
    <2>1. SettingsOK'
      BY <1>1, <1>2 DEF RoutingTypeOK, SettingsOK
    <2> QED BY <1>4, <2>1 DEF RoutingTypeOK
  <1>6. /\ parent[child] = <<>> /\ ~Running(child) /\ t # child
        /\ \A u \in Tasks : parent[u] # <<>> => parent[u][1] # child
    BY <1>1, <1>2 DEF BegunByRunning, Running
  <1>7. /\ contexts'[child] = new /\ \A u \in Tasks \ {child} : contexts'[u] = contexts[u]
        /\ parent'[child] = <<t, context>> /\ \A u \in Tasks \ {child} : parent'[u] = parent[u]
    BY <1>1, <1>2 DEF Beginnings
  <1>8. BegunByRunning'
    <2>1. \A u \in Tasks : Running(u) => Running(u)'
      BY <1>3, <1>7 DEF Running
    <2>2. \A u \in Tasks : parent[u] # <<>> => parent[u][1] \in Tasks
      BY <1>2 DEF Beginnings
    <2> QED BY <1>1, <1>2, <1>3, <1>7, <2>1, <2>2 DEF BegunByRunning
  <1>9. /\ \A u \in Tasks \ {child} : /\ Forebears(u, parent') = Forebears(u, parent)
                                     /\ child \notin Forebears(u, parent)
        /\ Forebears(child, parent') = {child} \cup Forebears(t, parent)
    <2>1. Begins(t, child, parent, parent')
      BY <1>1, <1>6 DEF Begins
    <2> QED BY <2>1, <1>2, <1>4, ForebearsGrow
  <1>10. \A u \in Tasks : Forebears(u, parent) \in SUBSET Tasks
    BY <1>2, ForebearsAreLeast
  <1>11. ASSUME NEW u \in Tasks
         PROVE  ToSet(contexts'[u]) = Entered(u)'
    <2>1. CASE u # child
      <3>1. Entered(u)' = Entered(u)
        BY <1>7, <1>9, <1>10, <2>1 DEF Entered
      <3> QED BY <1>2, <1>7, <2>1, <3>1 DEF InContextsEntered
    <2>2. CASE u = child
      <3>1. child \notin Forebears(t, parent)
        BY <1>6, <1>9
      <3>2. Entered(child)' = {context} \cup Entered(t)
        <4> DEFINE F == Forebears(t, parent)
        <4>1. F \in SUBSET Tasks /\ child \notin F
          BY <1>10, <3>1
        <4>2. Forebears(child, parent') = {child} \cup F
          BY <1>9
        <4> HIDE DEF F
        <4>3. <<t, context>> # <<>> /\ <<t, context>>[2] = context
          OBVIOUS
        <4>4. {v \in {child} \cup F : parent'[v] # <<>>} = {child} \cup {v \in F : parent[v] # <<>>}
          BY <1>7, <4>1, <4>3
        <4>5. {parent'[v][2] : v \in {child} \cup {w \in F : parent[w] # <<>>}} =
                  {context} \cup {parent[v][2] : v \in {w \in F : parent[w] # <<>>}}
          BY <1>7, <4>1, <4>3
        <4> QED BY <4>2, <4>4, <4>5 DEF Entered, F
      <3>3. ToSet(contexts'[child]) = ToSet(contexts[t]) \cup {context}
        BY <1>3, <1>7 DEF q
      <3> QED BY <1>2, <2>2, <3>2, <3>3 DEF InContextsEntered
    <2> QED BY <2>1, <2>2
  <1> QED BY <1>5, <1>8, <1>11 DEF RoutingInv, InContextsEntered

LEMMA SettingsStayOK ==
    ASSUME SettingsOK, RoutingNext
    PROVE  SettingsOK'
  <1> DEFINE Overrides == [pattern : SUBSET Categories, level : LogLevels]
  <1>1. /\ rootLevel \in LogLevels /\ appenders \in Seq(LogAppenders) /\ overrides \in Seq(Overrides)
        /\ DOMAIN loggers \subseteq Categories
        /\ \A k \in DOMAIN loggers :
               loggers[k].level \in LogLevels \cup {NoLevel} /\ loggers[k].own \in Seq(LogAppenders)
    BY DEF SettingsOK
  <1>2. \A a \in Given \cup {Console} : a \in LogAppenders /\ <<a>> \in Seq(LogAppenders)
    BY RoutingAssumption
  <1>3. ASSUME rootLevel' \in LogLevels, appenders' \in Seq(LogAppenders), overrides' \in Seq(Overrides),
               loggers' = loggers
        PROVE  SettingsOK'
    BY <1>1, <1>3 DEF SettingsOK
  <1>4. ASSUME NEW level \in LogLevels, SetRootLevel(level)
        PROVE  SettingsOK'
    BY <1>1, <1>3, <1>4 DEF SetRootLevel
  <1>5. ASSUME NEW a \in Given, NEW own \in BOOLEAN, SetAppenders(<<a>>, own)
        PROVE  SettingsOK'
    <2>1. appenders' \in Seq(LogAppenders)
      BY <1>2, <1>5 DEF SetAppenders
    <2> QED BY <1>1, <1>3, <1>5, <2>1 DEF SetAppenders
  <1>6. ASSUME NEW a \in Given, AddAppenders(<<a>>)
        PROVE  SettingsOK'
    <2>1. appenders' \in Seq(LogAppenders)
      <3>1. <<a>> \in Seq(LogAppenders) /\ appenders' = appenders \o <<a>>
        BY <1>2, <1>6 DEF AddAppenders
      <3> QED BY <1>1, <3>1
    <2> QED BY <1>1, <1>3, <1>6, <2>1 DEF AddAppenders
  <1>7. ASSUME NEW pattern \in SUBSET Categories, NEW level \in LogLevels,
               AddThresholdOverrides(pattern, level) \/ SetThresholdOverrides(pattern, level)
        PROVE  SettingsOK'
    <2> DEFINE o == [pattern |-> pattern, level |-> level]
    <2>1. overrides' = Append(overrides, o) \/ overrides' = <<o>>
      BY <1>7 DEF AddThresholdOverrides, SetThresholdOverrides
    <2>2. o \in Overrides
      OBVIOUS
    <2> HIDE DEF o, Overrides
    <2>3. overrides' \in Seq(Overrides)
      <3>1. Append(overrides, o) \in Seq(Overrides)
        BY <1>1, <2>2
      <3>2. <<o>> \in Seq(Overrides)
        BY <2>2
      <3> QED BY <2>1, <3>1, <3>2
    <2> QED BY <1>1, <1>3, <1>7, <2>3 DEF AddThresholdOverrides, SetThresholdOverrides
  <1>8. CASE ClearThresholdOverrides
    <2>1. overrides' \in Seq(Overrides)
      BY <1>8 DEF ClearThresholdOverrides
    <2> QED BY <1>1, <1>3, <1>8, <2>1 DEF ClearThresholdOverrides
  <1>9. ASSUME NEW k \in Categories, NEW own \in {<<>>} \cup {<<a>> : a \in Given}, GetLogger(k, own)
        PROVE  SettingsOK'
    <2>1. own \in Seq(LogAppenders)
      <3>1. <<>> \in Seq(LogAppenders)
        OBVIOUS
      <3>2. \A a \in Given : <<a>> \in Seq(LogAppenders)
        BY <1>2
      <3> QED BY <3>1, <3>2
    <2>2. /\ rootLevel' = rootLevel /\ appenders' = appenders /\ overrides' = overrides
          /\ loggers' = [l \in DOMAIN loggers \cup {k} |->
                            IF l = k THEN [level |-> NoLevel, own |-> own] ELSE loggers[l]]
      BY <1>9 DEF GetLogger
    <2> HIDE DEF Overrides
    <2>3. DOMAIN loggers' = DOMAIN loggers \cup {k}
      BY <2>2
    <2>4. \A l \in DOMAIN loggers' :
              loggers'[l].level \in LogLevels \cup {NoLevel} /\ loggers'[l].own \in Seq(LogAppenders)
      BY <1>1, <2>1, <2>2, <2>3
    <2>5. DOMAIN loggers' \subseteq Categories
      BY <1>1, <2>3
    <2> QED BY <1>1, <2>2, <2>4, <2>5 DEF SettingsOK, Overrides
  <1>10. ASSUME NEW k \in DOMAIN loggers, NEW level \in LogLevels \cup {NoLevel}, SetOverrideLevel(k, level)
         PROVE  SettingsOK'
    <2> DEFINE logger == loggers[k]
               set == [logger EXCEPT !.level = level]
    <2>1. /\ rootLevel' = rootLevel /\ appenders' = appenders /\ overrides' = overrides
          /\ loggers' = [loggers EXCEPT ![k] = set]
      BY <1>10 DEF SetOverrideLevel
    <2> HIDE DEF Overrides
    <2>2. DOMAIN loggers' = DOMAIN loggers
      BY <2>1
    <2>3. set.level = level /\ set.own = logger.own
      OBVIOUS
    <2>4. \A l \in DOMAIN loggers' :
              loggers'[l].level \in LogLevels \cup {NoLevel} /\ loggers'[l].own \in Seq(LogAppenders)
      <3> HIDE DEF set
      <3> QED BY <1>1, <2>1, <2>2, <2>3
    <2> QED BY <1>1, <2>1, <2>2, <2>4 DEF SettingsOK, Overrides
  <1>11. ASSUME NEW t \in Tasks, NEW child \in Tasks, NEW c \in Contexts, RunInContext(t, child, c)
         PROVE  SettingsOK'
    BY <1>1, <1>3, <1>11 DEF RunInContext, settings
  <1>12. ASSUME NEW t \in Tasks, NEW k \in Categories, NEW level \in LogLevels, NEW direct \in BOOLEAN,
                Log(t, k, level, direct)
         PROVE  SettingsOK'
    <2>1. appenders' \in Seq(LogAppenders)
      BY <1>1, <1>2, <1>12 DEF Log, WithConsole
    <2> QED BY <1>1, <1>3, <1>12, <2>1 DEF Log
  <1> QED BY <1>4, <1>5, <1>6, <1>7, <1>8, <1>9, <1>10, <1>11, <1>12 DEF RoutingNext

LEMMA RoutingStays == RoutingInv /\ [RoutingNext]_routing => RoutingInv'
  <1> SUFFICES ASSUME RoutingInv, [RoutingNext]_routing PROVE RoutingInv'
    OBVIOUS
  <1>1. ASSUME UNCHANGED <<contexts, parent>>, SettingsOK'
        PROVE  RoutingInv'
    <2>1. RoutingTypeOK'
      BY <1>1 DEF RoutingInv, RoutingTypeOK
    <2> QED BY <1>1, <2>1, SettingsKeep
  <1>2. CASE UNCHANGED routing
    <2>1. SettingsOK' /\ UNCHANGED <<contexts, parent>>
      BY <1>2 DEF routing, settings, RoutingInv, RoutingTypeOK, SettingsOK
    <2> QED BY <1>1, <2>1
  <1>3. ASSUME RoutingNext
        PROVE  RoutingInv'
    <2>1. SettingsOK'
      BY <1>3, SettingsStayOK DEF RoutingInv, RoutingTypeOK
    <2>2. UNCHANGED <<contexts, parent>> \/ \E t, child \in Tasks, c \in Contexts : RunInContext(t, child, c)
      BY <1>3 DEF RoutingNext, Changed, SetRootLevel, SetAppenders, AddAppenders, AddThresholdOverrides,
                  SetThresholdOverrides, ClearThresholdOverrides, GetLogger, SetOverrideLevel, Log
    <2> QED BY <1>1, <2>1, <2>2, RunInContextKeeps
  <1> QED BY <1>2, <1>3

---------------------------------------------------------------------------
(* One appender after the other, until one throws.                         *)

Threw(seq) == {n \in DOMAIN seq : seq[n] \in Throwing}

LEMMA LeastIsMin ==
    ASSUME NEW T \in SUBSET Nat, T # {}
    PROVE  Min(T) \in T /\ \A n \in T : Min(T) <= n
  BY LeastNumber DEF Min

\* How many appenders are reached: all those before the first that throws.
ReachedCount(seq) == IF Threw(seq) = {} THEN Len(seq) ELSE Min(Threw(seq)) - 1

LEMMA ReachedIsBefore ==
    ASSUME NEW S, NEW seq \in Seq(S)
    PROVE  /\ ReachedCount(seq) \in 0..Len(seq)
           /\ Reached(seq) = SubSeq(seq, 1, ReachedCount(seq))
           /\ Reached(seq) \in Seq(S)
           /\ Len(Reached(seq)) = ReachedCount(seq)
           /\ \A n \in 1..ReachedCount(seq) : Reached(seq)[n] = seq[n] /\ seq[n] \notin Throwing
           /\ ReachedCount(seq) < Len(seq) => seq[ReachedCount(seq) + 1] \in Throwing
  <1>1. DOMAIN seq = 1..Len(seq) /\ Len(seq) \in Nat
    OBVIOUS
  <1>2. Reached(seq) = SubSeq(seq, 1, ReachedCount(seq))
    BY DEF Reached, ReachedCount, Threw
  <1>3. /\ ReachedCount(seq) \in 0..Len(seq)
        /\ \A n \in 1..ReachedCount(seq) : seq[n] \notin Throwing
        /\ ReachedCount(seq) < Len(seq) => seq[ReachedCount(seq) + 1] \in Throwing
    <2>1. CASE Threw(seq) = {}
      <3>1. ReachedCount(seq) = Len(seq)
        BY <2>1 DEF ReachedCount
      <3> QED BY <1>1, <2>1, <3>1 DEF Threw
    <2>2. CASE Threw(seq) # {}
      <3>1. Threw(seq) \in SUBSET Nat
        BY <1>1 DEF Threw
      <3>2. Min(Threw(seq)) \in Threw(seq) /\ \A n \in Threw(seq) : Min(Threw(seq)) <= n
        BY <2>2, <3>1, LeastIsMin
      <3> DEFINE m == Min(Threw(seq))
      <3>3. ReachedCount(seq) = m - 1
        BY <2>2 DEF ReachedCount
      <3>4. m \in 1..Len(seq) /\ seq[m] \in Throwing
        BY <1>1, <3>2 DEF Threw
      <3>5. \A n \in 1..Len(seq) : seq[n] \in Throwing => m <= n
        BY <1>1, <3>2 DEF Threw
      <3> HIDE DEF m
      <3>6. ASSUME NEW n \in 1..ReachedCount(seq) PROVE seq[n] \notin Throwing
        BY <1>1, <3>3, <3>4, <3>5
      <3>7. ReachedCount(seq) \in 0..Len(seq) /\ ReachedCount(seq) + 1 = m
        BY <1>1, <3>3, <3>4
      <3> QED BY <3>4, <3>6, <3>7
    <2> QED BY <2>1, <2>2
  <1> DEFINE n == ReachedCount(seq)
  <1>4. n \in 0..Len(seq)
    BY <1>3
  <1> HIDE DEF n
  <1>5. /\ SubSeq(seq, 1, n) \in Seq(S) /\ Len(SubSeq(seq, 1, n)) = n
        /\ \A i \in 1..n : SubSeq(seq, 1, n)[i] = seq[i]
    BY <1>1, <1>4
  <1> QED BY <1>2, <1>3, <1>5 DEF n

\* None of those reached throws, and all are among those there are.
LEMMA NoneReachedThrows ==
    ASSUME NEW S, NEW seq \in Seq(S)
    PROVE  ToSet(Reached(seq)) \cap Throwing = {} /\ ToSet(Reached(seq)) \subseteq ToSet(seq)
  <1>1. ASSUME NEW i \in DOMAIN Reached(seq)
        PROVE  Reached(seq)[i] \notin Throwing /\ Reached(seq)[i] \in ToSet(seq)
    <2>1. i \in 1..ReachedCount(seq) /\ i \in DOMAIN seq
      BY <1>1, ReachedIsBefore
    <2>2. Reached(seq)[i] = seq[i] /\ seq[i] \notin Throwing
      BY <2>1, ReachedIsBefore
    <2> QED BY <2>1, <2>2 DEF ToSet
  <1> QED BY <1>1 DEF ToSet

LEMMA AllReached ==
    ASSUME NEW S, NEW seq \in Seq(S), ToSet(seq) \cap Throwing = {}
    PROVE  ToSet(Reached(seq)) = ToSet(seq)
  <1>1. Threw(seq) = {}
    BY DEF Threw, ToSet
  <1>2. Reached(seq) = seq
    <2>1. ReachedCount(seq) = Len(seq)
      BY <1>1 DEF ReachedCount
    <2> QED BY <2>1, ReachedIsBefore
  <1> QED BY <1>2

\* More appenders behind those there are take nothing from them.
LEMMA FirstStillReached ==
    ASSUME NEW S, NEW a \in Seq(S), NEW b \in Seq(S)
    PROVE  IsPrefix(Reached(a), Reached(a \o b))
  <1> DEFINE c == a \o b
             n == ReachedCount(a)
             m == ReachedCount(c)
             p == Reached(a)
             q == Reached(c)
  <1>1. /\ c \in Seq(S) /\ Len(c) = Len(a) + Len(b) /\ Len(a) \in Nat /\ Len(b) \in Nat
        /\ \A i \in 1..Len(a) : c[i] = a[i]
    OBVIOUS
  <1>2. /\ n \in 0..Len(a) /\ p \in Seq(S) /\ Len(p) = n
        /\ \A i \in 1..n : p[i] = a[i] /\ a[i] \notin Throwing
        /\ n < Len(a) => a[n + 1] \in Throwing
    BY ReachedIsBefore
  <1> HIDE DEF c
  <1>3. /\ m \in 0..Len(c) /\ q \in Seq(S) /\ Len(q) = m
        /\ \A i \in 1..m : q[i] = c[i] /\ c[i] \notin Throwing
        /\ m < Len(c) => c[m + 1] \in Throwing
    BY <1>1, ReachedIsBefore
  <1> HIDE DEF n, m, p, q
  <1>4. n <= m
    <2> SUFFICES ASSUME m < n PROVE FALSE
      BY <1>2, <1>3
    <2>1. m + 1 \in 1..n /\ m < Len(c) /\ m + 1 \in 1..Len(a)
      BY <1>1, <1>2, <1>3
    <2> QED BY <1>1, <1>2, <1>3, <2>1
  <1>5. \A i \in 1..n : p[i] = q[i]
    <2> TAKE i \in 1..n
    <2>1. i \in 1..m /\ i \in 1..Len(a)
      BY <1>1, <1>2, <1>3, <1>4
    <2> QED BY <1>1, <1>2, <1>3, <2>1
  <1>6. p = SubSeq(q, 1, n)
    <2> DEFINE r == SubSeq(q, 1, n)
    <2>1. n \in 0..m /\ m \in Nat /\ n \in Nat
      BY <1>2, <1>3, <1>4
    <2>2. r \in Seq(S) /\ Len(r) = n /\ \A i \in 1..n : r[i] = q[i]
      BY <1>3, <2>1
    <2> HIDE DEF r
    <2>3. \A i \in 1..n : p[i] = r[i]
      BY <1>5, <2>2
    <2>4. p = r
      BY <1>2, <2>1, <2>2, <2>3
    <2> QED BY <2>4 DEF r
  <1>7. DOMAIN p = 1..n /\ DOMAIN q = 1..m
    BY <1>2, <1>3
  <1> QED BY <1>2, <1>3, <1>4, <1>5, <1>6, <1>7 DEF IsPrefix, p, q, c

---------------------------------------------------------------------------
(* Who gets a record.                                                      *)

\* The contexts that apply to a category, and what they add.
Applying(t, k) == {c \in Entered(t) : k \in c.pattern}
Adding(t, k) == UNION {ToSet(c.appenders) : c \in Applying(t, k)}

LEMMA ContextsApply ==
    ASSUME RoutingInv, NEW t \in Tasks, NEW k
    PROVE  /\ GetApplicableCurrentContexts(t, k) \in Seq(Contexts)
           /\ ToSet(GetApplicableCurrentContexts(t, k)) = Applying(t, k)
           /\ Applying(t, k) \subseteq Contexts
  <1> DEFINE q == contexts[t]
             T == {c \in Contexts : k \in c.pattern}
             cs == Selected(q, T)
  <1>1. q \in Seq(Contexts) /\ ToSet(q) = Entered(t)
    BY DEF RoutingInv, RoutingTypeOK, InContextsEntered
  <1>2. GetApplicableCurrentContexts(t, k) = cs
    BY DEF GetApplicableCurrentContexts
  <1> HIDE DEF q, T
  <1>3. cs \in Seq(Contexts \cap T) /\ ValuesOf(cs) = ValuesOf(q) \cap T
    BY <1>1, SelectedRange
  <1> HIDE DEF cs
  <1>4. ToSet(q) \subseteq Contexts
    BY <1>1 DEF ToSet
  <1>5. ToSet(cs) = ToSet(q) \cap T
    BY <1>3 DEF ToSet, ValuesOf
  <1>6. cs \in Seq(Contexts)
    BY <1>3
  <1> QED BY <1>1, <1>2, <1>4, <1>5, <1>6 DEF T, Applying

LEMMA ContextsAdd ==
    ASSUME RoutingInv, NEW t \in Tasks, NEW k
    PROVE  /\ ContextAppenders(t, k) \in Seq(LogAppenders)
           /\ ToSet(ContextAppenders(t, k)) = Adding(t, k)
  <1> DEFINE cs == GetApplicableCurrentContexts(t, k)
             lists == [n \in DOMAIN cs |-> cs[n].appenders]
             flat == FlattenSeq(lists)
  <1>1. cs \in Seq(Contexts) /\ ToSet(cs) = Applying(t, k)
    BY ContextsApply
  <1>2. ContextAppenders(t, k) = flat
    BY DEF ContextAppenders
  <1> HIDE DEF cs
  <1>3. lists \in Seq(Seq(LogAppenders))
    <2>1. \A n \in 1..Len(cs) : cs[n] \in Contexts /\ cs[n].appenders \in Seq(LogAppenders)
      BY <1>1, RoutingAssumption
    <2>2. DOMAIN cs = 1..Len(cs) /\ Len(cs) \in Nat
      BY <1>1
    <2> QED BY <2>1, <2>2
  <1>4. DOMAIN lists = DOMAIN cs /\ \A n \in DOMAIN cs : lists[n] = cs[n].appenders
    OBVIOUS
  <1> HIDE DEF lists
  <1>5. flat \in Seq(LogAppenders) /\ ValuesOf(flat) = UNION {ValuesOf(lists[n]) : n \in DOMAIN lists}
    BY <1>3, FlattenRange
  <1> HIDE DEF flat
  <1>6. UNION {ValuesOf(lists[n]) : n \in DOMAIN lists} = Adding(t, k)
    <2>1. {ValuesOf(lists[n]) : n \in DOMAIN lists} = {ToSet(c.appenders) : c \in ToSet(cs)}
      BY <1>4 DEF ToSet, ValuesOf
    <2> QED BY <1>1, <2>1 DEF Adding
  <1>7. ToSet(flat) = ValuesOf(flat)
    BY DEF ToSet, ValuesOf
  <1> QED BY <1>2, <1>5, <1>6, <1>7

LEMMA ThresholdsAreLevels ==
    ASSUME RoutingInv, NEW t \in Tasks, NEW k
    PROVE  /\ DetermineThresholdOverride(t, k) \subseteq LogLevels
           /\ \A c \in Applying(t, k) : c.level # NoLevel => c.level \in DetermineThresholdOverride(t, k)
  <1> DEFINE T == {o \in ToSet(overrides) : k \in o.pattern}
             matching == Selected(overrides, T)
             ofContexts == {c.level : c \in ToSet(GetApplicableCurrentContexts(t, k))} \ {NoLevel}
             ofFirst == {matching[n].level : n \in DOMAIN matching \cap {1}}
             Overrides == [pattern : SUBSET Categories, level : LogLevels]
  <1>1. DetermineThresholdOverride(t, k) = ofFirst \cup ofContexts
    BY DEF DetermineThresholdOverride
  <1>2. overrides \in Seq(Overrides)
    BY DEF RoutingInv, RoutingTypeOK, SettingsOK
  <1>3. ofFirst \subseteq LogLevels
    <2>0. Overrides = Overrides
      OBVIOUS
    <2> HIDE DEF T, Overrides
    <2>1. matching \in Seq(Overrides \cap T)
      BY <1>2, SelectedRange
    <2> HIDE DEF matching
    <2>2. \A n \in DOMAIN matching : matching[n] \in Overrides
      BY <2>1
    <2>3. \A o \in Overrides : o.level \in LogLevels
      BY DEF Overrides
    <2> QED BY <2>2, <2>3
  <1>4. ofContexts = {c.level : c \in Applying(t, k)} \ {NoLevel}
    BY ContextsApply
  <1>5. \A c \in Applying(t, k) : c.level \in LogLevels \cup {NoLevel}
    BY ContextsApply, RoutingAssumption
  <1> HIDE DEF ofFirst, ofContexts
  <1> QED BY <1>1, <1>3, <1>4, <1>5

\* What the root level or that of a context admits is logged, unless the logger
\* has a level of its own.
LEMMA AdmittedIsEnabled ==
    ASSUME RoutingInv, NEW t \in Tasks, NEW k \in DOMAIN loggers, NEW level \in LogLevels,
           loggers[k].level = NoLevel,
           level >= rootLevel \/ \E c \in Applying(t, k) : c.level # NoLevel /\ level >= c.level
    PROVE  IsEnabled(t, k, level)
  <1> DEFINE T == {rootLevel} \cup DetermineThresholdOverride(t, k)
  <1>1. rootLevel \in LogLevels /\ T \in SUBSET Nat /\ T # {}
    BY ThresholdsAreLevels, RoutingAssumption DEF RoutingInv, RoutingTypeOK, SettingsOK
  <1>2. \E n \in T : level >= n
    BY ThresholdsAreLevels
  <1>3. IsEnabled(t, k, level) <=> level >= Min(T)
    BY DEF IsEnabled
  <1> HIDE DEF T
  <1>4. Min(T) \in T /\ \A n \in T : Min(T) <= n
    BY <1>1, LeastIsMin
  <1>5. level \in Nat
    BY RoutingAssumption
  <1>6. level >= Min(T)
    <2> DEFINE least == Min(T)
    <2>1. PICK n \in T : level >= n
      BY <1>2
    <2>2. least \in Nat /\ n \in Nat /\ least <= n
      BY <1>1, <1>4
    <2> HIDE DEF least
    <2>3. level >= least
      BY <1>5, <2>1, <2>2
    <2> QED BY <2>3 DEF least
  <1> QED BY <1>3, <1>6

LEMMA RecordIsRouted ==
    ASSUME RoutingInv, NEW t \in Tasks, NEW k \in DOMAIN loggers, NEW level \in LogLevels, NEW direct \in BOOLEAN
    PROVE  LET logger == loggers[k]
               reached == ToSet(Delivered(t, k, level, direct))
               all == ToSet(WithConsole) \cup Adding(t, k)
           IN  /\ reached \cap Throwing = {}
               /\ logger.own # <<>> => reached \subseteq ToSet(logger.own)
               /\ logger.own = <<>> =>
                      /\ reached \subseteq all
                      /\ logger.level = NoLevel /\ level >= rootLevel =>
                             IsPrefix(Reached(appenders), Delivered(t, k, level, direct))
                      /\ all \cap Throwing = {} /\ logger.level = NoLevel =>
                             \A c \in Applying(t, k) : c.level # NoLevel /\ level >= c.level =>
                                 ToSet(c.appenders) \subseteq reached
               /\ logger.level # NoLevel /\ ~direct /\ level < logger.level => reached = {}
  <1> DEFINE own == loggers[k].own
             ownLevel == loggers[k].level
             delivered == Delivered(t, k, level, direct)
             goes == direct \/ IsEnabled(t, k, level)
             added == ContextAppenders(t, k)
             both == WithConsole \o added
  <1>1. /\ own \in Seq(LogAppenders) /\ ownLevel \in LogLevels \cup {NoLevel}
        /\ appenders \in Seq(LogAppenders) /\ rootLevel \in LogLevels
    BY DEF RoutingInv, RoutingTypeOK, SettingsOK
  <1>2. added \in Seq(LogAppenders) /\ ToSet(added) = Adding(t, k)
    BY ContextsAdd
  <1>3. WithConsole \in Seq(LogAppenders)
    <2>1. <<Console>> \in Seq(LogAppenders)
      BY RoutingAssumption
    <2> QED BY <1>1, <2>1 DEF WithConsole
  <1>4. delivered = IF ~goes THEN <<>> ELSE Reached(IF own # <<>> THEN own ELSE both)
    BY DEF Delivered
  <1>5. goes \/ (~direct /\ ~IsEnabled(t, k, level))
    OBVIOUS
  <1>6. ownLevel # NoLevel => (IsEnabled(t, k, level) <=> level >= ownLevel)
    BY DEF IsEnabled
  <1>7. ownLevel = NoLevel /\ (level >= rootLevel \/ \E c \in Applying(t, k) : c.level # NoLevel /\ level >= c.level)
            => goes
    BY AdmittedIsEnabled
  <1>8. ownLevel # NoLevel /\ ~direct /\ level < ownLevel => ~goes
    <2> SUFFICES ASSUME ownLevel # NoLevel, ~direct, level < ownLevel PROVE ~IsEnabled(t, k, level)
      OBVIOUS
    <2> HIDE DEF ownLevel
    <2>1. ownLevel \in LogLevels
      BY <1>1
    <2>2. ownLevel \in Nat /\ level \in Nat
      BY <2>1, RoutingAssumption
    <2>3. ~(level >= ownLevel)
      BY <2>2
    <2> QED BY <1>6, <2>3
  <1> HIDE DEF own, ownLevel, delivered, goes, added
  <1>9. /\ both \in Seq(LogAppenders)
        /\ ToSet(both) = ToSet(WithConsole) \cup Adding(t, k)
    <2>1. both \in Seq(LogAppenders)
      BY <1>2, <1>3
    <2>2. ValuesOf(both) = ValuesOf(WithConsole) \cup ValuesOf(added)
      BY <1>2, <1>3, ValuesOfBoth
    <2>3. ValuesOf(both) = ToSet(both) /\ ValuesOf(WithConsole) = ToSet(WithConsole) /\ ValuesOf(added) = ToSet(added)
      BY DEF ValuesOf, ToSet
    <2> QED BY <1>2, <2>1, <2>2, <2>3
  <1>10. IsPrefix(Reached(appenders), Reached(both))
    <2>1. CASE appenders = <<>>
      <3>1. Reached(appenders) \in Seq(LogAppenders) /\ Len(Reached(appenders)) = 0
        <4>1. Len(appenders) = 0
          BY <2>1
        <4>2. ReachedCount(appenders) \in 0..Len(appenders)
          BY <1>1, ReachedIsBefore
        <4>3. ReachedCount(appenders) = 0
          BY <4>1, <4>2
        <4> QED BY <1>1, <4>3, ReachedIsBefore
      <3>2. Reached(both) \in Seq(LogAppenders)
        BY <1>9, ReachedIsBefore
      <3> QED BY <3>1, <3>2 DEF IsPrefix
    <2>2. CASE appenders # <<>>
      <3>1. WithConsole = appenders
        BY <2>2 DEF WithConsole
      <3> QED BY <1>1, <1>2, <3>1, FirstStillReached
    <2> QED BY <2>1, <2>2
  <1> HIDE DEF both
  <1>11. /\ ToSet(Reached(own)) \cap Throwing = {} /\ ToSet(Reached(own)) \subseteq ToSet(own)
         /\ ToSet(Reached(both)) \cap Throwing = {} /\ ToSet(Reached(both)) \subseteq ToSet(both)
    BY <1>1, <1>9, NoneReachedThrows
  <1>12. ToSet(both) \cap Throwing = {} => ToSet(Reached(both)) = ToSet(both)
    BY <1>9, AllReached
  <1>13. ToSet(<<>>) = {}
    BY DEF ToSet
  <1>14. /\ ToSet(delivered) \cap Throwing = {}
         /\ own # <<>> => ToSet(delivered) \subseteq ToSet(own)
         /\ own = <<>> => ToSet(delivered) \subseteq ToSet(both)
         /\ ~goes => ToSet(delivered) = {}
         /\ goes /\ own = <<>> => delivered = Reached(both)
    <2>1. CASE ~goes
      BY <1>4, <1>13, <2>1
    <2>2. CASE goes /\ own # <<>>
      BY <1>4, <1>11, <2>2
    <2>3. CASE goes /\ own = <<>>
      BY <1>4, <1>11, <2>3
    <2> QED BY <2>1, <2>2, <2>3
  <1>15. \A c \in Applying(t, k) : ToSet(c.appenders) \subseteq Adding(t, k)
    BY DEF Adding
  <1>16. own = <<>> /\ ownLevel = NoLevel /\ level >= rootLevel => IsPrefix(Reached(appenders), delivered)
    BY <1>7, <1>10, <1>14
  <1>17. own = <<>> /\ ToSet(both) \cap Throwing = {} /\ ownLevel = NoLevel =>
             \A c \in Applying(t, k) : c.level # NoLevel /\ level >= c.level => ToSet(c.appenders) \subseteq ToSet(delivered)
    BY <1>7, <1>9, <1>12, <1>14, <1>15
  <1> QED BY <1>8, <1>9, <1>14, <1>16, <1>17 DEF own, ownLevel, delivered

(***************************************************************************)
(* Contexts and overrides only add to what is logged: whoever the root     *)
(* level lets log reaches the manager's appenders, and beyond them those   *)
(* of the contexts its own task was begun in and of no other.              *)
(***************************************************************************)
THEOREM RecordsAreAlwaysRouted == RoutingSpec => []RecordsAreRouted
  <1>1. RoutingInv => RecordsAreRouted
    <2> SUFFICES ASSUME RoutingInv,
                        NEW t \in {u \in Tasks : Running(u)}, NEW k \in DOMAIN loggers,
                        NEW level \in LogLevels, NEW direct \in BOOLEAN
                 PROVE  LET logger == loggers[k]
                            mine == {c \in Entered(t) : k \in c.pattern}
                            delivered == Delivered(t, k, level, direct)
                            reached == ToSet(delivered)
                        IN  /\ reached \cap Throwing = {}
                            /\ logger.own # <<>> => reached \subseteq ToSet(logger.own)
                            /\ logger.own = <<>> =>
                                   /\ reached \subseteq
                                          ToSet(WithConsole) \cup UNION {ToSet(c.appenders) : c \in mine}
                                   /\ logger.level = NoLevel /\ level >= rootLevel =>
                                          IsPrefix(Reached(appenders), delivered)
                                   /\ (ToSet(WithConsole) \cup UNION {ToSet(c.appenders) : c \in mine})
                                          \cap Throwing = {} /\ logger.level = NoLevel =>
                                          \A c \in mine : c.level # NoLevel /\ level >= c.level =>
                                              ToSet(c.appenders) \subseteq reached
                            /\ logger.level # NoLevel /\ ~direct /\ level < logger.level => reached = {}
      BY DEF RecordsAreRouted
    <2>1. t \in Tasks
      OBVIOUS
    <2> QED BY <2>1, RecordIsRouted, Zenon DEF Applying, Adding
  <1> QED BY <1>1, RoutingStarts, RoutingStays, PTL DEF RoutingSpec

---------------------------------------------------------------------------
(* Files.                                                                  *)

LEMMA TakeHead ==
    ASSUME NEW S, NEW s \in Seq(S), s # <<>>
    PROVE  /\ Head(s) \in S
           /\ Tail(s) \in Seq(S)
           /\ Len(Tail(s)) = Len(s) - 1
           /\ \A i \in 1..Len(Tail(s)) : Tail(s)[i] = s[i + 1]
           /\ Head(s) = s[1]
           /\ Len(s) \in Nat
           /\ Len(s) > 0
  OBVIOUS

\* What the disk looks like after any number of renames.
LEMMA ShiftedType ==
    ASSUME FileTypeOK, NEW top \in Slots, NEW moves \in 0..top
    PROVE  Shifted(top, moves) \in [Slots -> Seq(FileRecords)]
  <1> DEFINE moved(i) == i \in (top - moves)..(top - 1) /\ ~Missing(i)
             after(i) == IF i > 0 /\ moved(i - 1) THEN files[i - 1]
                         ELSE IF moved(i) THEN <<>>
                         ELSE files[i]
  <1>1. ASSUME NEW i \in Slots PROVE after(i) \in Seq(FileRecords)
    <2>1. files[i] \in Seq(FileRecords)
      BY <1>1 DEF FileTypeOK
    <2>2. i > 0 => i - 1 \in Slots
      BY <1>1, FileLogAssumption DEF Slots
    <2>3. i > 0 => files[i - 1] \in Seq(FileRecords)
      BY <2>2 DEF FileTypeOK
    <2> QED BY <2>1, <2>3
  <1>2. Shifted(top, moves) = [i \in Slots |-> after(i)]
    BY DEF Shifted
  <1> QED BY <1>1, <1>2

---------------------------------------------------------------------------
(* The inductive invariant.                                                *)

\* A record is being written exactly while the drain waits for it.
WriterKnown == pendingFlush = "writing" <=> writing # NoRecord

\* A queue is abandoned only with an error to report.
QueueAbandoned == pendingFlush = "none" /\ ~error => recordQueue = <<>>

InQueue(r) == \E i \in DOMAIN recordQueue : recordQueue[i] = r

Written(r) == \E i \in DOMAIN written : written[i] = r

\* Without an error, a record is somewhere between the queue and the file.
NothingLost == ~error => \A r \in taken : InQueue(r) \/ r = writing \/ Written(r)

ClosedForGood ==
    /\ closing \in {"closed", "rejected"} => ~file /\ pendingFlush = "none"
    /\ closing = "closed" => ~error

FileInv == FileTypeOK /\ WriterKnown /\ QueueAbandoned /\ NothingLost /\ ClosedForGood

LEMMA InitFileInv == FileInit => FileInv
  <1> SUFFICES ASSUME FileInit PROVE FileInv
    OBVIOUS
  <1>1. MaxFiles \in Nat \ {0} /\ {MaxAppends, MaxFileFailures, MaxRestarts} \subseteq Nat
    BY FileLogAssumption
  <1>2. <<>> \in Seq(FileRecords) /\ 0 \in Slots
    BY <1>1 DEF Slots
  <1>3. files \in [Slots -> Seq(FileRecords)]
    BY <1>2 DEF FileInit
  <1>4. FileTypeOK
    BY <1>1, <1>2, <1>3 DEF FileInit, FileTypeOK
  <1>5. WriterKnown /\ QueueAbandoned /\ NothingLost /\ ClosedForGood
    BY DEF FileInit, WriterKnown, QueueAbandoned, NothingLost, ClosedForGood
  <1> QED BY <1>4, <1>5 DEF FileInv

---------------------------------------------------------------------------
(* Type correctness: one lemma per action.                                 *)

LEMMA RollType ==
    ASSUME FileTypeOK, RollFile
    PROVE  /\ file' \in BOOLEAN
           /\ error' \in BOOLEAN
           /\ currentSize' \in Nat
           /\ archived' \in Slots
           /\ files' \in [Slots -> Seq(FileRecords)]
           /\ fileFailures' \in 0..MaxFileFailures
  <1> DEFINE top == archived + (IF CanArchive THEN 1 ELSE 0)
  <1>1. top \in Slots
    BY FileLogAssumption DEF FileTypeOK, Slots, CanArchive
  <1>2. \A moves \in 0..top : Shifted(top, moves) \in [Slots -> Seq(FileRecords)]
    BY <1>1, ShiftedType
  <1>3. top \in 0..top
    BY <1>1 DEF Slots
  <1>4. files' \in [Slots -> Seq(FileRecords)]
    <2>1. \/ files' = files
          \/ files' = [files EXCEPT ![top] = <<>>]
          \/ \E moves \in 0..top : files' = Shifted(top, moves)
      BY <1>3 DEF RollFile
    <2>2. [files EXCEPT ![top] = <<>>] \in [Slots -> Seq(FileRecords)]
      BY <1>1 DEF FileTypeOK
    <2> QED BY <1>2, <2>1, <2>2 DEF FileTypeOK
  <1>5. archived' \in Slots
    BY <1>1 DEF RollFile
  <1>6. file' \in BOOLEAN /\ error' \in BOOLEAN /\ currentSize' \in Nat
    <2>1. /\ file' = file \/ file' = FALSE
          /\ error' = error \/ error' = TRUE
          /\ currentSize' = currentSize \/ currentSize' = 0
      BY DEF RollFile
    <2>2. file' \in BOOLEAN
      BY <2>1, Zenon DEF FileTypeOK
    <2>3. error' \in BOOLEAN
      BY <2>1, Zenon DEF FileTypeOK
    <2>4. currentSize' \in Nat
      BY <2>1 DEF FileTypeOK
    <2> QED BY <2>2, <2>3, <2>4
  <1>7. fileFailures' = fileFailures \/ (fileFailures < MaxFileFailures /\ fileFailures' = fileFailures + 1)
    BY DEF RollFile
  <1>8. fileFailures' \in 0..MaxFileFailures
    BY <1>7, FileLogAssumption DEF FileTypeOK
  <1> QED
    BY <1>4, <1>5, <1>6, <1>8

LEMMA TypeStep == FileTypeOK /\ WriterKnown /\ [FileNext]_fileVars => FileTypeOK'
  <1> SUFFICES ASSUME FileTypeOK, WriterKnown, [FileNext]_fileVars
               PROVE  FileTypeOK'
    OBVIOUS
  <1> USE FileLogAssumption DEF FileTypeOK, drain, roll, past
  <1>1. CASE AppendRecord
    <2>1. appends + 1 \in FileRecords /\ appends' \in 0..MaxAppends
      BY <1>1 DEF AppendRecord, FileRecords
    <2>2. CASE Enqueue
      <3>1. recordQueue' \in Seq(FileRecords) /\ taken' \subseteq FileRecords
        BY <2>1, <2>2 DEF Enqueue
      <3>2. pendingFlush' \in {"none", "starting", "looping", "writing"}
        BY <2>2 DEF Enqueue
      <3> QED BY <1>1, <2>1, <3>1, <3>2 DEF AppendRecord
    <2>3. CASE UNCHANGED <<recordQueue, taken, pendingFlush>>
      BY <1>1, <2>1, <2>3 DEF AppendRecord
    <2> QED BY <1>1, <2>2, <2>3 DEF AppendRecord
  <1>2. CASE StartDrain
    BY <1>2 DEF StartDrain
  <1>3. CASE WriteNext
    BY <1>3, TakeHead DEF WriteNext
  <1>4. CASE EndDrain
    BY <1>4, RollType DEF EndDrain
  <1>5. CASE WriteSucceeds
    <2>1. writing \in FileRecords
      BY <1>5 DEF WriteSucceeds, WriterKnown
    <2>2. files' \in [Slots -> Seq(FileRecords)]
      <3>1. 0 \in Slots
        BY DEF Slots
      <3>2. Append(files[0], writing) \in Seq(FileRecords)
        BY <2>1, <3>1
      <3> QED BY <1>5, <3>2 DEF WriteSucceeds
    <2>3. written' \in Seq(FileRecords)
      BY <1>5, <2>1 DEF WriteSucceeds
    <2>4. /\ pendingFlush' = "looping" /\ writing' = NoRecord /\ currentSize' = currentSize + 1
          /\ UNCHANGED <<recordQueue, error, closing, file, archived, appends, taken, fileFailures, restarts>>
      BY <1>5 DEF WriteSucceeds
    <2> QED BY <2>2, <2>3, <2>4
  <1>6. CASE WriteFails
    BY <1>6 DEF WriteFails
  <1>7. CASE Close
    BY <1>7 DEF Close
  <1>8. CASE FinishClose
    BY <1>8 DEF FinishClose
  <1>9. CASE Restart
    <2>1. 0 \in Slots
      BY DEF Slots
    <2>2. recordQueue' \in Seq(FileRecords) /\ archived' \in Slots /\ taken' \subseteq FileRecords
      BY <1>9, <2>1 DEF Restart
    <2>3. restarts' \in 0..MaxRestarts
      BY <1>9 DEF Restart
    <2> QED BY <1>9, <2>2, <2>3 DEF Restart
  <1>10. CASE UNCHANGED fileVars
    BY <1>10 DEF fileVars
  <1> QED
    BY <1>1, <1>2, <1>3, <1>4, <1>5, <1>6, <1>7, <1>8, <1>9, <1>10 DEF FileNext

---------------------------------------------------------------------------
(* The rest of the invariant.                                              *)

LEMMA DrainStep ==
    FileTypeOK /\ WriterKnown /\ QueueAbandoned /\ ClosedForGood /\ [FileNext]_fileVars
      => WriterKnown' /\ QueueAbandoned' /\ ClosedForGood'
  <1> SUFFICES ASSUME FileTypeOK, WriterKnown, QueueAbandoned, ClosedForGood, [FileNext]_fileVars
               PROVE  WriterKnown' /\ QueueAbandoned' /\ ClosedForGood'
    OBVIOUS
  <1> USE DEF WriterKnown, QueueAbandoned, ClosedForGood, drain, roll, past
  <1>1. CASE AppendRecord
    BY <1>1 DEF AppendRecord, Enqueue
  <1>2. CASE StartDrain
    BY <1>2 DEF StartDrain
  <1>3. CASE WriteNext
    <2>1. writing' # NoRecord
      BY <1>3, TakeHead, FileLogAssumption DEF WriteNext, FileTypeOK
    <2> QED BY <1>3, <2>1 DEF WriteNext
  <1>4. CASE EndDrain
    BY <1>4 DEF EndDrain, RollFile
  <1>5. CASE WriteSucceeds
    BY <1>5 DEF WriteSucceeds
  <1>6. CASE WriteFails
    BY <1>6 DEF WriteFails
  <1>7. CASE Close
    BY <1>7 DEF Close
  <1>8. CASE FinishClose
    BY <1>8 DEF FinishClose
  <1>9. CASE Restart
    BY <1>9 DEF Restart
  <1>10. CASE UNCHANGED fileVars
    BY <1>10 DEF fileVars
  <1> QED
    BY <1>1, <1>2, <1>3, <1>4, <1>5, <1>6, <1>7, <1>8, <1>9, <1>10 DEF FileNext

\* A sequence that is extended keeps its members and gains the new one.
LEMMA Members ==
    ASSUME NEW S, NEW s \in Seq(S), NEW x
    PROVE  /\ \A i \in DOMAIN s : i \in DOMAIN Append(s, x) /\ Append(s, x)[i] = s[i]
           /\ Len(s) + 1 \in DOMAIN Append(s, x)
           /\ Append(s, x)[Len(s) + 1] = x
  OBVIOUS

LEMMA LossStep ==
    FileTypeOK /\ WriterKnown /\ NothingLost /\ [FileNext]_fileVars => NothingLost'
  <1> SUFFICES ASSUME FileTypeOK, WriterKnown, NothingLost, [FileNext]_fileVars, ~error',
                      NEW r \in taken'
               PROVE  InQueue(r)' \/ r = writing' \/ Written(r)'
    BY DEF NothingLost
  <1> USE DEF drain, roll, past
  <1>1. CASE AppendRecord
    <2>1. InQueue(r) \/ r = writing \/ Written(r) \/ (r = appends + 1 /\ Enqueue)
      BY <1>1 DEF NothingLost, AppendRecord, Enqueue
    <2>2. (InQueue(r) \/ (r = appends + 1 /\ Enqueue)) => InQueue(r)'
      <3>1. recordQueue \in Seq(FileRecords)
        BY DEF FileTypeOK
      <3>2. CASE Enqueue
        <4>1. recordQueue' = Append(recordQueue, appends + 1)
          BY <3>2 DEF Enqueue
        <4> QED BY <3>1, <4>1, Members DEF InQueue
      <3>3. CASE UNCHANGED <<recordQueue, taken, pendingFlush>>
        BY <1>1, <3>3 DEF AppendRecord, InQueue, Enqueue
      <3> QED BY <1>1, <3>2, <3>3 DEF AppendRecord
    <2> QED BY <1>1, <2>1, <2>2 DEF AppendRecord, Written
  <1>2. CASE StartDrain
    BY <1>2 DEF StartDrain, NothingLost, InQueue, Written
  <1>3. CASE WriteNext
    <2>1. InQueue(r) \/ Written(r)
      BY <1>3, FileLogAssumption DEF WriteNext, NothingLost, WriterKnown, FileTypeOK
    <2>2. InQueue(r) => InQueue(r)' \/ r = writing'
      <3> SUFFICES ASSUME NEW i \in DOMAIN recordQueue, recordQueue[i] = r, i # 1
                   PROVE  InQueue(r)'
        BY <1>3, TakeHead DEF WriteNext, InQueue, FileTypeOK
      <3>1. recordQueue \in Seq(FileRecords) /\ recordQueue # <<>> /\ recordQueue' = Tail(recordQueue)
        BY <1>3 DEF WriteNext, FileTypeOK
      <3>2. /\ Len(recordQueue) \in Nat /\ DOMAIN recordQueue = 1..Len(recordQueue)
            /\ DOMAIN recordQueue' = 1..(Len(recordQueue) - 1)
            /\ \A k \in 1..(Len(recordQueue) - 1) : recordQueue'[k] = recordQueue[k + 1]
        BY <3>1
      <3>3. i - 1 \in 1..(Len(recordQueue) - 1) /\ (i - 1) + 1 = i
        BY <3>2
      <3>4. i - 1 \in DOMAIN recordQueue' /\ recordQueue'[i - 1] = r
        BY <3>2, <3>3
      <3> QED BY <3>4 DEF InQueue
    <2> QED BY <1>3, <2>1, <2>2 DEF WriteNext, Written
  <1>4. CASE EndDrain
    BY <1>4 DEF EndDrain, RollFile, NothingLost, InQueue, Written
  <1>5. CASE WriteSucceeds
    <2>1. InQueue(r) \/ r = writing \/ Written(r)
      BY <1>5 DEF WriteSucceeds, NothingLost
    <2>2. (r = writing \/ Written(r)) => Written(r)'
      <3>1. written \in Seq(FileRecords) /\ written' = Append(written, writing)
        BY <1>5 DEF FileTypeOK, WriteSucceeds
      <3> QED BY <3>1, Members DEF Written
    <2> QED BY <1>5, <2>1, <2>2 DEF WriteSucceeds, InQueue
  <1>6. CASE WriteFails
    BY <1>6 DEF WriteFails
  <1>7. CASE Close
    BY <1>7 DEF Close, NothingLost, InQueue, Written
  <1>8. CASE FinishClose
    BY <1>8 DEF FinishClose, NothingLost, InQueue, Written
  <1>9. CASE Restart
    BY <1>9 DEF Restart
  <1>10. CASE UNCHANGED fileVars
    BY <1>10 DEF fileVars, NothingLost, InQueue, Written
  <1> QED
    BY <1>1, <1>2, <1>3, <1>4, <1>5, <1>6, <1>7, <1>8, <1>9, <1>10 DEF FileNext

---------------------------------------------------------------------------
\* The inductive invariant of the appender holds of every behaviour.
THEOREM FileInvariant == FileSpec => []FileInv
  <1>1. FileInv /\ [FileNext]_fileVars => FileInv'
    BY TypeStep, DrainStep, LossStep DEF FileInv
  <1> QED BY InitFileInv, <1>1, PTL DEF FileSpec

\* Every variable stays in its type, the number of files within maxFiles.
THEOREM FileTypeCorrect == FileSpec => []FileTypeOK
  <1>1. FileInv => FileTypeOK
    BY DEF FileInv
  <1> QED BY FileInvariant, <1>1, PTL

(***************************************************************************)
(* FileAppender.close: when it resolves, every record append() queued has  *)
(* been written; when it settles, the descriptor is released for good.     *)
(***************************************************************************)
THEOREM CloseIsHonest == FileSpec => []CloseReportsLoss
  <1>1. FileInv => CloseReportsLoss
    <2> SUFFICES ASSUME FileInv, closing = "closed", NEW r \in taken
                 PROVE  Written(r)
      BY DEF FileInv, ClosedForGood, CloseReportsLoss, Written
    <2>1. ~error /\ pendingFlush = "none" /\ recordQueue = <<>> /\ writing = NoRecord
      BY DEF FileInv, ClosedForGood, QueueAbandoned, WriterKnown
    <2>2. ~InQueue(r) /\ r # writing
      BY <2>1, FileLogAssumption DEF FileInv, FileTypeOK, InQueue
    <2> QED BY <2>1, <2>2 DEF FileInv, NothingLost
  <1> QED BY FileInvariant, <1>1, PTL
---------------------------------------------------------------------------
(* The order of the records.                                               *)

AllBefore(S, T) == \A s \in S, t \in T : s < t

\* Written, being written, queued, and to be appended.
InTurn ==
    /\ Ascending(written) /\ Ascending(recordQueue)
    /\ writing # NoRecord => AllBefore(ElementsOf(written), {writing}) /\ AllBefore({writing}, ElementsOf(recordQueue))
    /\ AllBefore(ElementsOf(written), ElementsOf(recordQueue))
    /\ ElementsOf(written) \subseteq 1..appends /\ ElementsOf(recordQueue) \subseteq 1..appends
    /\ writing # NoRecord => writing \in 1..appends

InFiles ==
    /\ Kept \subseteq ElementsOf(written)
    /\ \A i \in Slots : Ascending(files[i])
    /\ \A i, j \in Slots : i < j => AllBefore(ElementsOf(files[j]), ElementsOf(files[i]))

\* A process knows of the archives it has made.
ArchivesKnown ==
    restarts = 0 =>
        /\ \A i \in Slots : i > archived => files[i] = <<>>
        /\ AllBefore(ElementsOf(written) \ Kept, Kept)
        /\ archived < MaxFiles - 1 => Kept = ElementsOf(written)

OrderInv == InTurn /\ InFiles /\ ArchivesKnown

LEMMA InitOrder == FileInit => OrderInv
  <1> SUFFICES ASSUME FileInit PROVE OrderInv
    OBVIOUS
  <1>1. ElementsOf(<<>>) = {} /\ Ascending(<<>>)
    BY DEF ElementsOf, Ascending
  <1>2. \A i \in Slots : files[i] = <<>>
    BY DEF FileInit
  <1>3. Kept = {}
    BY <1>1, <1>2, Zenon DEF Kept
  <1>4. InTurn
    BY <1>1 DEF FileInit, InTurn, AllBefore
  <1>5. InFiles
    BY <1>1, <1>2, <1>3 DEF InFiles, AllBefore
  <1>6. ArchivesKnown
    BY <1>1, <1>2, <1>3 DEF FileInit, ArchivesKnown, AllBefore
  <1> QED BY <1>4, <1>5, <1>6 DEF OrderInv

---------------------------------------------------------------------------
(* The turns of the records.                                               *)

\* A greater record at the end.
LEMMA Extended ==
    ASSUME NEW q \in Seq(FileRecords), NEW r \in FileRecords, Ascending(q), AllBefore(ElementsOf(q), {r})
    PROVE  /\ ElementsOf(Append(q, r)) = ElementsOf(q) \cup {r}
           /\ Ascending(Append(q, r))
  <1> DEFINE n == Len(q)
             all == Append(q, r)
  <1>1. /\ n \in Nat /\ DOMAIN q = 1..n /\ DOMAIN all = 1..(n + 1)
        /\ \A i \in 1..n : all[i] = q[i]
        /\ all[n + 1] = r
    OBVIOUS
  <1> HIDE DEF n, all
  <1>2. \A i \in 1..(n + 1) : i \in 1..n \/ i = n + 1
    BY <1>1
  <1>3. /\ \A i \in 1..n : i \in 1..(n + 1)
        /\ n + 1 \in 1..(n + 1)
    BY <1>1
  <1>4. ElementsOf(all) = ElementsOf(q) \cup {r}
    BY <1>1, <1>2, <1>3, Zenon DEF ElementsOf
  <1>5. Ascending(all)
    <2> SUFFICES ASSUME NEW i \in 1..(n + 1), NEW j \in 1..(n + 1), i < j
                 PROVE  all[i] < all[j]
      BY <1>1 DEF Ascending
    <2>1. i \in 1..n
      BY <1>1
    <2>2. CASE j \in 1..n
      BY <1>1, <2>1, <2>2 DEF Ascending
    <2>3. CASE j = n + 1
      <3>1. q[i] \in ElementsOf(q)
        BY <1>1, <2>1 DEF ElementsOf
      <3> QED BY <1>1, <2>1, <2>3, <3>1 DEF AllBefore
    <2> QED BY <1>2, <2>2, <2>3
  <1> QED BY <1>4, <1>5 DEF all

\* The first record is less than those behind it.
LEMMA Taken ==
    ASSUME NEW q \in Seq(FileRecords), q # <<>>, Ascending(q)
    PROVE  /\ ElementsOf(q) = {Head(q)} \cup ElementsOf(Tail(q))
           /\ Ascending(Tail(q))
           /\ AllBefore({Head(q)}, ElementsOf(Tail(q)))
  <1> DEFINE n == Len(q)
             rest == Tail(q)
             first == Head(q)
  <1>1. /\ n \in Nat /\ n > 0 /\ DOMAIN q = 1..n /\ DOMAIN rest = 1..(n - 1)
        /\ \A i \in 1..(n - 1) : rest[i] = q[i + 1]
        /\ first = q[1]
    BY TakeHead
  <1> HIDE DEF n, rest, first
  <1>2. \A i \in 1..n : i = 1 \/ (i - 1 \in 1..(n - 1) /\ rest[i - 1] = q[i])
    BY <1>1
  <1>3. /\ \A i \in 1..(n - 1) : i + 1 \in 1..n /\ 1 < i + 1
        /\ 1 \in 1..n
    BY <1>1
  <1>4. ElementsOf(q) = {first} \cup ElementsOf(rest)
    <2>1. \A i \in 1..n : q[i] = first \/ q[i] \in ElementsOf(rest)
      BY <1>1, <1>2 DEF ElementsOf
    <2>2. ElementsOf(rest) \subseteq ElementsOf(q)
      BY <1>1, <1>3, Zenon DEF ElementsOf
    <2>3. first \in ElementsOf(q)
      BY <1>1, <1>3, Zenon DEF ElementsOf
    <2>4. ElementsOf(q) = {q[i] : i \in 1..n}
      BY <1>1 DEF ElementsOf
    <2>5. ElementsOf(q) \subseteq {first} \cup ElementsOf(rest)
      BY <2>1, <2>4
    <2> QED BY <2>2, <2>3, <2>5
  <1>5. Ascending(rest)
    <2> SUFFICES ASSUME NEW i \in 1..(n - 1), NEW j \in 1..(n - 1), i < j
                 PROVE  rest[i] < rest[j]
      BY <1>1 DEF Ascending
    <2>1. i + 1 \in 1..n /\ j + 1 \in 1..n /\ i + 1 < j + 1
      BY <1>1
    <2>2. q[i + 1] < q[j + 1]
      BY <1>1, <2>1, Zenon DEF Ascending
    <2> QED BY <1>1, <2>2
  <1>6. AllBefore({first}, ElementsOf(rest))
    <2>1. \A i \in 1..(n - 1) : q[1] < q[i + 1]
      BY <1>1, <1>3, Zenon DEF Ascending
    <2>2. \A i \in 1..(n - 1) : first < rest[i]
      BY <1>1, <2>1
    <2> QED BY <1>1, <2>2, Zenon DEF AllBefore, ElementsOf
  <1> QED BY <1>4, <1>5, <1>6 DEF rest, first

LEMMA InTurnStep == FileInv /\ InTurn /\ [FileNext]_fileVars => InTurn'
  <1> SUFFICES ASSUME FileInv, InTurn, [FileNext]_fileVars
               PROVE  InTurn'
    OBVIOUS
  <1>0. /\ FileTypeOK /\ WriterKnown
        /\ recordQueue \in Seq(FileRecords) /\ written \in Seq(FileRecords) /\ appends \in Nat
    BY FileLogAssumption DEF FileInv, FileTypeOK
  <1>1. CASE AppendRecord
    <2>1. CASE UNCHANGED recordQueue
      <3>1. 1..appends \subseteq 1..appends'
        <4>1. appends' = appends + 1
          BY <1>1 DEF AppendRecord
        <4> QED BY <1>0, <4>1
      <3> QED BY <1>1, <2>1, <3>1 DEF AppendRecord, InTurn, ElementsOf, Ascending, AllBefore
    <2>2. CASE Enqueue
      <3> DEFINE r == appends + 1
      <3>1. /\ recordQueue' = Append(recordQueue, r) /\ appends' = r
            /\ UNCHANGED <<written, writing>>
        BY <1>1, <2>2 DEF AppendRecord, Enqueue, past
      <3>2. r \in FileRecords /\ 1..r = 1..appends \cup {r} /\ (\A i \in 1..appends : i < r)
        BY <1>0, <1>1, FileLogAssumption DEF AppendRecord, FileRecords
      <3> HIDE DEF r
      <3>3. AllBefore(1..appends, {r})
        BY <3>2 DEF AllBefore
      <3>4. AllBefore(ElementsOf(recordQueue), {r}) /\ AllBefore(ElementsOf(written), {r})
        BY <3>3, Zenon DEF InTurn, AllBefore
      <3>5. /\ ElementsOf(Append(recordQueue, r)) = ElementsOf(recordQueue) \cup {r}
            /\ Ascending(Append(recordQueue, r))
        BY <1>0, <3>2, <3>4, Extended DEF InTurn
      <3>6. /\ ElementsOf(recordQueue)' = ElementsOf(recordQueue) \cup {r} /\ Ascending(recordQueue)'
            /\ ElementsOf(written)' = ElementsOf(written) /\ Ascending(written)'
        BY <3>1, <3>5, Zenon DEF InTurn, ElementsOf, Ascending
      <3>7. writing # NoRecord => AllBefore({writing}, {r})
        BY <3>3, Zenon DEF InTurn, AllBefore
      <3>8. /\ AllBefore(ElementsOf(written), ElementsOf(recordQueue) \cup {r})
            /\ writing # NoRecord => AllBefore({writing}, ElementsOf(recordQueue) \cup {r})
        BY <3>4, <3>7, Zenon DEF InTurn, AllBefore
      <3>9. 1..appends \subseteq 1..appends' /\ r \in 1..appends'
        BY <3>1, <3>2
      <3>10. /\ ElementsOf(written) \subseteq 1..appends' /\ ElementsOf(recordQueue) \cup {r} \subseteq 1..appends'
             /\ writing # NoRecord => writing \in 1..appends'
        BY <3>9, Zenon DEF InTurn
      <3>11. writing # NoRecord => AllBefore(ElementsOf(written), {writing})
        BY DEF InTurn
      <3> QED BY <3>1, <3>6, <3>8, <3>10, <3>11, Zenon DEF InTurn, AllBefore
    <2> QED BY <1>1, <2>1, <2>2 DEF AppendRecord
  <1>2. CASE WriteNext
    <2>1. /\ recordQueue # <<>> /\ writing' = Head(recordQueue) /\ recordQueue' = Tail(recordQueue)
          /\ UNCHANGED <<written, appends>>
      BY <1>2 DEF WriteNext, past
    <2>2. /\ ElementsOf(recordQueue) = {Head(recordQueue)} \cup ElementsOf(Tail(recordQueue))
          /\ Ascending(Tail(recordQueue))
          /\ AllBefore({Head(recordQueue)}, ElementsOf(Tail(recordQueue)))
      BY <1>0, <2>1, Taken DEF InTurn
    <2>3. /\ ElementsOf(recordQueue)' = ElementsOf(Tail(recordQueue)) /\ Ascending(recordQueue)'
          /\ ElementsOf(written)' = ElementsOf(written) /\ Ascending(written)'
      BY <2>1, <2>2, Zenon DEF InTurn, ElementsOf, Ascending
    <2>4. /\ AllBefore(ElementsOf(written), {Head(recordQueue)})
          /\ AllBefore(ElementsOf(written), ElementsOf(Tail(recordQueue)))
      BY <2>2, Zenon DEF InTurn, AllBefore
    <2>5. Head(recordQueue) \in 1..appends /\ ElementsOf(Tail(recordQueue)) \subseteq 1..appends
      BY <2>2, Zenon DEF InTurn
    <2> QED BY <2>1, <2>2, <2>3, <2>4, <2>5, Zenon DEF InTurn, AllBefore
  <1>3. CASE WriteSucceeds
    <2>1. /\ written' = Append(written, writing) /\ writing' = NoRecord
          /\ UNCHANGED <<recordQueue, appends>>
      BY <1>3 DEF WriteSucceeds
    <2>2. writing # NoRecord /\ writing \in FileRecords
      BY <1>0, <1>3 DEF WriteSucceeds, WriterKnown, FileTypeOK
    <2>3. AllBefore(ElementsOf(written), {writing})
      BY <2>2 DEF InTurn
    <2>4. /\ ElementsOf(Append(written, writing)) = ElementsOf(written) \cup {writing}
          /\ Ascending(Append(written, writing))
      BY <1>0, <2>2, <2>3, Extended DEF InTurn
    <2>5. /\ ElementsOf(written)' = ElementsOf(written) \cup {writing} /\ Ascending(written)'
          /\ ElementsOf(recordQueue)' = ElementsOf(recordQueue) /\ Ascending(recordQueue)'
      BY <2>1, <2>4, Zenon DEF InTurn, ElementsOf, Ascending
    <2>6. AllBefore(ElementsOf(written) \cup {writing}, ElementsOf(recordQueue))
      BY <2>2, Zenon DEF InTurn, AllBefore
    <2> QED BY <2>1, <2>2, <2>5, <2>6, Zenon DEF InTurn, AllBefore
  <1>4. CASE WriteFails
    BY <1>4 DEF WriteFails, past, InTurn, ElementsOf, Ascending, AllBefore
  <1>5. CASE Restart
    <2>1. recordQueue' = <<>> /\ writing' = NoRecord /\ UNCHANGED <<written, appends>>
      BY <1>5 DEF Restart
    <2>2. ElementsOf(recordQueue)' = {} /\ Ascending(recordQueue)'
      BY <2>1 DEF ElementsOf, Ascending
    <2>3. ElementsOf(written)' = ElementsOf(written) /\ Ascending(written)'
      BY <2>1 DEF InTurn, ElementsOf, Ascending
    <2> QED BY <2>1, <2>2, <2>3 DEF InTurn, AllBefore
  <1>6. CASE UNCHANGED <<recordQueue, writing, past>>
    BY <1>6 DEF past, InTurn, ElementsOf, Ascending, AllBefore
  <1>7. CASE StartDrain \/ EndDrain \/ Close \/ FinishClose \/ UNCHANGED fileVars
    BY <1>6, <1>7 DEF StartDrain, EndDrain, Close, FinishClose, fileVars, drain
  <1> QED BY <1>1, <1>2, <1>3, <1>4, <1>5, <1>7 DEF FileNext
---------------------------------------------------------------------------
(* The files.                                                              *)

\* Where the records of a file were before the renames: there, or one below.
LEMMA Renamed ==
    ASSUME FileTypeOK, NEW top \in Slots, NEW moves \in 0..top
    PROVE  LET new == Shifted(top, moves)
               moved(i) == i \in (top - moves)..(top - 1) /\ ~Missing(i)
           IN  \A i \in Slots :
                   \/ i > 0 /\ i - 1 \in Slots /\ moved(i - 1) /\ new[i] = files[i - 1]
                   \/ ~(i > 0 /\ moved(i - 1)) /\ moved(i) /\ new[i] = <<>>
                   \/ ~(i > 0 /\ moved(i - 1)) /\ ~moved(i) /\ new[i] = files[i]
  <1> DEFINE moved(i) == i \in (top - moves)..(top - 1) /\ ~Missing(i)
  <1>1. \A i \in Slots : i > 0 => i - 1 \in Slots
    BY FileLogAssumption DEF Slots
  <1>2. \A i \in Slots :
            Shifted(top, moves)[i] = IF i > 0 /\ moved(i - 1) THEN files[i - 1]
                                     ELSE IF moved(i) THEN <<>>
                                     ELSE files[i]
    BY DEF Shifted
  <1> HIDE DEF moved
  <1>3. \A i \in Slots :
            \/ i > 0 /\ i - 1 \in Slots /\ moved(i - 1) /\ Shifted(top, moves)[i] = files[i - 1]
            \/ ~(i > 0 /\ moved(i - 1)) /\ moved(i) /\ Shifted(top, moves)[i] = <<>>
            \/ ~(i > 0 /\ moved(i - 1)) /\ ~moved(i) /\ Shifted(top, moves)[i] = files[i]
    BY <1>1, <1>2
  <1> QED BY <1>3 DEF moved

KeptIn(disk) == UNION {ElementsOf(disk[i]) : i \in Slots}

OrderedOn(disk) ==
    /\ \A i \in Slots : Ascending(disk[i])
    /\ \A i, j \in Slots : i < j => AllBefore(ElementsOf(disk[j]), ElementsOf(disk[i]))

\* No file has what the file `top' held.
Emptied(disk, top) ==
    \A i \in Slots : disk[i] = <<>> \/ \E a \in Slots : a # top /\ disk[i] = files[a]

\* What a change of the disk may do: forget the file `top', and no other.
Forgets(disk, top) ==
    /\ ElementsOf(files[top]) \subseteq KeptIn(disk) \/ Emptied(disk, top)
    /\ OrderedOn(disk)
    /\ KeptIn(disk) \subseteq Kept
    /\ Kept \subseteq KeptIn(disk) \cup ElementsOf(files[top])
    /\ \A i \in Slots : i > top => disk[i] = files[i]

LEMMA NothingIn ==
    /\ ElementsOf(<<>>) = {} /\ Ascending(<<>>)
    /\ \A S : AllBefore(S, {}) /\ AllBefore({}, S)
  BY DEF ElementsOf, Ascending, AllBefore

LEMMA ShiftForgets ==
    ASSUME FileTypeOK, InFiles, NEW top \in Slots, NEW moves \in 0..top
    PROVE  Forgets(Shifted(top, moves), top)
  <1> DEFINE disk == Shifted(top, moves)
             moved(i) == i \in (top - moves)..(top - 1) /\ ~Missing(i)
             below(i) == i > 0 /\ moved(i - 1)
  <1>1. \A i \in Slots :
            \/ below(i) /\ i - 1 \in Slots /\ disk[i] = files[i - 1]
            \/ ~below(i) /\ moved(i) /\ disk[i] = <<>>
            \/ ~below(i) /\ ~moved(i) /\ disk[i] = files[i]
    BY Renamed
  <1> HIDE DEF disk
  <1>2. Slots \subseteq Nat /\ top \in Nat /\ moves \in Nat
    BY DEF Slots
  <1>3. OrderedOn(disk)
    <2>1. \A i \in Slots : Ascending(disk[i])
      BY <1>1, NothingIn, Zenon DEF InFiles
    <2>2. ASSUME NEW i \in Slots, NEW j \in Slots, i < j
          PROVE  AllBefore(ElementsOf(disk[j]), ElementsOf(disk[i]))
      <3>1. CASE disk[i] = <<>> \/ disk[j] = <<>>
        BY <3>1, NothingIn, Zenon
      <3>2. CASE disk[i] # <<>> /\ disk[j] # <<>>
        <4>1. PICK a \in Slots : disk[i] = files[a] /\ (a = i - 1 \/ (a = i /\ ~moved(i)))
          BY <1>1, <3>2, Zenon
        <4>2. PICK b \in Slots : disk[j] = files[b] /\ ((b = j - 1 /\ below(j)) \/ b = j)
          BY <1>1, <3>2, Zenon
        <4>3. a < b
          <5>1. b = j - 1 /\ below(j) => moved(b)
            OBVIOUS
          <5>2. a = i /\ b = j - 1 /\ below(j) => a # b
            BY <4>1, <5>1
          <5> QED BY <1>2, <2>2, <4>1, <4>2, <5>2
        <4> QED BY <4>1, <4>2, <4>3 DEF InFiles
      <3> QED BY <3>1, <3>2
    <2> QED BY <2>1, <2>2 DEF OrderedOn
  <1>4. KeptIn(disk) \subseteq Kept
    <2>1. \A i \in Slots : ElementsOf(disk[i]) \subseteq Kept
      <3> SUFFICES ASSUME NEW i \in Slots PROVE ElementsOf(disk[i]) \subseteq Kept
        OBVIOUS
      <3>1. disk[i] = <<>> \/ \E a \in Slots : disk[i] = files[a]
        BY <1>1, Zenon
      <3> QED BY <3>1, NothingIn DEF Kept
    <2> QED BY <2>1, Zenon DEF KeptIn
  <1>5. Kept \subseteq KeptIn(disk) \cup ElementsOf(files[top])
    <2>1. ASSUME NEW i \in Slots, i # top, files[i] # <<>>
          PROVE  \E a \in Slots : disk[a] = files[i]
      <3>1. CASE moved(i)
        <4>1. i + 1 \in Slots /\ i + 1 > 0 /\ (i + 1) - 1 = i
          BY <1>2, <3>1, FileLogAssumption DEF Slots
        <4>2. below(i + 1)
          BY <3>1, <4>1
        <4>3. disk[i + 1] = files[(i + 1) - 1]
          BY <1>1, <4>1, <4>2, Zenon
        <4> QED BY <4>1, <4>3
      <3>2. CASE ~moved(i)
        <4>1. ~below(i)
          BY <1>2, <2>1, <3>2 DEF Missing
        <4>2. disk[i] = files[i]
          BY <1>1, <3>2, <4>1, Zenon
        <4> QED BY <4>2
      <3> QED BY <3>1, <3>2
    <2>2. \A i \in Slots : ElementsOf(files[i]) \subseteq KeptIn(disk) \cup ElementsOf(files[top])
      <3> SUFFICES ASSUME NEW i \in Slots
                   PROVE  ElementsOf(files[i]) \subseteq KeptIn(disk) \cup ElementsOf(files[top])
        OBVIOUS
      <3>1. CASE i = top \/ files[i] = <<>>
        BY <3>1, NothingIn
      <3>2. CASE i # top /\ files[i] # <<>>
        BY <2>1, <3>2 DEF KeptIn
      <3> QED BY <3>1, <3>2
    <2> QED BY <2>2, Zenon DEF Kept
  <1>6. ASSUME NEW i \in Slots, i > top
        PROVE  disk[i] = files[i]
    <2>1. ~moved(i) /\ ~below(i)
      BY <1>2, <1>6
    <2> QED BY <1>1, <2>1, Zenon
  <1>7. CASE below(top)
    <2>1. ~moved(top)
      BY <1>2
    <2>2. ASSUME NEW i \in Slots, disk[i] # <<>>
          PROVE  \E a \in Slots : a # top /\ disk[i] = files[a]
      <3>1. CASE below(i)
        <4>1. i - 1 \in Slots /\ disk[i] = files[i - 1]
          BY <1>1, <3>1, Zenon
        <4>2. i - 1 # top
          BY <2>1, <3>1
        <4> QED BY <4>1, <4>2
      <3>2. CASE ~below(i)
        <4>1. i # top /\ disk[i] = files[i]
          BY <1>1, <1>7, <2>2, <3>2, Zenon
        <4> QED BY <4>1
      <3> QED BY <3>1, <3>2
    <2>3. Emptied(disk, top)
      BY <2>2, Zenon DEF Emptied
    <2> QED BY <1>3, <1>4, <1>5, <1>6, <2>3 DEF Forgets, disk
  <1>8. CASE ~below(top)
    <2>1. ~moved(top)
      BY <1>2
    <2>2. disk[top] = files[top]
      BY <1>1, <1>8, <2>1, Zenon
    <2>3. ElementsOf(files[top]) \subseteq KeptIn(disk)
      BY <2>2 DEF KeptIn
    <2> QED BY <1>3, <1>4, <1>5, <1>6, <2>3 DEF Forgets, disk
  <1> QED BY <1>7, <1>8

LEMMA UnlinkForgets ==
    ASSUME FileTypeOK, InFiles, NEW top \in Slots
    PROVE  Forgets([files EXCEPT ![top] = <<>>], top)
  <1> DEFINE disk == [files EXCEPT ![top] = <<>>]
  <1>1. \A i \in Slots : disk[i] = IF i = top THEN <<>> ELSE files[i]
    BY DEF FileTypeOK
  <1> HIDE DEF disk
  <1>2. OrderedOn(disk)
    <2>1. \A i \in Slots : Ascending(disk[i])
      BY <1>1, NothingIn DEF InFiles
    <2>2. ASSUME NEW i \in Slots, NEW j \in Slots, i < j
          PROVE  AllBefore(ElementsOf(disk[j]), ElementsOf(disk[i]))
      <3>1. CASE i = top \/ j = top
        BY <1>1, <3>1, NothingIn
      <3>2. CASE i # top /\ j # top
        BY <1>1, <2>2, <3>2 DEF InFiles
      <3> QED BY <3>1, <3>2
    <2> QED BY <2>1, <2>2 DEF OrderedOn
  <1>3. \A i \in Slots : ElementsOf(disk[i]) \subseteq ElementsOf(files[i])
    BY <1>1, NothingIn
  <1>4. KeptIn(disk) \subseteq Kept
    BY <1>3, Zenon DEF Kept, KeptIn
  <1>5. \A i \in Slots : i = top \/ ElementsOf(files[i]) = ElementsOf(disk[i])
    BY <1>1
  <1>6. Kept \subseteq KeptIn(disk) \cup ElementsOf(files[top])
    BY <1>5, Zenon DEF Kept, KeptIn
  <1>7. \A i \in Slots : i > top => disk[i] = files[i]
    BY <1>1 DEF Slots
  <1>8. Emptied(disk, top)
    BY <1>1 DEF Emptied
  <1> QED BY <1>2, <1>4, <1>6, <1>7, <1>8 DEF Forgets, disk

LEMMA RollKeeps ==
    ASSUME FileTypeOK, InFiles, ArchivesKnown, RollFile, written' = written, restarts' = restarts
    PROVE  InFiles' /\ ArchivesKnown'
  <1> DEFINE top == archived + (IF CanArchive THEN 1 ELSE 0)
  <1>1. /\ top \in Slots /\ archived \in Slots /\ MaxFiles \in Nat
        /\ top = archived + 1 \/ (top = archived /\ ~(archived + 1 < MaxFiles))
        /\ Slots \subseteq Nat
    BY FileLogAssumption DEF FileTypeOK, Slots, CanArchive
  <1>2. archived' = top
    BY DEF RollFile
  <1>3. UNCHANGED files \/ Forgets(files', top)
    <2>1. \/ files' = files
          \/ files' = [files EXCEPT ![top] = <<>>]
          \/ \E moves \in 0..top : files' = Shifted(top, moves)
      <3>1. top \in 0..top
        BY <1>1
      <3> QED BY <3>1 DEF RollFile
    <2>2. CASE files' = [files EXCEPT ![top] = <<>>]
      BY <1>1, <2>2, UnlinkForgets
    <2>3. CASE \E moves \in 0..top : files' = Shifted(top, moves)
      BY <1>1, <2>3, ShiftForgets
    <2> QED BY <2>1, <2>2, <2>3
  <1> HIDE DEF top
  <1>4. Kept' = KeptIn(files') /\ ElementsOf(written)' = ElementsOf(written)
    BY DEF Kept, KeptIn, ElementsOf
  <1>5. InFiles'
    <2>1. CASE UNCHANGED files
      BY <1>4, <2>1 DEF InFiles, Kept, KeptIn, ElementsOf, Ascending, AllBefore
    <2>2. CASE Forgets(files', top)
      <3>1. Kept' \subseteq ElementsOf(written)'
        BY <1>4, <2>2 DEF Forgets, InFiles
      <3>2. OrderedOn(files')
        BY <2>2 DEF Forgets
      <3> QED BY <3>1, <3>2 DEF OrderedOn, InFiles, ElementsOf, Ascending, AllBefore
    <2> QED BY <1>3, <2>1, <2>2
  <1>6. ASSUME restarts' = 0
        PROVE  /\ \A i \in Slots : i > archived' => files'[i] = <<>>
               /\ AllBefore(ElementsOf(written)' \ Kept', Kept')
               /\ archived' < MaxFiles - 1 => Kept' = ElementsOf(written)'
    <2>1. /\ \A i \in Slots : i > archived => files[i] = <<>>
          /\ AllBefore(ElementsOf(written) \ Kept, Kept)
          /\ archived < MaxFiles - 1 => Kept = ElementsOf(written)
      BY <1>6 DEF ArchivesKnown
    <2>2. \A i \in Slots : i > top => i > archived /\ files[i] = <<>>
      BY <1>1, <2>1
    <2>3. CASE UNCHANGED files
      <3>1. Kept' = Kept
        BY <1>4, <2>3 DEF Kept, KeptIn
      <3>2. archived' < MaxFiles - 1 => archived < MaxFiles - 1
        BY <1>1, <1>2
      <3> QED BY <1>2, <1>4, <2>1, <2>2, <2>3, <3>1, <3>2, Zenon DEF AllBefore
    <2>4. CASE Forgets(files', top)
      <3>1. \A i \in Slots : i > top => files'[i] = <<>>
        BY <2>2, <2>4 DEF Forgets
      <3>2. CASE top = archived + 1
        <4>1. ElementsOf(files[top]) = {}
          BY <1>1, <2>1, <3>2, NothingIn
        <4>2. Kept' = Kept
          BY <1>4, <2>4, <4>1 DEF Forgets
        <4>3. top < MaxFiles - 1 => archived < MaxFiles - 1
          BY <1>1, <3>2
        <4> QED BY <1>2, <1>4, <2>1, <3>1, <4>2, <4>3, Zenon DEF AllBefore
      <3>3. CASE top = archived /\ ~(archived + 1 < MaxFiles)
        <4>1. ~(top < MaxFiles - 1)
          BY <1>1, <3>3
        <4>2. AllBefore(ElementsOf(files[top]) \ Kept', Kept')
          <5> SUFFICES ASSUME NEW old \in ElementsOf(files[top]), old \notin Kept', NEW new \in Kept'
                       PROVE  old < new
            BY DEF AllBefore
          <5>1. Emptied(files', top)
            BY <1>4, <2>4 DEF Forgets
          <5>2. PICK i \in Slots : new \in ElementsOf(files'[i])
            BY <1>4 DEF KeptIn
          <5>3. PICK a \in Slots : a # top /\ new \in ElementsOf(files[a])
            BY <5>1, <5>2, NothingIn DEF Emptied
          <5>4. a < top
            BY <1>1, <3>3, <5>3 DEF Slots
          <5> QED BY <1>1, <5>3, <5>4, Zenon DEF InFiles, AllBefore
        <4>3. AllBefore(ElementsOf(written)' \ Kept', Kept')
          <5>1. ElementsOf(written)' \ Kept' \subseteq (ElementsOf(written) \ Kept) \cup (ElementsOf(files[top]) \ Kept')
            BY <1>4, <2>4 DEF Forgets
          <5>2. Kept' \subseteq Kept
            BY <1>4, <2>4 DEF Forgets
          <5> QED BY <2>1, <4>2, <5>1, <5>2, Zenon DEF AllBefore
        <4> QED BY <1>2, <3>1, <4>1, <4>3
      <3> QED BY <1>1, <3>2, <3>3
    <2> QED BY <1>3, <2>3, <2>4
  <1> QED BY <1>5, <1>6 DEF ArchivesKnown
LEMMA DiskUnchanged ==
    ASSUME InFiles, UNCHANGED <<files, written>>
    PROVE  InFiles' /\ Kept' = Kept /\ ElementsOf(written)' = ElementsOf(written)
  <1>1. Kept' = Kept
    BY DEF Kept, ElementsOf
  <1>2. ElementsOf(written)' = ElementsOf(written)
    BY DEF ElementsOf
  <1>3. \A i, j \in Slots : i < j => AllBefore(ElementsOf(files'[j]), ElementsOf(files'[i]))
    BY DEF InFiles
  <1>4. \A i \in Slots : Ascending(files'[i])
    BY DEF InFiles
  <1> QED BY <1>1, <1>2, <1>3, <1>4 DEF InFiles, ElementsOf, Ascending, AllBefore

LEMMA FilesStep == FileInv /\ OrderInv /\ [FileNext]_fileVars => InFiles' /\ ArchivesKnown'
  <1> SUFFICES ASSUME FileInv, OrderInv, [FileNext]_fileVars
               PROVE  InFiles' /\ ArchivesKnown'
    OBVIOUS
  <1>0. /\ FileTypeOK /\ WriterKnown /\ InTurn /\ InFiles /\ ArchivesKnown
        /\ 0 \in Slots /\ Slots \subseteq Nat /\ written \in Seq(FileRecords)
    BY FileLogAssumption DEF FileInv, OrderInv, FileTypeOK, Slots
  <1>1. CASE UNCHANGED <<files, archived, written, restarts>>
    <2>1. InFiles' /\ Kept' = Kept /\ ElementsOf(written)' = ElementsOf(written)
      BY <1>0, <1>1, DiskUnchanged
    <2> QED BY <1>0, <1>1, <2>1 DEF ArchivesKnown, AllBefore
  <1>2. CASE EndDrain
    <2>1. written' = written /\ restarts' = restarts
      BY <1>2 DEF EndDrain, past
    <2>2. RollFile \/ UNCHANGED roll
      BY <1>2 DEF EndDrain
    <2>3. CASE RollFile
      BY <1>0, <2>1, <2>3, RollKeeps
    <2>4. CASE UNCHANGED roll
      BY <1>1, <2>1, <2>4 DEF roll
    <2> QED BY <2>2, <2>3, <2>4
  <1>3. CASE WriteSucceeds
    <2>1. /\ written' = Append(written, writing)
          /\ files' = [files EXCEPT ![0] = Append(@, writing)]
          /\ UNCHANGED <<archived, restarts>>
      BY <1>3 DEF WriteSucceeds
    <2>2. writing # NoRecord /\ writing \in FileRecords
      BY <1>0, <1>3 DEF WriteSucceeds, WriterKnown, FileTypeOK
    <2>3. AllBefore(ElementsOf(written), {writing}) /\ Ascending(written)
      BY <1>0, <2>2 DEF InTurn
    <2>4. AllBefore(Kept, {writing})
      BY <1>0, <2>3, Zenon DEF InFiles, AllBefore
    <2>5. \A i \in Slots : AllBefore(ElementsOf(files[i]), {writing})
      BY <2>4, Zenon DEF Kept, AllBefore
    <2>6. files[0] \in Seq(FileRecords) /\ Ascending(files[0])
      BY <1>0 DEF FileTypeOK, InFiles
    <2>7. /\ ElementsOf(Append(files[0], writing)) = ElementsOf(files[0]) \cup {writing}
          /\ Ascending(Append(files[0], writing))
      BY <1>0, <2>2, <2>5, <2>6, Extended
    <2>8. ElementsOf(written)' = ElementsOf(written) \cup {writing}
      <3>1. ElementsOf(Append(written, writing)) = ElementsOf(written) \cup {writing}
        BY <1>0, <2>2, <2>3, Extended
      <3> QED BY <2>1, <3>1, Zenon DEF ElementsOf
    <2>9. \A i \in Slots : files'[i] = IF i = 0 THEN Append(files[0], writing) ELSE files[i]
      BY <1>0, <2>1 DEF FileTypeOK
    <2>10. \A i \in Slots : /\ ElementsOf(files'[i]) = IF i = 0 THEN ElementsOf(files[0]) \cup {writing}
                                                     ELSE ElementsOf(files[i])
                            /\ Ascending(files'[i])
      BY <1>0, <2>7, <2>9 DEF InFiles
    <2>11. Kept' = Kept \cup {writing}
      <3> DEFINE new(i) == ElementsOf(files'[i])
      <3>1. Kept' = UNION {new(i) : i \in Slots}
        BY DEF Kept, ElementsOf
      <3>2. Kept = UNION {ElementsOf(files[i]) : i \in Slots}
        BY DEF Kept
      <3>3. \A i \in Slots : new(i) \subseteq ElementsOf(files[i]) \cup {writing}
                             /\ ElementsOf(files[i]) \subseteq new(i)
        BY <2>10
      <3>4. writing \in new(0)
        BY <1>0, <2>10
      <3> HIDE DEF new
      <3>5. Kept' \subseteq Kept \cup {writing}
        BY <3>1, <3>2, <3>3
      <3>6. Kept \subseteq Kept' /\ writing \in Kept'
        BY <1>0, <3>1, <3>2, <3>3, <3>4
      <3> QED BY <3>5, <3>6
    <2>12. InFiles'
      <3>1. Kept' \subseteq ElementsOf(written)'
        BY <1>0, <2>8, <2>11 DEF InFiles
      <3>2. ASSUME NEW i \in Slots, NEW j \in Slots, i < j
            PROVE  AllBefore(ElementsOf(files'[j]), ElementsOf(files'[i]))
        <4>1. ElementsOf(files'[j]) = ElementsOf(files[j])
          BY <1>0, <2>10, <3>2
        <4>2. AllBefore(ElementsOf(files[j]), ElementsOf(files[i])) /\ AllBefore(ElementsOf(files[j]), {writing})
          BY <1>0, <2>5, <3>2 DEF InFiles
        <4>3. ElementsOf(files'[i]) \subseteq ElementsOf(files[i]) \cup {writing}
          BY <2>10
        <4> QED BY <4>1, <4>2, <4>3, Zenon DEF AllBefore
      <3> QED BY <2>10, <3>1, <3>2 DEF InFiles, ElementsOf, Ascending, AllBefore
    <2>13. ASSUME restarts' = 0
           PROVE  /\ \A i \in Slots : i > archived' => files'[i] = <<>>
                  /\ AllBefore(ElementsOf(written)' \ Kept', Kept')
                  /\ archived' < MaxFiles - 1 => Kept' = ElementsOf(written)'
      <3>1. /\ \A i \in Slots : i > archived => files[i] = <<>>
            /\ AllBefore(ElementsOf(written) \ Kept, Kept)
            /\ archived < MaxFiles - 1 => Kept = ElementsOf(written)
        BY <1>0, <2>1, <2>13 DEF ArchivesKnown
      <3>2. \A i \in Slots : i > archived' => files'[i] = <<>>
        BY <1>0, <2>1, <2>9, <3>1 DEF FileTypeOK
      <3>3. ElementsOf(written)' \ Kept' \subseteq ElementsOf(written) \ Kept
        BY <2>8, <2>11
      <3>4. AllBefore(ElementsOf(written)' \ Kept', Kept')
        BY <2>3, <2>11, <3>1, <3>3, Zenon DEF AllBefore
      <3> QED BY <2>1, <2>8, <2>11, <3>1, <3>2, <3>4
    <2> QED BY <2>12, <2>13 DEF ArchivesKnown
  <1>4. CASE Restart
    <2>1. restarts' # 0 /\ UNCHANGED <<files, written>>
      BY <1>0, <1>4, FileLogAssumption DEF Restart, FileTypeOK
    <2> QED BY <1>0, <2>1, DiskUnchanged DEF ArchivesKnown
  <1>5. CASE AppendRecord \/ StartDrain \/ WriteNext \/ WriteFails \/ Close \/ FinishClose \/ UNCHANGED fileVars
    BY <1>1, <1>5
    DEF AppendRecord, StartDrain, WriteNext, WriteFails, Close, FinishClose, fileVars, drain, roll, past
  <1> QED BY <1>2, <1>3, <1>4, <1>5 DEF FileNext

(***************************************************************************)
(* FileAppender.rollFile: what was written and what the files hold, from   *)
(* the oldest archive to the newest, is in the order of the appends, and   *)
(* as long as one process rolls, before any restart, it forgets only the   *)
(* oldest, for every number of files.                                      *)
(***************************************************************************)
THEOREM ArchivesInOrder == FileSpec => []KeptInOrder
  <1>1. OrderInv /\ FileInv /\ [FileNext]_fileVars => OrderInv'
    BY InTurnStep, FilesStep DEF OrderInv
  <1>2. OrderInv => KeptInOrder
    BY DEF OrderInv, InTurn, InFiles, ArchivesKnown, AllBefore, KeptInOrder
  <1> QED BY InitOrder, FileInvariant, <1>1, <1>2, PTL DEF FileSpec
=============================================================================
