------------------------ MODULE ThreatDetectorProofs ------------------------
(* Theorems about ThreatDetector, for every number of users and addresses   *)
(* and all thresholds, windows and bounds.                                 *)
EXTENDS ThreatDetector, FiniteSetTheorems, SequenceTheorems, WellFoundedInduction, TLAPS

-----------------------------------------------------------------------------
(* Induction.  The library's theorems take a predicate as a parameter; a   *)
(* set of numbers says the same, and the provers can instantiate it.       *)

LEMMA LeastNatural ==
    ASSUME NEW S \in SUBSET Nat, S # {}
    PROVE  \E n \in S : \A m \in S : n <= m
<1>1. PICK x \in S : \A y \in S : ~(<<y, x>> \in OpToRel(<, Nat))
  BY Zenon, WFMin, NatLessThanWellFounded
<1>2. \A y \in S : ~(y < x)
  BY <1>1 DEF OpToRel
<1> QED BY <1>2

LEMMA SetInduction ==
    ASSUME NEW S, 0 \in S, \A n \in Nat : n \in S => n + 1 \in S
    PROVE  Nat \subseteq S
<1> SUFFICES ASSUME Nat \ S # {} PROVE FALSE
  OBVIOUS
<1>1. PICK n \in Nat \ S : \A m \in Nat \ S : n <= m
  <2>1. Nat \ S \in SUBSET Nat
    OBVIOUS
  <2> QED BY <2>1, LeastNatural
<1>2. n # 0 /\ n - 1 \in Nat /\ n - 1 \in S
  BY <1>1
<1> QED BY <1>1, <1>2

-----------------------------------------------------------------------------
(* What pruning keeps. *)

(* The recursive function exists, so it satisfies its definition.          *)
LEMMA RecentUnfold ==
    ASSUME NEW times \in Seq(Times)
    PROVE  /\ Recent(times)[0] = <<>>
           /\ \A n \in 1 .. Len(times) :
                 Recent(times)[n] = IF IsRecent(times[n], AccessWindow) THEN Append(Recent(times)[n - 1], times[n])
                                  ELSE Recent(times)[n - 1]
<1> DEFINE IsPruning(g, m) ==
             g = [n \in 0 .. m |->
                    IF n = 0 THEN <<>>
                    ELSE IF IsRecent(times[n], AccessWindow) THEN Append(g[n - 1], times[n])
                    ELSE g[n - 1]]
           Reached == {m \in Nat : \E g : IsPruning(g, m)}
<1>1. 0 \in Reached
  <2>1. IsPruning([n \in 0 .. 0 |-> <<>>], 0)
    OBVIOUS
  <2> QED BY <2>1
<1>2. ASSUME NEW m \in Nat, m \in Reached PROVE m + 1 \in Reached
  <2>1. PICK g : IsPruning(g, m)
    BY <1>2
  <2> DEFINE h == [n \in 0 .. m + 1 |->
                     IF n <= m THEN g[n]
                     ELSE IF IsRecent(times[n], AccessWindow) THEN Append(g[m], times[n])
                     ELSE g[m]]
  <2>2. \A n \in 0 .. m : g[n] = IF n = 0 THEN <<>>
                                 ELSE IF IsRecent(times[n], AccessWindow) THEN Append(g[n - 1], times[n])
                                 ELSE g[n - 1]
    BY <2>1
  <2>3. \A n \in 0 .. m + 1 : h[n] = IF n = 0 THEN <<>>
                                     ELSE IF IsRecent(times[n], AccessWindow) THEN Append(h[n - 1], times[n])
                                     ELSE h[n - 1]
    <3> TAKE n \in 0 .. m + 1
    <3>1. CASE n = 0
      BY <2>2, <3>1
    <3>2. CASE n # 0 /\ n <= m
      <4>1. n - 1 \in 0 .. m + 1 /\ n - 1 <= m /\ n \in 0 .. m
        BY <3>2
      <4> QED BY <2>2, <3>2, <4>1
    <3>3. CASE n = m + 1
      <4>1. m \in 0 .. m + 1 /\ n - 1 = m /\ n # 0 /\ ~(n <= m)
        BY <3>3
      <4> QED BY <4>1
    <3> QED BY <3>1, <3>2, <3>3
  <2>4. IsPruning(h, m + 1)
    <3> HIDE DEF IsPruning
    <3>1. h = [n \in 0 .. m + 1 |-> h[n]]
      OBVIOUS
    <3> HIDE DEF h
    <3> QED BY <2>3, <3>1 DEF IsPruning
  <2> HIDE DEF IsPruning
  <2> QED BY <2>4
<1>3. Len(times) \in Reached
  <2> HIDE DEF Reached
  <2>1. Nat \subseteq Reached
    BY <1>1, <1>2, SetInduction
  <2> QED BY <2>1
<1>4. IsPruning(Recent(times), Len(times))
  <2>1. PICK g : IsPruning(g, Len(times))
    BY <1>3
  <2>2. Recent(times) = CHOOSE x : IsPruning(x, Len(times))
    BY Zenon DEF Recent
  <2> HIDE DEF IsPruning
  <2> QED BY <2>1, <2>2
<1>5. \A n \in 0 .. Len(times) :
         Recent(times)[n] = IF n = 0 THEN <<>>
                          ELSE IF IsRecent(times[n], AccessWindow) THEN Append(Recent(times)[n - 1], times[n])
                          ELSE Recent(times)[n - 1]
  BY <1>4
<1> QED BY <1>5

(* The sequence kept has the recent ones of the first n entries, in their  *)
(* order: its entry i is entry f[i].                                         *)
Selects(f, kept, times, n) ==
    /\ f \in [DOMAIN kept -> 1 .. n]
    /\ \A i, j \in DOMAIN kept : i < j => f[i] < f[j]
    /\ \A i \in DOMAIN kept : kept[i] = times[f[i]] /\ IsRecent(times[f[i]], AccessWindow)
    /\ \A k \in 1 .. n : IsRecent(times[k], AccessWindow) => \E i \in DOMAIN kept : f[i] = k

LEMMA RecentIsSelection ==
    ASSUME NEW times \in Seq(Times)
    PROVE  /\ Recent(times)[Len(times)] \in Seq(Times)
           /\ \E f : Selects(f, Recent(times)[Len(times)], times, Len(times))
<1> DEFINE Good(n) == Recent(times)[n] \in Seq(Times) /\ \E f : Selects(f, Recent(times)[n], times, n)
           Done == {n \in Nat : n <= Len(times) => Good(n)}
<1>1. 0 \in Done
  <2>1. Recent(times)[0] = <<>>
    BY RecentUnfold
  <2> DEFINE none == [i \in DOMAIN <<>> |-> 0]
  <2>2. DOMAIN <<>> = {} /\ 1 .. 0 = {} /\ <<>> \in Seq(Times)
    OBVIOUS
  <2>3. none \in [DOMAIN <<>> -> 1 .. 0]
    BY <2>2
  <2>4. Selects(none, <<>>, times, 0)
    BY <2>2, <2>3 DEF Selects
  <2> QED BY <2>1, <2>2, <2>4
<1>2. ASSUME NEW n \in Nat, n \in Done PROVE n + 1 \in Done
  <2> SUFFICES ASSUME n + 1 <= Len(times) PROVE Good(n + 1)
    OBVIOUS
  <2> DEFINE old == Recent(times)[n]
             new == Recent(times)[n + 1]
  <2>1. n + 1 \in 1 .. Len(times) /\ n + 1 - 1 = n /\ times[n + 1] \in Times /\ n <= Len(times)
    OBVIOUS
  <2>2. new = IF IsRecent(times[n + 1], AccessWindow) THEN Append(old, times[n + 1]) ELSE old
    BY <2>1, RecentUnfold
  <2>3. old \in Seq(Times)
    BY <1>2, <2>1
  <2>4. PICK f : Selects(f, old, times, n)
    BY <1>2, <2>1
  <2> HIDE DEF old, new
  <2>5. CASE ~IsRecent(times[n + 1], AccessWindow)
    <3>1. Selects(f, old, times, n + 1)
      BY <2>3, <2>4, <2>5 DEF Selects
    <3> QED BY <2>2, <2>3, <2>5, <3>1 DEF new
  <2>6. CASE IsRecent(times[n + 1], AccessWindow)
    <3> DEFINE g == [i \in 1 .. Len(old) + 1 |-> IF i <= Len(old) THEN f[i] ELSE n + 1]
    <3>1. /\ new \in Seq(Times) /\ DOMAIN new = 1 .. Len(old) + 1 /\ Len(old) \in Nat
          /\ DOMAIN old = 1 .. Len(old)
          /\ \A i \in DOMAIN old : new[i] = old[i]
          /\ new[Len(old) + 1] = times[n + 1]
      BY <2>1, <2>2, <2>3, <2>6
    <3>2. \A i \in 1 .. Len(old) : f[i] \in 1 .. n
      BY <2>4, <3>1 DEF Selects
    <3>3. g \in [DOMAIN new -> 1 .. n + 1]
      BY <3>1, <3>2
    <3>4. \A i, j \in DOMAIN new : i < j => g[i] < g[j]
      BY <2>4, <3>1, <3>2 DEF Selects
    <3>5. \A i \in DOMAIN new : new[i] = times[g[i]] /\ IsRecent(times[g[i]], AccessWindow)
      BY <2>4, <2>6, <3>1 DEF Selects
    <3>6. ASSUME NEW k \in 1 .. n + 1, IsRecent(times[k], AccessWindow)
          PROVE  \E i \in DOMAIN new : g[i] = k
      <4>1. CASE k = n + 1
        BY <3>1, <4>1
      <4>2. CASE k \in 1 .. n
        <5>1. PICK i \in DOMAIN old : f[i] = k
          BY <2>4, <3>6, <4>2 DEF Selects
        <5> QED BY <3>1, <5>1
      <4> QED BY <4>1, <4>2
    <3>7. Selects(g, new, times, n + 1)
      BY <3>3, <3>4, <3>5, <3>6 DEF Selects
    <3> QED BY <3>1, <3>7 DEF new
  <2> QED BY <2>5, <2>6
<1>3. Len(times) \in Done
  <2> HIDE DEF Done
  <2>1. Nat \subseteq Done
    BY <1>1, <1>2, SetInduction
  <2> QED BY <2>1
<1> QED BY <1>3

-----------------------------------------------------------------------------
(* Types. *)

LEMMA PushedDeque ==
    ASSUME now \in Times, NEW d \in Seq(Times), Len(d) <= MaxLen
    PROVE  /\ PushBounded(d) \in Seq(Times) /\ Len(PushBounded(d)) <= MaxLen
           /\ Len(d) < MaxLen => PushBounded(d) = Append(d, now)
           /\ Len(d) = MaxLen => /\ Len(PushBounded(d)) = MaxLen
                                 /\ PushBounded(d)[MaxLen] = now
                                 /\ \A i \in 1 .. MaxLen - 1 : PushBounded(d)[i] = d[i + 1]
<1>1. MaxLen \in Nat \ {0} /\ Len(d) \in Nat
  BY ThresholdAssumption
<1>2. CASE Len(d) < MaxLen
  BY <1>1, <1>2 DEF PushBounded
<1>3. CASE Len(d) = MaxLen
  <2>1. d # <<>> /\ Tail(d) \in Seq(Times) /\ Len(Tail(d)) = MaxLen - 1
        /\ \A i \in 1 .. MaxLen - 1 : Tail(d)[i] = d[i + 1]
    BY <1>1, <1>3
  <2>2. PushBounded(d) = Append(Tail(d), now)
    BY <1>1, <1>3 DEF PushBounded
  <2> QED BY <1>1, <1>3, <2>1, <2>2
<1> QED BY <1>1, <1>2, <1>3

(* A report makes the list of threats longer.                              *)
LEMMA ReportType ==
    ASSUME TypeOK, NEW type \in ThreatTypes,
           NEW level \in {"medium", "high", "critical"}, NEW ip \in Ips \cup {"none"},
           Report(type, level, ip)
    PROVE  threats' \in Seq(Threat) /\ threats' # threats
<1> DEFINE new == [type |-> type, level |-> level, ip |-> ip, at |-> now, resolved |-> FALSE]
<1>1. new \in Threat
  BY DEF Threat, TypeOK
<1>2. threats' = Append(threats, new)
  BY DEF Report
<1> HIDE DEF new
<1>3. threats \in Seq(Threat) /\ Len(threats') = Len(threats) + 1 /\ Len(threats) \in Nat
  BY <1>1, <1>2 DEF TypeOK
<1> QED BY <1>1, <1>2, <1>3

LEMMA TypeStep == TypeOK /\ [Next]_vars => TypeOK'
<1> SUFFICES ASSUME TypeOK, [Next]_vars PROVE TypeOK'
  OBVIOUS
<1> USE ThresholdAssumption
<1>1. ASSUME Call PROVE calls' \in 0 .. MaxCalls
  BY <1>1 DEF Call, TypeOK
<1>2. ASSUME NEW u \in Users, NEW ip \in Ips, DetectFailedLogin(u, ip) PROVE TypeOK'
  <2>1. <<u, ip>> \in Keys
    BY DEF Keys
  <2>2. PICK key \in Keys : key = <<u, ip>>
    BY <2>1
  <2>3. failed' \in [Keys -> Seq(Times)] /\ \A k \in Keys : Len(failed'[k]) <= MaxLen
    <3>1. failed' = [failed EXCEPT ![key] = PushBounded(failed[key])]
      BY <1>2, <2>2 DEF DetectFailedLogin
    <3>2. PushBounded(failed[key]) \in Seq(Times) /\ Len(PushBounded(failed[key])) <= MaxLen
      BY PushedDeque DEF TypeOK
    <3> QED BY <3>1, <3>2 DEF TypeOK
  <2>4. failures' \in [Keys -> Seq(Times)]
    <3>1. failures' = [failures EXCEPT ![key] = Append(failures[key], now)]
      BY <1>2, <2>2 DEF DetectFailedLogin
    <3>2. Append(failures[key], now) \in Seq(Times)
      BY DEF TypeOK
    <3> QED BY <3>1, <3>2 DEF TypeOK
  <2>5. threats' \in Seq(Threat)
    <3>1. \/ UNCHANGED threats
          \/ \E level \in {"medium", "high"} : Report("brute_force", level, ip)
      BY <1>2 DEF DetectFailedLogin
    <3> QED BY <3>1, ReportType DEF TypeOK, ThreatTypes
  <2>6. Call /\ UNCHANGED <<now, accesses, suspicious, reads>>
    BY <1>2 DEF DetectFailedLogin
  <2> QED BY <1>1, <2>3, <2>4, <2>5, <2>6 DEF TypeOK
<1>3. ASSUME NEW u \in Users, NEW ip \in Ips, DetectAccess(u, ip) PROVE TypeOK'
  <2>1. /\ Call /\ UNCHANGED <<now, failed, suspicious, failures>>
        /\ accesses' = [accesses EXCEPT ![u] = Pruned(Append(accesses[u], now))]
        /\ reads' = [reads EXCEPT ![u] = Append(reads[u], now)]
    BY <1>3 DEF DetectAccess
  <2>2. Append(accesses[u], now) \in Seq(Times) /\ Append(reads[u], now) \in Seq(Times)
    BY DEF TypeOK
  <2>3. Pruned(Append(accesses[u], now)) \in Seq(Times)
    BY <2>2, RecentIsSelection DEF Pruned
  <2>4. accesses' \in [Users -> Seq(Times)] /\ reads' \in [Users -> Seq(Times)]
    BY <2>1, <2>2, <2>3 DEF TypeOK
  <2>5. threats' \in Seq(Threat)
    <3>1. UNCHANGED threats \/ Report("anomalous_access", "medium", ip)
      BY <1>3 DEF DetectAccess
    <3> QED BY <3>1, ReportType DEF TypeOK, ThreatTypes
  <2> QED BY <1>1, <2>1, <2>4, <2>5 DEF TypeOK
<1>4. ASSUME NEW type \in ThreatTypes, NEW level \in {"medium", "high"},
             NEW ip \in Ips \cup {"none"}, DetectOther(type, level, ip)
      PROVE  TypeOK'
  BY <1>1, <1>4, ReportType DEF DetectOther, TypeOK
<1>5. ASSUME NEW ip \in Ips, DetectUnauthorized(ip) PROVE TypeOK'
  <2>1. LevelOf(suspicious'[ip]) \in {"medium", "high", "critical"}
    BY DEF LevelOf
  <2>2. threats' \in Seq(Threat)
    BY <1>5, <2>1, ReportType DEF DetectUnauthorized, ThreatTypes
  <2>3. suspicious' \in [Ips -> Nat]
    BY <1>5 DEF DetectUnauthorized, TypeOK
  <2> QED BY <1>1, <1>5, <2>2, <2>3 DEF DetectUnauthorized, TypeOK
<1>6. ASSUME NEW type, NEW at, ResolveThreat(type, at) PROVE TypeOK'
  <2>1. PICK n : threats' = [threats EXCEPT ![n].resolved = TRUE]
    BY <1>6 DEF ResolveThreat
  <2>2. DOMAIN threats = 1 .. Len(threats) /\ Len(threats) \in Nat
        /\ \A i \in 1 .. Len(threats) : threats[i] \in Threat
    BY DEF TypeOK
  <2>3. \A i \in 1 .. Len(threats) : [threats[i] EXCEPT !.resolved = TRUE] \in Threat
    BY <2>2 DEF Threat
  <2>4. threats' \in [1 .. Len(threats) -> Threat]
    <3>1. threats' = [i \in 1 .. Len(threats) |->
                        IF i = n THEN [threats[i] EXCEPT !.resolved = TRUE] ELSE threats[i]]
      BY <2>1, <2>2
    <3> QED BY <2>2, <2>3, <3>1
  <2>5. threats' \in Seq(Threat)
    BY <2>2, <2>4, SeqDef
  <2> QED BY <1>6, <2>5 DEF ResolveThreat, TypeOK
<1>7. CASE Tick
  BY <1>7 DEF Tick, TypeOK, Times
<1>8. CASE UNCHANGED vars
  BY <1>8 DEF vars, TypeOK
<1> QED BY <1>2, <1>3, <1>4, <1>5, <1>6, <1>7, <1>8 DEF Next, AnalyzeLoginAnomaly, DetectDataExfiltration,
                                                 ThreatTypes

LEMMA TypeInit == Init => TypeOK
  BY ThresholdAssumption DEF Init, TypeOK, Times

(* Every reachable state has its type; in particular no deque grows past   *)
(* its bound.                                                              *)
THEOREM DetectorTypeCorrect == Spec => []TypeOK
  BY TypeInit, TypeStep, PTL DEF Spec

-----------------------------------------------------------------------------
(* Failed logins.  The deque has the end of the history, as much of it as  *)
(* it can hold; the history is in the order of time.                       *)

DequeOf(d, h) ==
    /\ Len(d) = IF Len(h) < MaxLen THEN Len(h) ELSE MaxLen
    /\ \A i \in DOMAIN d : d[i] = h[Len(h) - Len(d) + i]

InOrder(h) ==
    /\ \A i \in DOMAIN h : h[i] <= now
    /\ \A i, j \in DOMAIN h : i < j => h[i] <= h[j]

DequeInv == \A key \in Keys : DequeOf(failed[key], failures[key]) /\ InOrder(failures[key])

LEMMA PushKeepsDeque ==
    ASSUME now \in Times, NEW d \in Seq(Times), NEW h \in Seq(Times), DequeOf(d, h), InOrder(h)
    PROVE  DequeOf(PushBounded(d), Append(h, now)) /\ InOrder(Append(h, now))
<1> DEFINE new == PushBounded(d)
           all == Append(h, now)
<1>1. /\ Len(h) \in Nat /\ Len(d) \in Nat /\ MaxLen \in Nat \ {0} /\ Len(d) <= MaxLen
      /\ DOMAIN h = 1 .. Len(h) /\ DOMAIN d = 1 .. Len(d)
  BY ThresholdAssumption DEF DequeOf
<1>0. /\ Len(h) \in Nat /\ Len(d) \in Nat /\ MaxLen \in Nat
      /\ Len(d) = IF Len(h) < MaxLen THEN Len(h) ELSE MaxLen
  <2>1. Len(h) \in Nat /\ Len(d) \in Nat
    OBVIOUS
  <2>2. MaxLen \in Nat
    BY ThresholdAssumption
  <2> QED BY Zenon, <2>1, <2>2 DEF DequeOf
<1>2. /\ all \in Seq(Times) /\ Len(all) = Len(h) + 1 /\ all[Len(h) + 1] = now
      /\ DOMAIN all = 1 .. Len(h) + 1
      /\ \A i \in 1 .. Len(h) : all[i] = h[i]
  OBVIOUS
<1>3. InOrder(all)
  BY <1>1, <1>2 DEF InOrder, Times
<1>4. CASE Len(d) < MaxLen
  <2>1. Len(h) = Len(d)
    BY <1>0, <1>4
  <2>2. new = Append(d, now)
    BY <1>4, PushedDeque, <1>1
  <2>3. /\ Len(new) = Len(d) + 1 /\ new[Len(d) + 1] = now /\ DOMAIN new = 1 .. Len(d) + 1
        /\ \A i \in 1 .. Len(d) : new[i] = d[i]
    BY <2>2
  <2>4. \A i \in 1 .. Len(d) : d[i] = h[i]
    <3>1. \A i \in 1 .. Len(d) : d[i] = h[Len(h) - Len(d) + i]
      BY <1>1 DEF DequeOf
    <3>2. \A i \in 1 .. Len(d) : Len(h) - Len(d) + i = i
      BY <1>1, <2>1
    <3> QED BY <3>1, <3>2
  <2>5. \A i \in DOMAIN new : new[i] = all[Len(all) - Len(new) + i]
    <3> HIDE DEF new, all
    <3>1. \A i \in 1 .. Len(d) + 1 : Len(all) - Len(new) + i = i
      BY <1>1, <1>2, <2>1, <2>3
    <3>2. \A i \in 1 .. Len(d) + 1 : i \in 1 .. Len(d) \/ i = Len(d) + 1
      BY <1>1
    <3>3. \A i \in 1 .. Len(d) : new[i] = all[i]
      BY <1>1, <1>2, <2>1, <2>3, <2>4
    <3>4. new[Len(d) + 1] = all[Len(d) + 1]
      BY <1>2, <2>1, <2>3
    <3> QED BY <2>3, <3>1, <3>2, <3>3, <3>4
  <2>6. Len(new) = IF Len(all) < MaxLen THEN Len(all) ELSE MaxLen
    BY <1>1, <1>2, <1>4, <2>1, <2>3
  <2> HIDE DEF new, all
  <2>7. DequeOf(new, all)
    BY <2>5, <2>6 DEF DequeOf
  <2> QED BY <1>3, <2>7 DEF new, all
<1>5. CASE Len(d) = MaxLen
  <2>1. Len(h) >= MaxLen
    BY <1>0, <1>5
  <2>2. /\ Len(new) = MaxLen /\ new[MaxLen] = now
        /\ \A i \in 1 .. MaxLen - 1 : new[i] = d[i + 1]
        /\ new \in Seq(Times)
    BY <1>1, <1>5, PushedDeque
  <2>3. \A i \in 1 .. MaxLen : d[i] = h[Len(h) - MaxLen + i]
    BY <1>1, <1>5 DEF DequeOf
  <2>4. ASSUME NEW i \in 1 .. MaxLen PROVE new[i] = all[Len(all) - MaxLen + i]
    <3>1. CASE i = MaxLen
      <4>1. Len(all) - MaxLen + i = Len(h) + 1
        BY <1>1, <1>2, <3>1
      <4> QED BY <1>2, <2>2, <3>1, <4>1
    <3>2. CASE i \in 1 .. MaxLen - 1
      <4>1. /\ i + 1 \in 1 .. MaxLen
            /\ Len(all) - MaxLen + i = Len(h) - MaxLen + (i + 1)
            /\ Len(h) - MaxLen + (i + 1) \in 1 .. Len(h)
        BY <1>1, <1>2, <2>1, <3>2
      <4>2. new[i] = d[i + 1] /\ d[i + 1] = h[Len(h) - MaxLen + (i + 1)]
        BY <2>2, <2>3, <3>2, <4>1
      <4> QED BY <1>2, <4>1, <4>2
    <3>3. i = MaxLen \/ i \in 1 .. MaxLen - 1
      BY <1>1
    <3> QED BY <3>1, <3>2, <3>3
  <2>5. DOMAIN new = 1 .. MaxLen
    BY <2>2
  <2>6. MaxLen = IF Len(all) < MaxLen THEN Len(all) ELSE MaxLen
    BY <1>1, <1>2, <2>1
  <2> HIDE DEF new, all
  <2>7. \A i \in DOMAIN new : new[i] = all[Len(all) - Len(new) + i]
    BY <2>2, <2>4, <2>5
  <2>8. Len(new) = IF Len(all) < MaxLen THEN Len(all) ELSE MaxLen
    BY <2>2, <2>6
  <2>9. DequeOf(new, all)
    BY <2>7, <2>8 DEF DequeOf
  <2> QED BY <1>3, <2>9 DEF new, all
<1>6. Len(d) < MaxLen \/ Len(d) = MaxLen
  <2>1. Len(d) \in Nat /\ MaxLen \in Nat /\ Len(d) <= MaxLen
    BY Zenon, <1>1
  <2> QED BY <2>1
<1> QED BY Zenon, <1>4, <1>5, <1>6

(* The deque reaches the threshold when the history does: what it dropped  *)
(* counts only when everything in it does, and then it is full.            *)
LEMMA DequeCounts ==
    ASSUME now \in Times, NEW d \in Seq(Times), NEW h \in Seq(Times), DequeOf(d, h), InOrder(h)
    PROVE  RecentFailures(d) >= LoginThreshold <=> InWindow(h, LoginWindow) >= LoginThreshold
<1> DEFINE k == Len(h) - Len(d)
           D == {i \in DOMAIN d : IsRecent(d[i], LoginWindow)}
           H == {j \in DOMAIN h : h[j] + LoginWindow > now}
           shift == [i \in D |-> k + i]
<1>1. /\ Len(h) \in Nat /\ Len(d) \in Nat /\ MaxLen \in Nat \ {0} /\ LoginWindow \in Nat
      /\ LoginThreshold \in Nat /\ LoginThreshold <= MaxLen
      /\ DOMAIN h = 1 .. Len(h) /\ DOMAIN d = 1 .. Len(d)
  BY ThresholdAssumption
<1>2. /\ k \in Nat /\ \A i \in DOMAIN d : k + i \in DOMAIN h /\ d[i] = h[k + i]
      /\ k > 0 => Len(d) = MaxLen
  BY <1>1 DEF DequeOf
<1>3. now \in Int /\ \A j \in DOMAIN h : h[j] \in Int
  <2>1. Times \subseteq Int
    BY ThresholdAssumption DEF Times
  <2>2. \A j \in DOMAIN h : h[j] \in Times
    OBVIOUS
  <2> QED BY <2>1, <2>2
<1>4. \A i \in DOMAIN d : i \in D <=> k + i \in H
  <2> SUFFICES ASSUME NEW i \in DOMAIN d PROVE i \in D <=> k + i \in H
    OBVIOUS
  <2>1. k + i \in DOMAIN h /\ d[i] = h[k + i]
    BY <1>2
  <2>2. IsRecent(d[i], LoginWindow) <=> h[k + i] + LoginWindow > now
    <3>1. h[k + i] \in Int
      BY <1>3, <2>1
    <3>2. \A x \in Int : now - x < LoginWindow <=> x + LoginWindow > now
      BY <1>1, <1>3
    <3> QED BY <2>1, <3>1, <3>2 DEF IsRecent
  <2> HIDE DEF k
  <2> QED BY <2>1, <2>2
<1>5. IsFiniteSet(D) /\ IsFiniteSet(H) /\ Cardinality(D) \in Nat /\ Cardinality(H) \in Nat
  <2>1. IsFiniteSet(1 .. Len(d)) /\ IsFiniteSet(1 .. Len(h))
    BY <1>1, FS_Interval
  <2>2. D \in SUBSET (1 .. Len(d)) /\ H \in SUBSET (1 .. Len(h))
    BY <1>1
  <2> QED BY <2>1, <2>2, FS_Subset, FS_CardinalityType
<1>6. shift \in Injection(D, H)
  <2>1. \A i \in D : i \in DOMAIN d /\ i \in Int
    BY <1>1
  <2>2. shift \in [D -> H]
    BY <1>4, <2>1
  <2>3. \A a, b \in D : shift[a] = shift[b] => a = b
    BY <1>2, <2>1
  <2> HIDE DEF shift
  <2> QED BY <2>2, <2>3 DEF Injection, IsInjective
<1>7. /\ Cardinality(D) <= Cardinality(H)
      /\ Cardinality(D) = Cardinality(H) <=> shift \in Surjection(D, H)
  <2> HIDE DEF shift, D, H
  <2> QED BY <1>5, <1>6, FS_Injection
<1>8. CASE \E j \in H : j <= k
  <2>1. PICK j \in H : j <= k
    BY <1>8
  <2>2. Len(d) = MaxLen
    <3>1. j \in 1 .. Len(h) /\ k \in Nat
      BY <1>1, <1>2
    <3> HIDE DEF k, H
    <3> QED BY <1>2, <2>1, <3>1
  <2>3. D = 1 .. MaxLen
    <3> SUFFICES ASSUME NEW i \in 1 .. MaxLen PROVE k + i \in H
      BY <1>1, <1>4, <2>2
    <3>1. k + i \in DOMAIN h /\ j \in DOMAIN h /\ j < k + i
      BY <1>1, <1>2, <2>1, <2>2
    <3>2. h[j] <= h[k + i]
      BY <3>1 DEF InOrder
    <3> QED BY <1>1, <1>3, <2>1, <3>1, <3>2
  <2>4. Cardinality(1 .. MaxLen) = MaxLen
    BY <1>1, FS_Interval
  <2>5. Cardinality(D) = MaxLen
    BY <2>3, <2>4
  <2> HIDE DEF D, H
  <2>6. Cardinality(D) >= LoginThreshold /\ Cardinality(H) >= LoginThreshold
    BY <1>1, <1>5, <1>7, <2>5
  <2> QED BY <2>6 DEF RecentFailures, InWindow, D, H
<1>9. CASE \A j \in H : ~(j <= k)
  <2>1. ASSUME NEW j \in H PROVE \E i \in D : shift[i] = j
    <3>1. j \in 1 .. Len(h) /\ ~(j <= k)
      BY <1>1, <1>9
    <3>2. j - k \in 1 .. Len(d) /\ k + (j - k) = j
      BY <1>1, <3>1
    <3>3. j - k \in D
      BY <1>1, <1>4, <3>2
    <3> QED BY <3>2, <3>3
  <2>2. shift \in Surjection(D, H)
    <3>1. shift \in [D -> H]
      BY <1>6 DEF Injection
    <3> HIDE DEF shift
    <3> QED BY <2>1, <3>1 DEF Surjection
  <2>3. Cardinality(D) = Cardinality(H)
    BY <1>7, <2>2
  <2> HIDE DEF D, H
  <2> QED BY <2>3 DEF RecentFailures, InWindow, D, H
<1> QED BY <1>8, <1>9

LEMMA DequeStep == TypeOK /\ DequeInv /\ [Next]_vars => DequeInv'
<1> SUFFICES ASSUME TypeOK, DequeInv, [Next]_vars PROVE DequeInv'
  OBVIOUS
<1>1. ASSUME UNCHANGED <<failed, failures>>, now' \in Int, now' >= now PROVE DequeInv'
  <2>1. ASSUME NEW key \in Keys PROVE InOrder(failures[key])'
    <3>1. now \in Int /\ \A i \in DOMAIN failures[key] : failures[key][i] \in Int
      <4>1. failures[key] \in Seq(Times) /\ now \in Times /\ Times \subseteq Int
        BY ThresholdAssumption DEF TypeOK, Times
      <4> QED BY <4>1
    <3>2. InOrder(failures[key])
      BY DEF DequeInv
    <3>3. \A i \in DOMAIN failures[key] : failures[key][i] <= now'
      BY <1>1, <3>1, <3>2 DEF InOrder
    <3> QED BY <1>1, <3>2, <3>3 DEF InOrder
  <2> QED BY <1>1, <2>1 DEF DequeInv, DequeOf
<1>2. now \in Int
  BY DEF TypeOK, Times
<1>3. ASSUME NEW u \in Users, NEW ip \in Ips, DetectFailedLogin(u, ip) PROVE DequeInv'
  <2>1. PICK key \in Keys : key = <<u, ip>>
    BY DEF Keys
  <2>2. /\ failed' = [failed EXCEPT ![key] = PushBounded(failed[key])]
        /\ failures' = [failures EXCEPT ![key] = Append(failures[key], now)]
        /\ now' = now
    BY <1>3, <2>1 DEF DetectFailedLogin
  <2>3. failed'[key] = PushBounded(failed[key]) /\ failures'[key] = Append(failures[key], now)
        /\ \A k \in Keys \ {key} : failed'[k] = failed[k] /\ failures'[k] = failures[k]
    BY <2>2 DEF TypeOK
  <2>4. /\ DequeOf(PushBounded(failed[key]), Append(failures[key], now))
        /\ InOrder(Append(failures[key], now))
    BY PushKeepsDeque DEF TypeOK, DequeInv
  <2>5. ASSUME NEW other \in Keys
        PROVE  (DequeOf(failed[other], failures[other]) /\ InOrder(failures[other]))'
    <3>1. CASE other = key
      BY <2>2, <2>3, <2>4, <3>1 DEF DequeOf, InOrder
    <3>2. CASE other # key
      BY <2>2, <2>3, <3>2 DEF DequeInv, DequeOf, InOrder
    <3> QED BY <3>1, <3>2
  <2> QED BY <2>5 DEF DequeInv
<1>4. CASE Tick
  BY <1>1, <1>2, <1>4 DEF Tick
<1>5. ASSUME UNCHANGED <<failed, failures, now>> PROVE DequeInv'
  BY <1>1, <1>2, <1>5
<1>6. ASSUME NEW u \in Users, NEW ip \in Ips, DetectAccess(u, ip) PROVE DequeInv'
  BY <1>5, <1>6 DEF DetectAccess
<1>7. ASSUME NEW ip, NEW type, NEW level,
             DetectUnauthorized(ip) \/ DetectOther(type, level, ip) PROVE DequeInv'
  BY <1>5, <1>7 DEF DetectUnauthorized, DetectOther
<1>8. ASSUME NEW type, NEW at, ResolveThreat(type, at) PROVE DequeInv'
  BY <1>5, <1>8 DEF ResolveThreat
<1>9. CASE UNCHANGED vars
  BY <1>5, <1>9 DEF vars
<1> QED BY <1>3, <1>4, <1>6, <1>7, <1>8, <1>9 DEF Next, AnalyzeLoginAnomaly, DetectDataExfiltration,
                                                 ThreatTypes

(* detect_failed_login reports a failed login exactly when it completes    *)
(* the threshold, counted over everything that happened, whatever the      *)
(* deque has dropped and whatever stale entries it still has.              *)
THEOREM BruteForceReported == Spec => BruteForceIsReported
<1>1. Init => DequeInv
  <2> SUFFICES ASSUME Init, NEW key \in Keys
               PROVE  DequeOf(failed[key], failures[key]) /\ InOrder(failures[key])
    BY DEF DequeInv
  <2>1. failed[key] = <<>> /\ failures[key] = <<>>
    BY DEF Init
  <2> QED BY <2>1, ThresholdAssumption DEF DequeOf, InOrder
<1>2. ASSUME TypeOK, DequeInv, [Next]_vars, NEW u \in Users, NEW ip \in Ips,
             failures'[<<u, ip>>] # failures[<<u, ip>>]
      PROVE  threats' # threats <=> InWindow(failures'[<<u, ip>>], LoginWindow) >= LoginThreshold
  <2>1. PICK v \in Users, ap \in Ips : DetectFailedLogin(v, ap)
    BY <1>2 DEF Next, DetectAccess, DetectOther, AnalyzeLoginAnomaly,
              DetectDataExfiltration, DetectUnauthorized, ResolveThreat, Tick, vars
  <2>2. PICK key \in Keys : key = <<v, ap>>
    BY DEF Keys
  <2>3. /\ failed' = [failed EXCEPT ![key] = PushBounded(failed[key])]
        /\ failures' = [failures EXCEPT ![key] = Append(failures[key], now)]
    BY <2>1, <2>2 DEF DetectFailedLogin
  <2>4. <<u, ip>> = key
    BY <1>2, <2>3 DEF Keys, TypeOK
  <2>5. failed'[key] = PushBounded(failed[key]) /\ failures'[key] = Append(failures[key], now)
    BY <1>2, <2>3 DEF TypeOK
  <2> DEFINE d == PushBounded(failed[key])
             h == Append(failures[key], now)
  <2>6. d \in Seq(Times) /\ h \in Seq(Times) /\ DequeOf(d, h) /\ InOrder(h)
    BY <1>2, PushedDeque, PushKeepsDeque DEF TypeOK, DequeInv
  <2>7. RecentFailures(d) >= LoginThreshold <=> InWindow(h, LoginWindow) >= LoginThreshold
    <3> HIDE DEF d, h
    <3> QED BY <1>2, <2>6, DequeCounts DEF TypeOK
  <2>8. \/ RecentFailures(d) >= LoginThreshold /\ threats' # threats
        \/ RecentFailures(d) < LoginThreshold /\ UNCHANGED threats
    <3>1. \/ /\ RecentFailures(failed'[key]) >= LoginThreshold
             /\ \E level \in {"medium", "high"} : Report("brute_force", level, ap)
          \/ RecentFailures(failed'[key]) < LoginThreshold /\ UNCHANGED threats
      BY <2>1, <2>2 DEF DetectFailedLogin
    <3> QED BY <1>2, <2>5, <3>1, ReportType DEF ThreatTypes
  <2>9. ~(RecentFailures(d) < LoginThreshold /\ RecentFailures(d) >= LoginThreshold)
    <3>1. IsFiniteSet(1 .. Len(d)) /\ DOMAIN d = 1 .. Len(d)
      BY <2>6, FS_Interval
    <3>2. {i \in DOMAIN d : IsRecent(d[i], LoginWindow)} \in SUBSET (1 .. Len(d))
      BY <3>1
    <3>3. RecentFailures(d) \in Nat
      BY <3>1, <3>2, FS_Subset, FS_CardinalityType DEF RecentFailures
    <3> HIDE DEF d
    <3> QED BY <3>3, ThresholdAssumption
  <2> HIDE DEF d, h
  <2> QED BY <2>4, <2>5, <2>7, <2>8, <2>9 DEF d, h
<1>3. TypeOK /\ DequeInv /\ [Next]_vars =>
        [\A u \in Users, ip \in Ips :
           failures'[<<u, ip>>] # failures[<<u, ip>>] =>
             (threats' # threats <=> InWindow(failures'[<<u, ip>>], LoginWindow) >= LoginThreshold)]_vars
  BY <1>2
<1> QED BY <1>1, <1>3, DequeStep, DetectorTypeCorrect, PTL DEF Spec, BruteForceIsReported

-----------------------------------------------------------------------------
(* Data accesses.  The list of a user has every access that the window     *)
(* still counts, and nothing that did not happen: entry i is access f[i].  *)

Tracks(f, list, h) ==
    /\ f \in [DOMAIN list -> DOMAIN h]
    /\ \A i, j \in DOMAIN list : f[i] = f[j] => i = j
    /\ \A i \in DOMAIN list : list[i] = h[f[i]]
    /\ \A k \in DOMAIN h : h[k] + AccessWindow > now => \E i \in DOMAIN list : f[i] = k

AccessInv == \A u \in Users : \E f : Tracks(f, accesses[u], reads[u])

LEMMA TimesAreNumbers == now \in Times => now \in Int /\ Times \subseteq Int /\ AccessWindow \in Nat
  BY ThresholdAssumption DEF Times

LEMMA PushTracked ==
    ASSUME NEW list \in Seq(Times), NEW h \in Seq(Times), now \in Times, NEW f, Tracks(f, list, h)
    PROVE  \E g : Tracks(g, Append(list, now), Append(h, now))
<1> DEFINE long == Append(list, now)
           all == Append(h, now)
           g == [i \in 1 .. Len(list) + 1 |-> IF i <= Len(list) THEN f[i] ELSE Len(h) + 1]
<1>1. /\ Len(list) \in Nat /\ DOMAIN list = 1 .. Len(list) /\ DOMAIN long = 1 .. Len(list) + 1
      /\ long[Len(list) + 1] = now
      /\ \A i \in 1 .. Len(list) : long[i] = list[i]
  OBVIOUS
<1>2. /\ Len(h) \in Nat /\ DOMAIN h = 1 .. Len(h) /\ DOMAIN all = 1 .. Len(h) + 1
      /\ all[Len(h) + 1] = now
      /\ \A i \in 1 .. Len(h) : all[i] = h[i]
  OBVIOUS
<1> HIDE DEF long, all
<1>3. \A i \in 1 .. Len(list) : f[i] \in 1 .. Len(h)
  BY <1>1, <1>2 DEF Tracks
<1>4. \A i \in 1 .. Len(list) : g[i] = f[i] /\ i \in 1 .. Len(list) + 1
  BY <1>1
<1>5. g[Len(list) + 1] = Len(h) + 1 /\ Len(list) + 1 \in 1 .. Len(list) + 1
  BY <1>1
<1>6. \A i \in 1 .. Len(list) + 1 : i \in 1 .. Len(list) \/ i = Len(list) + 1
  BY <1>1
<1>7. \A k \in 1 .. Len(h) + 1 : k \in 1 .. Len(h) \/ k = Len(h) + 1
  BY <1>2
<1>8. \A k \in 1 .. Len(h) : k # Len(h) + 1 /\ k \in 1 .. Len(h) + 1
  BY <1>2
<1>9. g \in [DOMAIN long -> DOMAIN all]
  <2>1. Len(h) + 1 \in 1 .. Len(h) + 1
    BY <1>2
  <2>2. \A i \in 1 .. Len(list) + 1 : g[i] \in 1 .. Len(h) + 1
    <3> HIDE DEF g
    <3> QED BY <1>3, <1>4, <1>5, <1>6, <1>8, <2>1
  <2> QED BY <1>1, <1>2, <2>2
<1> HIDE DEF g
<1>10. \A i, j \in DOMAIN long : g[i] = g[j] => i = j
  <2>1. \A i, j \in 1 .. Len(list) : f[i] = f[j] => i = j
    BY <1>1 DEF Tracks
  <2> QED BY <1>1, <1>3, <1>4, <1>5, <1>6, <1>8, <2>1
<1>11. \A i \in DOMAIN long : long[i] = all[g[i]]
  <2>1. \A i \in 1 .. Len(list) : list[i] = h[f[i]]
    BY <1>1 DEF Tracks
  <2> QED BY <1>1, <1>2, <1>3, <1>4, <1>5, <1>6, <2>1
<1>12. ASSUME NEW k \in DOMAIN all, all[k] + AccessWindow > now
       PROVE  \E i \in DOMAIN long : g[i] = k
  <2>1. CASE k = Len(h) + 1
    BY <1>1, <1>5, <2>1
  <2>2. CASE k \in 1 .. Len(h)
    <3>1. h[k] + AccessWindow > now
      BY <1>2, <1>12, <2>2
    <3>2. PICK i \in 1 .. Len(list) : f[i] = k
      BY <1>1, <1>2, <2>2, <3>1 DEF Tracks
    <3> QED BY <1>1, <1>4, <3>2
  <2> QED BY <1>2, <1>7, <2>1, <2>2
<1>13. Tracks(g, long, all)
  BY <1>9, <1>10, <1>11, <1>12 DEF Tracks
<1> QED BY <1>13 DEF long, all

(* Pruning drops only what the window does not count, and all of that.     *)
LEMMA PruneTracked ==
    ASSUME NEW list \in Seq(Times), NEW h \in Seq(Times), now \in Times, NEW f, Tracks(f, list, h)
    PROVE  /\ \E g : Tracks(g, Pruned(list), h)
           /\ Len(Pruned(list)) = InWindow(h, AccessWindow)
<1> DEFINE kept == Pruned(list)
           H == {j \in DOMAIN h : h[j] + AccessWindow > now}
<1>1. kept \in Seq(Times) /\ \E s : Selects(s, kept, list, Len(list))
  BY RecentIsSelection DEF Pruned
<1> HIDE DEF kept
<1>2. PICK s : Selects(s, kept, list, Len(list))
  BY <1>1
<1> DEFINE g == [i \in DOMAIN kept |-> f[s[i]]]
<1>3. /\ Len(list) \in Nat /\ DOMAIN list = 1 .. Len(list)
      /\ Len(h) \in Nat /\ DOMAIN h = 1 .. Len(h)
      /\ Len(kept) \in Nat /\ DOMAIN kept = 1 .. Len(kept)
  BY <1>1
<1>4. \A x \in Times : IsRecent(x, AccessWindow) <=> x + AccessWindow > now
  BY TimesAreNumbers DEF IsRecent
<1>5. \A i \in DOMAIN kept : s[i] \in DOMAIN list /\ f[s[i]] \in DOMAIN h
  BY <1>2, <1>3 DEF Selects, Tracks
<1>6. g \in [DOMAIN kept -> DOMAIN h]
  BY <1>5
<1>7. \A i \in DOMAIN kept : g[i] = f[s[i]]
  OBVIOUS
<1> HIDE DEF g
<1>8. \A i, j \in DOMAIN kept : g[i] = g[j] => i = j
  <2> SUFFICES ASSUME NEW i \in DOMAIN kept, NEW j \in DOMAIN kept, g[i] = g[j] PROVE i = j
    OBVIOUS
  <2>1. s[i] = s[j]
    BY <1>5, <1>7 DEF Tracks
  <2>2. s[i] \in Int
    BY <1>3, <1>5
  <2>3. ~(i < j) /\ ~(j < i)
    BY <1>2, <2>1, <2>2 DEF Selects
  <2> QED BY <1>3, <2>3
<1>9. \A i \in DOMAIN kept : kept[i] = h[g[i]]
  BY <1>2, <1>5, <1>7 DEF Selects, Tracks
<1>10. ASSUME NEW k \in H PROVE \E i \in DOMAIN kept : g[i] = k
  <2>1. PICK j \in DOMAIN list : f[j] = k
    BY DEF Tracks
  <2>2. list[j] = h[k] /\ list[j] \in Times
    BY <2>1 DEF Tracks
  <2>3. IsRecent(list[j], AccessWindow)
    BY <1>4, <2>2
  <2>4. PICK i \in DOMAIN kept : s[i] = j
    BY <1>2, <1>3, <2>3 DEF Selects
  <2> QED BY <1>7, <2>1, <2>4
<1>11. Tracks(g, kept, h)
  BY <1>6, <1>8, <1>9, <1>10 DEF Tracks
<1>12. \A i \in DOMAIN kept : g[i] \in H
  <2> SUFFICES ASSUME NEW i \in DOMAIN kept PROVE g[i] \in H
    OBVIOUS
  <2>1. IsRecent(kept[i], AccessWindow) /\ kept[i] \in Times
    <3>1. kept[i] \in Times
      BY <1>1
    <3>2. IsRecent(kept[i], AccessWindow)
      BY <1>2 DEF Selects
    <3> QED BY <3>1, <3>2
  <2>2. g[i] \in DOMAIN h /\ kept[i] = h[g[i]]
    BY <1>6, <1>9
  <2>3. h[g[i]] + AccessWindow > now
    BY <1>4, <2>1, <2>2
  <2> QED BY <2>2, <2>3
<1> HIDE DEF H
<1>13. g \in Bijection(1 .. Len(kept), H)
  <2>1. g \in [1 .. Len(kept) -> H]
    BY <1>3, <1>6, <1>12
  <2> QED BY <1>3, <1>8, <1>10, <2>1 DEF Bijection, Injection, Surjection, IsInjective
<1>14. IsFiniteSet(1 .. Len(kept)) /\ Cardinality(1 .. Len(kept)) = Len(kept)
  <2>1. Len(kept) \in Nat
    BY <1>1
  <2> DEFINE n == Len(kept)
  <2> HIDE DEF n
  <2>2. n \in Int /\ n >= 0
    BY <2>1 DEF n
  <2>3. IsFiniteSet(1 .. n) /\ Cardinality(1 .. n) = IF 1 > n THEN 0 ELSE n - 1 + 1
    BY <2>2, FS_Interval
  <2>4. Cardinality(1 .. n) = n
    BY <2>2, <2>3
  <2> QED BY <2>3, <2>4 DEF n
<1>15. Cardinality(H) = Len(kept)
  <2> DEFINE P == 1 .. Len(kept)
  <2> HIDE DEF P
  <2>1. IsFiniteSet(P) /\ g \in Bijection(P, H) /\ Cardinality(P) = Len(kept)
    BY <1>13, <1>14 DEF P
  <2>2. Cardinality(P) = Cardinality(H)
    BY <2>1, FS_Bijection DEF ExistsBijection
  <2> QED BY <2>1, <2>2
<1> QED BY <1>11, <1>15 DEF InWindow, H, kept

(* What an access leaves in the list of its user.                          *)
LEMMA AccessTracked ==
    ASSUME TypeOK, AccessInv, NEW u \in Users
    PROVE  /\ Pruned(Append(accesses[u], now)) \in Seq(Times)
           /\ \E f : Tracks(f, Pruned(Append(accesses[u], now)), Append(reads[u], now))
           /\ Len(Pruned(Append(accesses[u], now))) = InWindow(Append(reads[u], now), AccessWindow)
<1>1. accesses[u] \in Seq(Times) /\ reads[u] \in Seq(Times) /\ now \in Times
  BY DEF TypeOK
<1>2. PICK f : Tracks(f, accesses[u], reads[u])
  BY DEF AccessInv
<1> DEFINE long == Append(accesses[u], now)
           all == Append(reads[u], now)
<1>3. long \in Seq(Times) /\ all \in Seq(Times)
  BY <1>1
<1>4. PICK g : Tracks(g, long, all)
  BY <1>1, <1>2, PushTracked
<1> HIDE DEF long, all
<1>5. Pruned(long) \in Seq(Times)
  BY <1>3, RecentIsSelection DEF Pruned
<1>6. (\E e : Tracks(e, Pruned(long), all)) /\ Len(Pruned(long)) = InWindow(all, AccessWindow)
  BY <1>1, <1>3, <1>4, PruneTracked
<1> QED BY <1>5, <1>6 DEF long, all

LEMMA AccessStep == TypeOK /\ AccessInv /\ [Next]_vars => AccessInv'
<1> SUFFICES ASSUME TypeOK, AccessInv, [Next]_vars PROVE AccessInv'
  OBVIOUS
<1>1. now \in Int
  BY TimesAreNumbers DEF TypeOK
<1>2. ASSUME UNCHANGED <<accesses, reads>>, now' \in Int, now' >= now PROVE AccessInv'
  <2> SUFFICES ASSUME NEW u \in Users PROVE (\E f : Tracks(f, accesses[u], reads[u]))'
    BY DEF AccessInv
  <2>1. PICK f : Tracks(f, accesses[u], reads[u])
    BY DEF AccessInv
  <2>2. AccessWindow \in Nat /\ \A k \in DOMAIN reads[u] : reads[u][k] \in Int
    <3>1. reads[u] \in Seq(Times) /\ Times \subseteq Int /\ AccessWindow \in Nat
      BY TimesAreNumbers DEF TypeOK
    <3>2. \A k \in DOMAIN reads[u] : reads[u][k] \in Times
      BY <3>1
    <3> QED BY <3>1, <3>2
  <2>3. \A k \in DOMAIN reads[u] : reads[u][k] + AccessWindow > now' => reads[u][k] + AccessWindow > now
    BY <1>1, <1>2, <2>2
  <2>4. Tracks(f, accesses[u], reads[u])'
    BY <1>2, <2>1, <2>3 DEF Tracks
  <2> QED BY <2>4
<1>3. ASSUME UNCHANGED <<accesses, reads, now>> PROVE AccessInv'
  BY <1>1, <1>2, <1>3
<1>4. ASSUME NEW u \in Users, NEW ip \in Ips, DetectAccess(u, ip) PROVE AccessInv'
  <2>1. /\ accesses' = [accesses EXCEPT ![u] = Pruned(Append(accesses[u], now))]
        /\ reads' = [reads EXCEPT ![u] = Append(reads[u], now)]
        /\ now' = now
    BY <1>4 DEF DetectAccess
  <2>2. /\ accesses'[u] = Pruned(Append(accesses[u], now)) /\ reads'[u] = Append(reads[u], now)
        /\ \A v \in Users \ {u} : accesses'[v] = accesses[v] /\ reads'[v] = reads[v]
    BY <2>1 DEF TypeOK
  <2>3. \E f : Tracks(f, Pruned(Append(accesses[u], now)), Append(reads[u], now))
    BY AccessTracked
  <2>4. ASSUME NEW v \in Users PROVE (\E f : Tracks(f, accesses[v], reads[v]))'
    <3>1. CASE v = u
      BY <2>1, <2>2, <2>3, <3>1 DEF Tracks
    <3>2. CASE v # u
      <4>1. PICK f : Tracks(f, accesses[v], reads[v])
        BY DEF AccessInv
      <4>2. Tracks(f, accesses[v], reads[v])'
        BY <2>1, <2>2, <3>2, <4>1 DEF Tracks
      <4> QED BY <4>2
    <3> QED BY <3>1, <3>2
  <2> QED BY <2>4 DEF AccessInv
<1>5. CASE Tick
  BY <1>1, <1>2, <1>5 DEF Tick
<1>6. ASSUME NEW u, NEW ip, DetectFailedLogin(u, ip) PROVE AccessInv'
  BY <1>3, <1>6 DEF DetectFailedLogin
<1>7. ASSUME NEW ip, NEW type, NEW level,
             DetectUnauthorized(ip) \/ DetectOther(type, level, ip) PROVE AccessInv'
  BY <1>3, <1>7 DEF DetectUnauthorized, DetectOther
<1>8. ASSUME NEW type, NEW at, ResolveThreat(type, at) PROVE AccessInv'
  BY <1>3, <1>8 DEF ResolveThreat
<1>9. CASE UNCHANGED vars
  BY <1>3, <1>9 DEF vars
<1> QED BY <1>4, <1>5, <1>6, <1>7, <1>8, <1>9 DEF Next, AnalyzeLoginAnomaly, DetectDataExfiltration,
                                                 ThreatTypes

(* detect_suspicious_access_pattern reports an access exactly when more    *)
(* than the threshold lie in the window, counted over everything that      *)
(* happened: pruning the list loses nothing that counts.                   *)
THEOREM RapidAccessReported == Spec => RapidAccessIsReported
<1>1. Init => AccessInv
  <2> SUFFICES ASSUME Init, NEW u \in Users PROVE \E f : Tracks(f, accesses[u], reads[u])
    BY DEF AccessInv
  <2>1. accesses[u] = <<>> /\ reads[u] = <<>>
    BY DEF Init
  <2> DEFINE none == [i \in DOMAIN <<>> |-> 0]
  <2>2. DOMAIN <<>> = {}
    OBVIOUS
  <2>3. none \in [DOMAIN <<>> -> DOMAIN <<>>]
    BY <2>2
  <2>4. Tracks(none, <<>>, <<>>)
    BY <2>2, <2>3 DEF Tracks
  <2> QED BY <2>1, <2>4
<1>2. ASSUME TypeOK, AccessInv, [Next]_vars, NEW u \in Users, reads'[u] # reads[u]
      PROVE  threats' # threats <=> InWindow(reads'[u], AccessWindow) > AccessThreshold
  <2>1. PICK v \in Users, ip \in Ips : DetectAccess(v, ip)
    BY <1>2 DEF Next, DetectFailedLogin, DetectOther, AnalyzeLoginAnomaly,
              DetectDataExfiltration, DetectUnauthorized, ResolveThreat, Tick, vars
  <2>2. /\ accesses' = [accesses EXCEPT ![v] = Pruned(Append(accesses[v], now))]
        /\ reads' = [reads EXCEPT ![v] = Append(reads[v], now)]
        /\ \/ Len(accesses'[v]) > AccessThreshold /\ Report("anomalous_access", "medium", ip)
           \/ Len(accesses'[v]) <= AccessThreshold /\ UNCHANGED threats
    BY <2>1 DEF DetectAccess
  <2>3. u = v
    BY <1>2, <2>2 DEF TypeOK
  <2>4. accesses'[v] = Pruned(Append(accesses[v], now)) /\ reads'[v] = Append(reads[v], now)
    BY <1>2, <2>2 DEF TypeOK
  <2>5. Len(accesses'[v]) = InWindow(reads'[v], AccessWindow) /\ accesses'[v] \in Seq(Times)
    BY <1>2, <2>4, AccessTracked
  <2>6. Len(accesses'[v]) \in Nat /\ AccessThreshold \in Nat
    BY <2>5, ThresholdAssumption
  <2>7. \/ Len(accesses'[v]) > AccessThreshold /\ threats' # threats
        \/ Len(accesses'[v]) <= AccessThreshold /\ threats' = threats
    BY <1>2, <2>2, ReportType DEF ThreatTypes
  <2> QED BY <2>3, <2>5, <2>6, <2>7
<1>3. TypeOK /\ AccessInv /\ [Next]_vars =>
        [\A u \in Users :
           reads'[u] # reads[u] =>
             (threats' # threats <=> InWindow(reads'[u], AccessWindow) > AccessThreshold)]_vars
  BY <1>2
<1> QED BY <1>1, <1>3, AccessStep, DetectorTypeCorrect, PTL DEF Spec, RapidAccessIsReported

-----------------------------------------------------------------------------
(* Escalation. *)

(* The reported threats and the counters have their type, and an address   *)
(* was reported as critical only once its counter had passed the threshold,*)
(* which it never falls below again.                                       *)
Reported == [type : ThreatTypes,
             level : {"medium", "high", "critical"}, ip : Ips \cup {"none"},
             at : Int, resolved : BOOLEAN]

EscalationInv ==
    /\ now \in Int
    /\ suspicious \in [Ips -> Nat]
    /\ threats \in Seq(Reported)
    /\ \A i \in DOMAIN threats :
          threats[i].type = "unauthorized" /\ threats[i].level = "critical" =>
             threats[i].ip \in Ips /\ suspicious[threats[i].ip] > SuspiciousThreshold
    /\ EscalationIsPermanent

(* A report of another type, with whatever else the step does.             *)
LEMMA OtherReport ==
    ASSUME EscalationInv, UNCHANGED <<now, suspicious>>,
           NEW type \in ThreatTypes \ {"unauthorized"},
           NEW level \in {"medium", "high", "critical"}, NEW ip \in Ips \cup {"none"},
           Report(type, level, ip) \/ UNCHANGED threats
    PROVE  EscalationInv'
<1>1. CASE UNCHANGED threats
  BY <1>1 DEF EscalationInv, EscalationIsPermanent
<1>2. CASE Report(type, level, ip)
  <2> DEFINE new == [type |-> type, level |-> level, ip |-> ip, at |-> now, resolved |-> FALSE]
  <2>1. new \in Reported /\ new.type # "unauthorized"
    BY DEF Reported, EscalationInv
  <2>2. threats' = Append(threats, new)
    BY <1>2 DEF Report
  <2> HIDE DEF new
  <2>3. /\ threats' \in Seq(Reported) /\ DOMAIN threats' = 1 .. Len(threats) + 1
        /\ threats'[Len(threats) + 1] = new
        /\ \A i \in DOMAIN threats : i \in DOMAIN threats' /\ threats'[i] = threats[i]
        /\ \A i \in DOMAIN threats' : i \in DOMAIN threats \/ i = Len(threats) + 1
    BY <2>1, <2>2 DEF EscalationInv
  <2> QED BY <2>1, <2>3 DEF EscalationInv, EscalationIsPermanent
<1> QED BY <1>1, <1>2

LEMMA EscalationStep == EscalationInv /\ [Next]_vars => EscalationInv'
<1> SUFFICES ASSUME EscalationInv, [Next]_vars PROVE EscalationInv'
  OBVIOUS
<1> USE ThresholdAssumption
<1>1. ASSUME NEW u \in Users, NEW ip \in Ips, DetectFailedLogin(u, ip) PROVE EscalationInv'
  <2>1. /\ UNCHANGED <<now, suspicious>>
        /\ \/ UNCHANGED threats
           \/ \E level \in {"medium", "high"} : Report("brute_force", level, ip)
    BY <1>1 DEF DetectFailedLogin
  <2> QED BY <2>1, OtherReport DEF ThreatTypes
<1>2. ASSUME NEW u \in Users, NEW ip \in Ips, DetectAccess(u, ip) PROVE EscalationInv'
  <2>1. /\ UNCHANGED <<now, suspicious>>
        /\ UNCHANGED threats \/ Report("anomalous_access", "medium", ip)
    BY <1>2 DEF DetectAccess
  <2> QED BY <2>1, OtherReport DEF ThreatTypes
<1>3. ASSUME NEW type \in ThreatTypes \ {"unauthorized"}, NEW level \in {"medium", "high"},
             NEW ip \in Ips \cup {"none"}, DetectOther(type, level, ip)
      PROVE  EscalationInv'
  BY <1>3, OtherReport DEF DetectOther
<1>4. ASSUME NEW ip \in Ips, DetectUnauthorized(ip) PROVE EscalationInv'
  <2> DEFINE count == suspicious[ip] + 1
             new == [type |-> "unauthorized", level |-> LevelOf(count), ip |-> ip,
                     at |-> now, resolved |-> FALSE]
  <2>1. count \in Nat /\ suspicious' = [suspicious EXCEPT ![ip] = count] /\ now' = now
    BY <1>4 DEF DetectUnauthorized, EscalationInv
  <2>2. suspicious'[ip] = count
    BY <2>1 DEF EscalationInv
  <2>3. threats' = Append(threats, new)
    BY <1>4, <2>2 DEF DetectUnauthorized, Report
  <2>4. /\ new \in Reported /\ new.type = "unauthorized" /\ new.ip = ip
        /\ new.level = "critical" <=> count > SuspiciousThreshold
    BY DEF Reported, LevelOf, EscalationInv, ThreatTypes
  <2>5. \A j \in Ips : suspicious'[j] >= suspicious[j] /\ suspicious'[j] \in Nat
    BY <2>1 DEF EscalationInv
  <2>6. count >= suspicious[ip]
    BY DEF EscalationInv
  <2> HIDE DEF new
  <2>7. /\ threats' \in Seq(Reported) /\ DOMAIN threats' = 1 .. Len(threats) + 1
        /\ threats'[Len(threats) + 1] = new
        /\ \A i \in DOMAIN threats : i \in DOMAIN threats' /\ threats'[i] = threats[i]
        /\ \A i \in DOMAIN threats' : i \in DOMAIN threats \/ i = Len(threats) + 1
        /\ \A i \in DOMAIN threats : i \in Int /\ i <= Len(threats) /\ Len(threats) \in Nat
    BY <2>3, <2>4 DEF EscalationInv
  <2>8. \A i \in DOMAIN threats' :
           threats'[i].type = "unauthorized" /\ threats'[i].level = "critical" =>
              threats'[i].ip \in Ips /\ suspicious'[threats'[i].ip] > SuspiciousThreshold
    <3> SUFFICES ASSUME NEW i \in DOMAIN threats', threats'[i].type = "unauthorized",
                        threats'[i].level = "critical"
                 PROVE  threats'[i].ip \in Ips /\ suspicious'[threats'[i].ip] > SuspiciousThreshold
      OBVIOUS
    <3>1. CASE i \in DOMAIN threats
      <4>1. threats[i].ip \in Ips /\ suspicious[threats[i].ip] > SuspiciousThreshold
        BY <2>7, <3>1 DEF EscalationInv
      <4>2. /\ suspicious'[threats[i].ip] >= suspicious[threats[i].ip]
            /\ suspicious'[threats[i].ip] \in Nat /\ suspicious[threats[i].ip] \in Nat
            /\ SuspiciousThreshold \in Nat
        BY <2>5, <4>1 DEF EscalationInv
      <4>3. \E a \in Ips : a = threats[i].ip /\ suspicious'[a] > SuspiciousThreshold
        BY <4>1, <4>2
      <4>4. threats'[i].ip = threats[i].ip
        BY <2>7, <3>1
      <4> QED BY <4>3, <4>4
    <3>2. CASE i = Len(threats) + 1
      BY <2>2, <2>4, <2>7, <3>2
    <3> QED BY <2>7, <3>1, <3>2
  <2>9. ASSUME NEW i \in DOMAIN threats', NEW j \in DOMAIN threats', i < j,
               threats'[i].ip = threats'[j].ip, threats'[i].type = "unauthorized",
               threats'[j].type = "unauthorized", threats'[i].level = "critical"
        PROVE  threats'[j].level = "critical"
    <3>1. i \in DOMAIN threats /\ threats'[i] = threats[i]
      BY <2>7, <2>9
    <3>2. CASE j \in DOMAIN threats
      BY <2>7, <2>9, <3>1, <3>2 DEF EscalationInv, EscalationIsPermanent
    <3>3. CASE j = Len(threats) + 1
      <4>1. suspicious[ip] > SuspiciousThreshold
        BY <2>4, <2>7, <2>9, <3>1, <3>3 DEF EscalationInv
      <4> QED BY <2>1, <2>4, <2>6, <2>7, <3>3, <4>1 DEF EscalationInv
    <3> QED BY <2>7, <3>2, <3>3
  <2> QED BY <2>1, <2>5, <2>7, <2>8, <2>9 DEF EscalationInv, EscalationIsPermanent
<1>5. ASSUME NEW type, NEW at, ResolveThreat(type, at) PROVE EscalationInv'
  <2>1. PICK n : threats' = [threats EXCEPT ![n].resolved = TRUE]
    BY <1>5 DEF ResolveThreat
  <2>2. \A i \in DOMAIN threats : threats[i] \in Reported
    BY DEF EscalationInv
  <2>3. /\ threats' \in Seq(Reported) /\ DOMAIN threats' = DOMAIN threats
        /\ \A i \in DOMAIN threats :
              threats'[i].type = threats[i].type /\ threats'[i].level = threats[i].level
              /\ threats'[i].ip = threats[i].ip
    <3>1. DOMAIN threats' = 1 .. Len(threats) /\ Len(threats) \in Nat
      BY <2>1 DEF EscalationInv
    <3>2. \A i \in DOMAIN threats :
             threats'[i] = IF i = n THEN [threats[i] EXCEPT !.resolved = TRUE] ELSE threats[i]
      BY <2>1
    <3>3. \A i \in DOMAIN threats : [threats[i] EXCEPT !.resolved = TRUE] \in Reported
      BY <2>2 DEF Reported
    <3>4. threats' = [i \in 1 .. Len(threats) |-> threats'[i]]
      BY <2>1, <3>1 DEF EscalationInv
    <3>5. threats' \in Seq(Reported)
      <4>0. DOMAIN threats = 1 .. Len(threats)
        BY DEF EscalationInv
      <4>1. \A i \in 1 .. Len(threats) : threats'[i] \in Reported
        BY <2>2, <3>2, <3>3, <4>0
      <4>2. threats' \in [1 .. Len(threats) -> Reported]
        BY <3>4, <4>1
      <4> QED BY <3>1, <4>2, SeqDef
    <3>6. \A i \in DOMAIN threats :
             threats'[i].type = threats[i].type /\ threats'[i].level = threats[i].level
             /\ threats'[i].ip = threats[i].ip
      BY <2>2, <3>2 DEF Reported
    <3> QED BY <3>1, <3>5, <3>6 DEF EscalationInv
  <2>4. UNCHANGED <<now, suspicious>>
    BY <1>5 DEF ResolveThreat
  <2>5. \A i \in DOMAIN threats' :
           threats'[i].type = "unauthorized" /\ threats'[i].level = "critical" =>
              threats'[i].ip \in Ips /\ suspicious'[threats'[i].ip] > SuspiciousThreshold
    BY <2>3, <2>4 DEF EscalationInv
  <2>6. EscalationIsPermanent'
    BY <2>3 DEF EscalationInv, EscalationIsPermanent
  <2> QED BY <2>3, <2>4, <2>5, <2>6 DEF EscalationInv
<1>6. CASE Tick
  BY <1>6 DEF Tick, EscalationInv, EscalationIsPermanent
<1>7. CASE UNCHANGED vars
  BY <1>7 DEF vars, EscalationInv, EscalationIsPermanent
<1> QED BY <1>1, <1>2, <1>3, <1>4, <1>5, <1>6, <1>7 DEF Next, AnalyzeLoginAnomaly, DetectDataExfiltration,
                                                 ThreatTypes

(* Once an address was reported as critical it stays so, whatever is       *)
(* detected and resolved in between (detect_unauthorized_access_attempt,   *)
(* resolve_threat).                                                        *)
THEOREM EscalationStays == Spec => []EscalationIsPermanent
<1>1. Init => EscalationInv
  BY DEF Init, EscalationInv, EscalationIsPermanent
<1>2. EscalationInv => EscalationIsPermanent
  BY DEF EscalationInv
<1> QED BY <1>1, <1>2, EscalationStep, PTL DEF Spec
=============================================================================
