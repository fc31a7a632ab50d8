--------------------------- MODULE SafeAppsProofs ---------------------------
(***************************************************************************)
(* Proofs about plugins of SafeApps, for any value of their constants: the *)
(* print server, the BLE scanner, the GPIO bridge, the calculator, and     *)
(* Home Assistant with its state rows and climate editor.  DocumentProofs  *)
(* has the other plugins.                                                  *)
(***************************************************************************)
EXTENDS SafeApps, Recursion, FiniteSetTheorems, TLAPS

\* A step of the composition is a step of each plugin, or leaves it alone.
LEMMA StepOfEach ==
    ASSUME [Next]_vars
    PROVE  /\ PS!Next \/ UNCHANGED ps
           /\ GM!Next \/ UNCHANGED gm
           /\ BS!Next \/ UNCHANGED bs
           /\ SC!Next \/ UNCHANGED sc
           /\ CL!Next \/ UNCHANGED cl
           /\ HA!Next \/ UNCHANGED ha
           /\ HS!Next \/ UNCHANGED hs
BY Zenon DEF Next, vars

-----------------------------------------------------------------------------
(* thermo_printer: the print server.                                       *)

ServerInv ==
    /\ nvsPort \in PrintPorts
    /\ server_on \in BOOLEAN /\ resident \in BOOLEAN /\ nvsServer \in BOOLEAN
    /\ PS!ServerAsShown

\* The server is off at the start.
LEMMA ServerInit == PS!Init => ServerInv
BY PortsAssumption DEF PS!Init, ServerInv, PS!ServerAsShown

\* Each action of the server keeps the invariant.
LEMMA ServerStep ==
    ASSUME ServerInv, PS!Next
    PROVE  ServerInv'
<1>1. nvsPort # 0 /\ \A p \in PrintPorts : p # 0
  BY PortsAssumption DEF ServerInv
<1> USE DEF ServerInv, PS!ServerAsShown, PS!Off, PS!Listen
<1>2. ASSUME NEW to \in {"front", "background"}, PS!Load(to) PROVE ServerInv'
  <2>1. /\ place = "unloaded" /\ refused = {} /\ ~resident /\ ~server_on
        /\ UNCHANGED <<nvsServer, nvsPort>>
    BY <1>2 DEF PS!Load
  <2>2. CASE /\ nvsServer /\ PS!Listen(nvsPort) /\ resident' = TRUE /\ place' = to
             /\ UNCHANGED refused
    BY <1>1, <2>1, <2>2
  <2>3. CASE /\ nvsServer /\ PS!Listen(nvsPort) /\ to = "front" /\ place' = to
             /\ refused' = {"resident"} /\ UNCHANGED resident
    BY <1>1, <2>1, <2>3
  <2>4. CASE /\ place' = IF to = "front" THEN to ELSE "unloaded"
             /\ UNCHANGED <<server_on, bound_port, socket, resident, refused>>
    BY <2>1, <2>4
  <2> QED
    BY <1>2, <2>2, <2>3, <2>4 DEF PS!Load
<1>3. CASE PS!Open
  BY <1>2, <1>3 DEF PS!Open
<1>4. CASE PS!Boot
  BY <1>2, <1>4 DEF PS!Boot
<1>5. CASE PS!Leave
  <2>1. CASE /\ resident /\ place' = "background"
             /\ UNCHANGED <<server_on, bound_port, socket, refused>>
    BY <1>5, <2>1 DEF PS!Leave
  <2>2. CASE ~resident /\ place' = "unloaded" /\ PS!Off /\ refused' = {}
    BY <1>5, <2>2 DEF PS!Leave
  <2> QED
    BY <1>5, <2>1, <2>2 DEF PS!Leave
<1>6. CASE PS!PowerLoss
  BY <1>6 DEF PS!PowerLoss
<1>7. CASE PS!SwitchOn
  <2>1. PICK failed \in SUBSET {"server", "resident"} :
            /\ nvsServer' = PS!Keep("server", nvsServer, TRUE, failed)
            /\ \/ /\ PS!Listen(nvsPort)
                  /\ resident' = PS!Keep("resident", resident, TRUE, failed)
                  /\ refused' = failed
               \/ /\ refused' = (refused \ {"server"}) \cup (failed \ {"resident"})
                  /\ UNCHANGED <<server_on, bound_port, socket, resident>>
    BY <1>7 DEF PS!SwitchOn
  <2>2. place = "front" /\ ~server_on /\ UNCHANGED <<nvsPort, place>>
    BY <1>7 DEF PS!SwitchOn
  <2>3. (nvsServer' = TRUE \/ "server" \in failed) /\ nvsServer' \in BOOLEAN
    BY <2>1 DEF PS!Keep
  <2>4. CASE /\ PS!Listen(nvsPort)
             /\ resident' = PS!Keep("resident", resident, TRUE, failed)
             /\ refused' = failed
    <3>1. (resident' = TRUE \/ "resident" \in failed) /\ resident' \in BOOLEAN
      BY <2>4 DEF PS!Keep
    <3> QED
      BY <1>1, <2>2, <2>3, <2>4, <3>1
  <2>5. CASE /\ refused' = (refused \ {"server"}) \cup (failed \ {"resident"})
             /\ UNCHANGED <<server_on, bound_port, socket, resident>>
    <3>1. "resident" \in refused => "resident" \in refused'
      BY <2>5
    <3> QED
      BY <2>2, <2>3, <2>5, <3>1
  <2> QED
    BY <2>1, <2>4, <2>5
<1>8. CASE PS!SwitchOff
  <2>1. PICK failed \in SUBSET {"server", "resident"} :
            /\ nvsServer' = PS!Keep("server", nvsServer, FALSE, failed)
            /\ resident' = PS!Keep("resident", resident, FALSE, failed)
            /\ refused' = failed
    BY <1>8 DEF PS!SwitchOff
  <2>2. place = "front" /\ server_on /\ PS!Off /\ UNCHANGED <<nvsPort, place>>
    BY <1>8 DEF PS!SwitchOff
  <2>3. /\ nvsServer' \in BOOLEAN /\ resident' \in BOOLEAN
        /\ resident' = FALSE \/ "resident" \in failed
    BY <2>1 DEF PS!Keep
  <2> QED
    BY <2>1, <2>2, <2>3
<1>9. ASSUME NEW p \in PrintPorts, PS!SetPort(p) PROVE ServerInv'
  <2>1. PICK failed \in SUBSET {"port", "resident"} :
            nvsPort' = PS!Keep("port", nvsPort, p, failed) /\ PS!Rebind(p, failed)
    BY <1>9 DEF PS!SetPort
  <2>2. place = "front" /\ UNCHANGED <<nvsServer, place>>
    BY <1>9 DEF PS!SetPort
  <2>3. /\ nvsPort' \in PrintPorts
        /\ nvsPort' = p \/ "port" \in failed
    BY <2>1 DEF PS!Keep
  <2>4. CASE /\ ~server_on
             /\ UNCHANGED <<server_on, bound_port, socket, resident, refused>>
    BY <2>2, <2>3, <2>4
  <2>5. CASE /\ server_on /\ PS!Listen(p) /\ UNCHANGED resident
             /\ refused' = (refused \ {"port"}) \cup (failed \ {"resident"})
    <3>1. /\ "port" \in failed => "port" \in refused'
          /\ "server" \in refused => "server" \in refused'
          /\ "resident" \in refused => "resident" \in refused'
      BY <2>5
    <3> QED
      BY <1>1, <2>2, <2>3, <2>5, <3>1
  <2>6. CASE /\ server_on /\ PS!Off
             /\ resident' = PS!Keep("resident", resident, FALSE, failed)
             /\ refused' = (refused \ {"resident"}) \cup (failed \ {"port"})
    <3>1. /\ resident' \in BOOLEAN
          /\ resident' = FALSE \/ "resident" \in refused'
      BY <2>6 DEF PS!Keep
    <3> QED
      BY <2>2, <2>3, <2>6, <3>1
  <2> QED
    BY <2>1, <2>4, <2>5, <2>6 DEF PS!Rebind
<1> QED
  BY <1>3, <1>4, <1>5, <1>6, <1>7, <1>8, <1>9 DEF PS!Next

\* The print server counts as on exactly while the host listens, on the
\* configured port, restored after a power loss and with the plugin resident,
\* each unless the host refused just that when last asked, whatever binds and
\* writes fail and whenever the power goes.
THEOREM ServerIsAsShown == Spec => []ServerAsShown
<1>1. Init => ServerInv
  BY ServerInit DEF Init
<1>2. ServerInv /\ [Next]_vars => ServerInv'
  <2> SUFFICES ASSUME ServerInv, [Next]_vars PROVE ServerInv'
    OBVIOUS
  <2>1. CASE PS!Next
    BY <2>1, ServerStep
  <2>2. CASE UNCHANGED ps
    BY <2>2 DEF ps, ServerInv, PS!ServerAsShown
  <2> QED
    BY <2>1, <2>2, StepOfEach
<1>3. ServerInv => ServerAsShown
  BY DEF ServerInv, ServerAsShown
<1> QED
  BY <1>1, <1>2, <1>3, PTL DEF Spec

-----------------------------------------------------------------------------
(* ble_scanner: sequences of records with an address.                      *)

Sightings == [addr : Addrs, rssi : Rssi, missed : 0..MaxMissed]
RowSet    == {BS!RowOf(d) : d \in Sightings}

Distinct(t) == \A i, j \in 1..Len(t) : t[i].addr = t[j].addr => i = j

\* An element is taken out.
LEMMA RemoveFacts ==
    \A X, s, i : s \in Seq(X) /\ i \in 1..Len(s) =>
        /\ BS!RemoveAt(s, i) \in Seq(X) /\ Len(BS!RemoveAt(s, i)) = Len(s) - 1
        /\ \A k \in 1..Len(s) - 1 :
             BS!RemoveAt(s, i)[k] = IF k < i THEN s[k] ELSE s[k + 1]
<1> TAKE X, s, i
<1> HAVE s \in Seq(X) /\ i \in 1..Len(s)
<1> DEFINE a == SubSeq(s, 1, i - 1)
           b == SubSeq(s, i + 1, Len(s))
<1>1. Len(s) \in Nat /\ i \in Nat
  OBVIOUS
<1>2. /\ a \in Seq(X) /\ Len(a) = i - 1
      /\ \A k \in 1..i - 1 : a[k] = s[k]
  BY <1>1
<1>3. /\ b \in Seq(X) /\ Len(b) = Len(s) - i
      /\ \A k \in 1..Len(s) - i : b[k] = s[k + i]
  BY <1>1
<1>4. BS!RemoveAt(s, i) = a \o b
  BY DEF BS!RemoveAt
<1> HIDE DEF a, b
<1>5. /\ a \o b \in Seq(X) /\ Len(a \o b) = Len(s) - 1
      /\ \A k \in 1..Len(s) - 1 :
           (a \o b)[k] = IF k <= i - 1 THEN a[k] ELSE b[k - (i - 1)]
  <2>1. Len(a) + Len(b) = Len(s) - 1
    BY <1>1, <1>2, <1>3
  <2>2. a \in Seq(X) /\ b \in Seq(X)
    BY <1>2, <1>3
  <2>3. /\ a \o b \in Seq(X) /\ Len(a \o b) = Len(a) + Len(b)
        /\ \A k \in 1..Len(a) + Len(b) :
             (a \o b)[k] = IF k <= Len(a) THEN a[k] ELSE b[k - Len(a)]
    BY <2>2
  <2>4. Len(a) = i - 1
    BY <1>2
  <2> QED
    BY <2>1, <2>3, <2>4, Zenon
<1>6. ASSUME NEW k \in 1..Len(s) - 1
      PROVE  BS!RemoveAt(s, i)[k] = IF k < i THEN s[k] ELSE s[k + 1]
  <2>1. k < i => k \in 1..i - 1
    BY <1>1
  <2>2. k < i <=> k <= i - 1
    BY <1>1
  <2>3. ~(k < i) => /\ k - (i - 1) \in 1..Len(s) - i
                    /\ (k - (i - 1)) + i = k + 1
    BY <1>1
  <2> QED
    BY <1>2, <1>3, <1>4, <1>5, <2>1, <2>3, <2>2
<1> QED
  BY <1>4, <1>5, <1>6

\* An element is put in.
LEMMA InsertFacts ==
    \A X, s, i, e : s \in Seq(X) /\ e \in X /\ i \in 1..Len(s) + 1 =>
        /\ BS!InsertAt(s, i, e) \in Seq(X) /\ Len(BS!InsertAt(s, i, e)) = Len(s) + 1
        /\ \A k \in 1..Len(s) + 1 :
             BS!InsertAt(s, i, e)[k] = IF k < i THEN s[k]
                                       ELSE IF k = i THEN e ELSE s[k - 1]
<1> TAKE X, s, i, e
<1> HAVE s \in Seq(X) /\ e \in X /\ i \in 1..Len(s) + 1
<1> DEFINE a == SubSeq(s, 1, i - 1)
           b == SubSeq(s, i, Len(s))
<1>1. Len(s) \in Nat /\ i \in Nat
  OBVIOUS
<1>2. /\ a \in Seq(X) /\ Len(a) = i - 1
      /\ \A k \in 1..i - 1 : a[k] = s[k]
  BY <1>1
<1>3. /\ b \in Seq(X) /\ Len(b) = Len(s) - i + 1
      /\ \A k \in 1..Len(s) - i + 1 : b[k] = s[k + i - 1]
  BY <1>1
<1>4. BS!InsertAt(s, i, e) = (a \o <<e>>) \o b
  BY DEF BS!InsertAt
<1> HIDE DEF a, b
<1>5. /\ a \o <<e>> \in Seq(X) /\ Len(a \o <<e>>) = i
      /\ \A k \in 1..i : (a \o <<e>>)[k] = IF k < i THEN a[k] ELSE e
  BY <1>1, <1>2
<1> DEFINE c == a \o <<e>>
<1>6. /\ c \in Seq(X) /\ Len(c) = i
      /\ \A k \in 1..i : c[k] = IF k < i THEN s[k] ELSE e
  <2>1. ASSUME NEW k \in 1..i PROVE c[k] = IF k < i THEN s[k] ELSE e
    <3>1. k < i => k \in 1..i - 1
      BY <1>1
    <3> QED
      BY <1>2, <1>5, <3>1
  <2> QED
    BY <1>5, <2>1
<1>7. BS!InsertAt(s, i, e) = c \o b
  BY <1>4
<1> HIDE DEF c
<1>8. /\ c \o b \in Seq(X) /\ Len(c \o b) = Len(s) + 1
      /\ \A k \in 1..Len(s) + 1 :
           (c \o b)[k] = IF k <= i THEN c[k] ELSE b[k - i]
  <2>1. Len(c) + Len(b) = Len(s) + 1
    BY <1>1, <1>3, <1>6
  <2>2. c \in Seq(X) /\ b \in Seq(X)
    BY <1>3, <1>6
  <2>3. /\ c \o b \in Seq(X) /\ Len(c \o b) = Len(c) + Len(b)
        /\ \A k \in 1..Len(c) + Len(b) :
             (c \o b)[k] = IF k <= Len(c) THEN c[k] ELSE b[k - Len(c)]
    BY <2>2
  <2>4. Len(c) = i
    BY <1>6
  <2> QED
    BY <2>1, <2>3, <2>4, Zenon
<1>9. ASSUME NEW k \in 1..Len(s) + 1
      PROVE  BS!InsertAt(s, i, e)[k] = IF k < i THEN s[k]
                                       ELSE IF k = i THEN e ELSE s[k - 1]
  <2>1. k <= i => k \in 1..i
    BY <1>1
  <2>2. ~(k <= i) => /\ k - i \in 1..Len(s) - i + 1
                     /\ (k - i) + i - 1 = k - 1
    BY <1>1
  <2>3. CASE k <= i
    BY <1>1, <1>6, <1>7, <1>8, <2>1, <2>3
  <2>4. CASE ~(k <= i)
    BY <1>1, <1>3, <1>7, <1>8, <2>2, <2>4
  <2> QED
    BY <2>3, <2>4
<1> QED
  BY <1>7, <1>8, <1>9

\* Addresses stay distinct without one of them, which is then gone.
LEMMA RemoveDistinct ==
    \A X, s, i : s \in Seq(X) /\ i \in 1..Len(s) /\ Distinct(s) =>
        /\ Distinct(BS!RemoveAt(s, i))
        /\ \A k \in 1..Len(s) - 1 :
             /\ BS!RemoveAt(s, i)[k].addr # s[i].addr
             /\ \E m \in 1..Len(s) : BS!RemoveAt(s, i)[k] = s[m]
<1> TAKE X, s, i
<1> HAVE s \in Seq(X) /\ i \in 1..Len(s) /\ Distinct(s)
<1> DEFINE t == BS!RemoveAt(s, i)
           from(k) == IF k < i THEN k ELSE k + 1
<1>1. Len(t) = Len(s) - 1 /\ Len(s) \in Nat
  BY RemoveFacts
<1>2. ASSUME NEW k \in 1..Len(s) - 1
      PROVE  t[k] = s[from(k)] /\ from(k) \in 1..Len(s) /\ from(k) # i
  BY <1>1, RemoveFacts
<1> HIDE DEF t
<1>3. ASSUME NEW k \in 1..Len(s) - 1, NEW m \in 1..Len(s) - 1, t[k].addr = t[m].addr
      PROVE  k = m
  <2>1. /\ t[k] = s[from(k)] /\ from(k) \in 1..Len(s)
        /\ t[m] = s[from(m)] /\ from(m) \in 1..Len(s)
    BY <1>2
  <2>2. from(k) = from(m)
    BY <1>3, <2>1 DEF Distinct
  <2> QED
    BY <1>1, <2>2
<1>4. Distinct(t)
  BY <1>1, <1>3 DEF Distinct
<1>5. ASSUME NEW k \in 1..Len(s) - 1
      PROVE  t[k].addr # s[i].addr /\ \E m \in 1..Len(s) : t[k] = s[m]
  BY <1>2 DEF Distinct
<1> QED
  BY <1>4, <1>5 DEF t

\* Addresses stay distinct with a new one.
LEMMA InsertDistinct ==
    \A X, s, i, e :
        /\ s \in Seq(X) /\ e \in X /\ i \in 1..Len(s) + 1 /\ Distinct(s)
        /\ \A k \in 1..Len(s) : s[k].addr # e.addr
        =>
        /\ Distinct(BS!InsertAt(s, i, e))
        /\ \A k \in 1..Len(s) + 1 :
             \/ BS!InsertAt(s, i, e)[k] = e
             \/ \E m \in 1..Len(s) : BS!InsertAt(s, i, e)[k] = s[m]
<1> TAKE X, s, i, e
<1> HAVE /\ s \in Seq(X) /\ e \in X /\ i \in 1..Len(s) + 1 /\ Distinct(s)
         /\ \A k \in 1..Len(s) : s[k].addr # e.addr
<1> DEFINE t == BS!InsertAt(s, i, e)
           from(k) == IF k < i THEN k ELSE k - 1
<1>1. Len(t) = Len(s) + 1 /\ Len(s) \in Nat /\ t[i] = e
  BY InsertFacts
<1>2. ASSUME NEW k \in 1..Len(s) + 1, k # i
      PROVE  t[k] = s[from(k)] /\ from(k) \in 1..Len(s)
  BY <1>1, <1>2, InsertFacts
<1> HIDE DEF t
<1>3. ASSUME NEW k \in 1..Len(s) + 1, NEW m \in 1..Len(s) + 1, t[k].addr = t[m].addr
      PROVE  k = m
  <2>1. ASSUME NEW l \in 1..Len(s) + 1, l # i PROVE t[l].addr # e.addr
    <3>1. t[l] = s[from(l)] /\ from(l) \in 1..Len(s)
      BY <1>2, <2>1
    <3> HIDE DEF from
    <3> QED
      BY <3>1
  <2>2. CASE k = i \/ m = i
    BY <1>1, <1>3, <2>1, <2>2
  <2>3. CASE k # i /\ m # i
    <3>1. /\ t[k] = s[from(k)] /\ from(k) \in 1..Len(s)
          /\ t[m] = s[from(m)] /\ from(m) \in 1..Len(s)
      BY <1>2, <2>3
    <3>2. from(k) = from(m)
      BY <1>3, <3>1 DEF Distinct
    <3> QED
      BY <1>1, <2>3, <3>2
  <2> QED
    BY <2>3, <2>2
<1>4. Distinct(t)
  BY <1>1, <1>3 DEF Distinct
<1>5. ASSUME NEW k \in 1..Len(s) + 1
      PROVE  t[k] = e \/ \E m \in 1..Len(s) : t[k] = s[m]
  BY <1>1, <1>2
<1> QED
  BY <1>4, <1>5 DEF t

-----------------------------------------------------------------------------
(* ble_scanner: the table.                                                 *)

Results == [addr : Addrs, rssi : Rssi]
Table   == {t \in Seq(Sightings) : Len(t) <= MaxDevices /\ Distinct(t)}

\* evict_one has a device to look at: one missed longest, then weakest, then last.
LEMMA WorstExists ==
    \A t \in Seq(Sightings) : t # <<>> => \E i \in DOMAIN t : BS!Worst(t, i)
<1> SUFFICES ASSUME NEW t \in Seq(Sightings), t # <<>>
             PROVE  \E i \in DOMAIN t : BS!Worst(t, i)
  OBVIOUS
<1> DEFINE D == 1..Len(t)
<1>0. /\ DOMAIN t = D /\ 1 \in D /\ Len(t) \in Nat
      /\ \A i \in D : /\ i \in Nat /\ i <= Len(t)
                      /\ t[i].missed \in 0..MaxMissed
                      /\ t[i].rssi \in Int /\ t[i].rssi + 128 \in Nat
  <2>1. DOMAIN t = D /\ 1 \in D /\ Len(t) \in Nat
    OBVIOUS
  <2>2. ASSUME NEW i \in D
        PROVE  /\ i \in Nat /\ i <= Len(t)
               /\ t[i].missed \in 0..MaxMissed
               /\ t[i].rssi \in Int /\ t[i].rssi + 128 \in Nat
    <3>1. t[i] \in Sightings
      OBVIOUS
    <3>2. t[i].missed \in 0..MaxMissed /\ t[i].rssi \in Rssi
      BY <3>1 DEF Sightings
    <3>3. Rssi \subseteq (-128)..127
      BY ScannerAssumption
    <3>4. t[i].rssi \in (-128)..127
      BY <3>2, <3>3, Zenon
    <3>5. i \in Nat /\ i <= Len(t)
      BY <2>1
    <3>6. \A x \in (-128)..127 : x \in Int /\ x + 128 \in Nat
      OBVIOUS
    <3> QED
      BY <3>2, <3>4, <3>5, <3>6, Zenon
  <2> QED
    BY <2>1, <2>2
<1> HIDE DEF D
<1>1. PICK a \in D : \A i \in D : t[i].missed <= t[a].missed
  <2> DEFINE T == {MaxMissed - t[i].missed : i \in D}
  <2>1. T \subseteq Nat /\ T # {}
    BY <1>0, ScannerAssumption
  <2>2. PICK x \in T : \A y \in T : x <= y
    <3> HIDE DEF T
    <3> QED
      BY <2>1, LeastOf
  <2>3. PICK a \in D : x = MaxMissed - t[a].missed
    BY <2>2
  <2>4. ASSUME NEW i \in D PROVE t[i].missed <= t[a].missed
    <3>1. MaxMissed - t[i].missed \in T
      OBVIOUS
    <3> HIDE DEF T
    <3>2. MaxMissed - t[a].missed <= MaxMissed - t[i].missed
      BY <2>2, <2>3, <3>1
    <3> QED
      BY <1>0, <3>2, ScannerAssumption
  <2> QED
    BY <2>4
<1> DEFINE A == {i \in D : t[i].missed = t[a].missed}
<1>2. PICK b \in A : \A i \in A : t[b].rssi <= t[i].rssi
  <2> DEFINE T == {t[i].rssi + 128 : i \in A}
  <2>1. T \subseteq Nat /\ T # {}
    <3>1. T \subseteq Nat
      <4> SUFFICES ASSUME NEW i \in A PROVE t[i].rssi + 128 \in Nat
        OBVIOUS
      <4> QED
        BY <1>0
    <3>2. a \in A
      OBVIOUS
    <3> HIDE DEF A
    <3>3. t[a].rssi + 128 \in T
      BY <3>2
    <3> HIDE DEF T
    <3> QED
      BY <3>1, <3>3
  <2>2. PICK x \in T : \A y \in T : x <= y
    <3> HIDE DEF T
    <3> QED
      BY <2>1, LeastOf
  <2>3. PICK b \in A : x = t[b].rssi + 128
    BY <2>2
  <2>4. ASSUME NEW i \in A PROVE t[b].rssi <= t[i].rssi
    <3>1. t[i].rssi + 128 \in T
      OBVIOUS
    <3> HIDE DEF T
    <3>2. t[b].rssi + 128 <= t[i].rssi + 128
      BY <2>2, <2>3, <3>1
    <3> QED
      BY <1>0, <3>2
  <2> QED
    BY <2>4
<1> DEFINE B == {i \in A : t[i].rssi = t[b].rssi}
<1>3. PICK c \in B : \A i \in B : i <= c
  <2> DEFINE T == {Len(t) - i : i \in B}
  <2>1. T \subseteq Nat /\ T # {}
    <3>1. T \subseteq Nat
      <4> SUFFICES ASSUME NEW i \in B PROVE Len(t) - i \in Nat
        OBVIOUS
      <4> QED
        BY <1>0
    <3>2. b \in B
      OBVIOUS
    <3> HIDE DEF B
    <3>3. Len(t) - b \in T
      BY <3>2
    <3> HIDE DEF T
    <3> QED
      BY <3>1, <3>3
  <2>2. PICK x \in T : \A y \in T : x <= y
    <3> HIDE DEF T
    <3> QED
      BY <2>1, LeastOf
  <2>3. PICK c \in B : x = Len(t) - c
    BY <2>2
  <2>4. ASSUME NEW i \in B PROVE i <= c
    <3>1. Len(t) - i \in T
      OBVIOUS
    <3> HIDE DEF T
    <3>2. Len(t) - c <= Len(t) - i
      BY <2>2, <2>3, <3>1
    <3> QED
      BY <1>0, <3>2
  <2> QED
    BY <2>4
<1>4. BS!Worst(t, c)
  <2> SUFFICES ASSUME NEW j \in D, j # c
               PROVE  \/ t[j].missed < t[c].missed
                      \/ t[j].missed = t[c].missed /\ t[j].rssi > t[c].rssi
                      \/ t[j].missed = t[c].missed /\ t[j].rssi = t[c].rssi /\ j < c
    BY <1>0 DEF BS!Worst
  <2>1. c \in D /\ c \in A /\ t[c].rssi = t[b].rssi /\ t[c].missed = t[a].missed
    BY <1>3
  <2>2. /\ t[j].missed \in Int /\ t[c].missed \in Int /\ t[j].missed <= t[c].missed
        /\ t[j].rssi \in Int /\ t[c].rssi \in Int /\ j \in Nat /\ c \in Nat
    <3>1. t[j].missed \in 0..MaxMissed /\ t[c].missed \in 0..MaxMissed
      BY <1>0, <2>1
    <3>2. t[j].missed \in Int /\ t[c].missed \in Int
      BY <3>1, ScannerAssumption
    <3>3. t[j].missed <= t[c].missed
      BY <1>1, <2>1
    <3>4. t[j].rssi \in Int /\ t[c].rssi \in Int /\ j \in Nat /\ c \in Nat
      BY <1>0, <2>1
    <3> QED
      BY <3>2, <3>3, <3>4
  <2>3. CASE j \notin A
    <3>1. t[j].missed # t[c].missed
      BY <2>1, <2>3
    <3> QED
      BY <2>2, <3>1
  <2>4. CASE j \in A
    <3>1. t[j].missed = t[c].missed /\ t[c].rssi <= t[j].rssi
      BY <1>2, <2>1, <2>4
    <3>2. t[j].rssi = t[c].rssi => j <= c
      BY <1>3, <2>1, <2>4
    <3> QED
      BY <2>2, <3>1, <3>2
  <2> QED
    BY <2>3, <2>4
<1> QED
  BY <1>0, <1>3, <1>4

\* An eviction takes one device out, or none.
LEMMA EvictTable ==
    \A t \in Table :
        /\ BS!EvictOne(t) \in Table
        /\ \A k \in 1..Len(BS!EvictOne(t)) :
             \E m \in 1..Len(t) : BS!EvictOne(t)[k] = t[m]
<1> SUFFICES ASSUME NEW t \in Table
             PROVE  /\ BS!EvictOne(t) \in Table
                    /\ \A k \in 1..Len(BS!EvictOne(t)) :
                         \E m \in 1..Len(t) : BS!EvictOne(t)[k] = t[m]
  OBVIOUS
<1> DEFINE i == CHOOSE k \in DOMAIN t : BS!Worst(t, k)
<1>1. CASE BS!EvictOne(t) = t
  BY <1>1
<1>2. CASE t # <<>> /\ BS!EvictOne(t) = BS!RemoveAt(t, i)
  <2>1. t \in Seq(Sightings) /\ Len(t) <= MaxDevices /\ Distinct(t)
    BY DEF Table
  <2>2. i \in DOMAIN t
    BY <1>2, <2>1, WorstExists
  <2> HIDE DEF i
  <2>3. i \in 1..Len(t)
    BY <2>1, <2>2
  <2>4. /\ BS!RemoveAt(t, i) \in Seq(Sightings) /\ Len(BS!RemoveAt(t, i)) = Len(t) - 1
    BY <2>1, <2>3, RemoveFacts
  <2>5. /\ Distinct(BS!RemoveAt(t, i))
        /\ \A k \in 1..Len(t) - 1 : \E m \in 1..Len(t) : BS!RemoveAt(t, i)[k] = t[m]
    BY <2>1, <2>3, RemoveDistinct
  <2>6. Len(t) - 1 <= MaxDevices
    BY <2>1, ScannerAssumption
  <2> QED
    BY <1>2, <2>4, <2>5, <2>6 DEF Table
<1> QED
  BY <1>1, <1>2 DEF BS!EvictOne

\* One result leaves a table: the device's own row, a row more, or none.
LEMMA FoldTable == \A t \in Table, r \in Results : BS!Fold(t, r) \in Table
<1> SUFFICES ASSUME NEW t \in Table, NEW r \in Results PROVE BS!Fold(t, r) \in Table
  OBVIOUS
<1> DEFINE new  == [addr |-> r.addr, rssi |-> r.rssi, missed |-> 0]
           room == IF Len(t) >= MaxDevices THEN BS!EvictOne(t) ELSE t
           i    == CHOOSE k \in BS!At(t, r.addr) : TRUE
<1>1. t \in Seq(Sightings) /\ Len(t) <= MaxDevices /\ Distinct(t)
  BY DEF Table
<1>2. new \in Sightings /\ new.addr = r.addr
  BY ScannerAssumption DEF Sightings, Results
<1>3. /\ room \in Table
      /\ \A k \in 1..Len(room) : \E m \in 1..Len(t) : room[k] = t[m]
  BY EvictTable
<1>4. BS!Fold(t, r) = CASE r.addr \in BS!Known(t) -> [t EXCEPT ![i] = new]
                        [] r.addr \notin BS!Known(t) /\ Len(room) < MaxDevices -> Append(room, new)
                        [] OTHER -> room
  BY DEF BS!Fold
<1> HIDE DEF new, room
<1>5. CASE r.addr \in BS!Known(t)
  <2>1. i \in 1..Len(t) /\ t[i].addr = r.addr
    BY <1>1, <1>5 DEF BS!Known, BS!At
  <2> HIDE DEF i
  <2> DEFINE u == [t EXCEPT ![i] = new]
  <2>2. /\ u \in Seq(Sightings) /\ Len(u) = Len(t)
        /\ \A k \in 1..Len(t) : u[k] = IF k = i THEN new ELSE t[k]
    BY <1>1, <1>2, <2>1
  <2>3. BS!Fold(t, r) = u
    BY <1>4, <1>5
  <2> HIDE DEF u
  <2>4. \A k \in 1..Len(t) : u[k].addr = t[k].addr
    BY <1>2, <2>1, <2>2
  <2>5. Distinct(u)
    BY <1>1, <2>2, <2>4 DEF Distinct
  <2> QED
    BY <1>1, <2>2, <2>3, <2>5 DEF Table
<1>6. CASE r.addr \notin BS!Known(t) /\ Len(room) < MaxDevices
  <2>1. room \in Seq(Sightings) /\ Distinct(room) /\ Len(room) \in Nat
    BY <1>3 DEF Table
  <2>2. \A k \in 1..Len(room) : room[k].addr # r.addr
    BY <1>1, <1>3, <1>6 DEF BS!Known
  <2> DEFINE u == Append(room, new)
  <2>3. /\ u \in Seq(Sightings) /\ Len(u) = Len(room) + 1
        /\ \A k \in 1..Len(room) : u[k] = room[k]
        /\ u[Len(room) + 1] = new
    BY <1>2, <2>1
  <2>4. BS!Fold(t, r) = u
    BY <1>4, <1>6
  <2> HIDE DEF u
  <2>5. ASSUME NEW k \in 1..Len(u), NEW m \in 1..Len(u), u[k].addr = u[m].addr
        PROVE  k = m
    <3>1. CASE k \in 1..Len(room) /\ m \in 1..Len(room)
      BY <2>1, <2>3, <2>5, <3>1 DEF Distinct
    <3>2. CASE k = Len(room) + 1 \/ m = Len(room) + 1
      BY <1>2, <2>1, <2>2, <2>3, <2>5, <3>2
    <3> QED
      BY <2>1, <2>3, <3>1, <3>2
  <2>6. Distinct(u) /\ Len(u) <= MaxDevices
    BY <1>6, <2>1, <2>3, <2>5, ScannerAssumption DEF Distinct
  <2> QED
    BY <2>3, <2>4, <2>6 DEF Table
<1>7. CASE r.addr \notin BS!Known(t) /\ ~(Len(room) < MaxDevices)
  BY <1>3, <1>4, <1>7
<1> QED
  BY <1>5, <1>6, <1>7

\* A round of results, folded one by one, leaves a table.
LEMMA FoldedTable == \A t \in Table, round \in Seq(Results) : BS!Folded(t, round) \in Table
<1> SUFFICES ASSUME NEW t \in Table, NEW round \in Seq(Results)
             PROVE  BS!Folded(t, round) \in Table
  OBVIOUS
<1> DEFINE L == Len(round)
           G == [p \in (1..L) \X Table |-> BS!Fold(p[2], round[p[1]])]
           U == [n \in 0..L |-> Table]
           after == CHOOSE a : a = [n \in 0..L |-> IF n = 0 THEN t ELSE BS!Fold(a[n - 1], round[n])]
<1>1. L \in Nat /\ \A n \in 1..L : round[n] \in Results
  OBVIOUS
<1>2. BS!Folded(t, round) = after[L]
  BY DEF BS!Folded
<1> HIDE DEF L
<1>3. ASSUME NEW n \in 1..L, NEW v \in Table
      PROVE  BS!Fold(v, round[n]) \in Table /\ G[<<n, v>>] = BS!Fold(v, round[n])
  BY <1>1, FoldTable
<1>4. PICK f : Recursive(f, L, t, G)
  BY <1>1, RecursionDefines
<1>5. \A n \in 0..L : f[n] \in Table
  <2>1. \A n \in 1..L : \A v \in U[n - 1] : G[<<n, v>>] \in U[n]
    <3> SUFFICES ASSUME NEW n \in 1..L, NEW v \in U[n - 1] PROVE G[<<n, v>>] \in U[n]
      OBVIOUS
    <3>1. U[n - 1] = Table /\ U[n] = Table
      BY <1>1
    <3> QED
      BY <1>3, <3>1
  <2>2. t \in U[0]
    BY <1>1
  <2> HIDE DEF U, G
  <2>3. \A n \in 0..L : f[n] \in U[n]
    BY <1>1, <1>4, <2>1, <2>2, RecursionIn
  <2> QED
    BY <2>3 DEF U
<1>6. f = [n \in 0..L |-> IF n = 0 THEN t ELSE BS!Fold(f[n - 1], round[n])]
  <2>1. ASSUME NEW n \in 0..L, n # 0 PROVE G[<<n, f[n - 1]>>] = BS!Fold(f[n - 1], round[n])
    <3>1. n \in 1..L /\ n - 1 \in 0..L
      BY <1>1, <2>1
    <3> QED
      BY <1>3, <1>5, <3>1
  <2> HIDE DEF G
  <2>2. f = [n \in 0..L |-> IF n = 0 THEN t ELSE G[<<n, f[n - 1]>>]]
    BY <1>4 DEF Recursive
  <2> QED
    BY <2>1, <2>2
<1>7. after = [n \in 0..L |-> IF n = 0 THEN t ELSE BS!Fold(after[n - 1], round[n])]
  BY <1>6
<1> HIDE DEF after, G, U
<1> DEFINE S == {n \in 0..L : after[n] \in Table}
<1>8. 0 \in S
  BY <1>1, <1>7
<1>9. ASSUME NEW n \in 1..L, n - 1 \in S PROVE n \in S
  <2>1. n \in 0..L /\ n # 0
    BY <1>1
  <2>2. after[n] = BS!Fold(after[n - 1], round[n])
    BY <1>7, <2>1
  <2> QED
    BY <1>3, <1>9, <2>1, <2>2
<1> HIDE DEF S
<1>10. 0..L \subseteq S
  BY <1>1, <1>8, <1>9, UpTo
<1> QED
  BY <1>1, <1>2, <1>10 DEF S

\* A merged round leaves a table: the devices it missed only age.
LEMMA MergeTable == \A t \in Table, round \in Seq(Results) : BS!Merge(t, round) \in Table
<1> SUFFICES ASSUME NEW t \in Table, NEW round \in Seq(Results)
             PROVE  BS!Merge(t, round) \in Table
  OBVIOUS
<1> DEFINE v == BS!Folded(t, round)
           u == [i \in DOMAIN v |->
                   IF v[i].addr \in BS!Heard(round) THEN v[i] ELSE BS!Missed(v[i])]
<1>1. v \in Seq(Sightings) /\ Len(v) <= MaxDevices /\ Distinct(v)
  BY FoldedTable DEF Table
<1>2. BS!Merge(t, round) = u
  BY DEF BS!Merge
<1> HIDE DEF v
<1>3. \A d \in Sightings : BS!Missed(d) \in Sightings /\ BS!Missed(d).addr = d.addr
  <2> SUFFICES ASSUME NEW d \in Sightings
               PROVE  BS!Missed(d) \in Sightings /\ BS!Missed(d).addr = d.addr
    OBVIOUS
  <2> DEFINE m == IF d.missed < MaxMissed THEN d.missed + 1 ELSE d.missed
  <2>1. m \in 0..MaxMissed
    BY ScannerAssumption DEF Sightings
  <2>2. BS!Missed(d) = [d EXCEPT !.missed = m]
    BY DEF BS!Missed
  <2> HIDE DEF m
  <2> QED
    BY <2>1, <2>2 DEF Sightings
<1>4. DOMAIN v = 1..Len(v) /\ Len(v) \in Nat
  BY <1>1
<1>5. ASSUME NEW i \in 1..Len(v) PROVE u[i] \in Sightings /\ u[i].addr = v[i].addr
  BY <1>1, <1>3, <1>4
<1>6. u \in Seq(Sightings) /\ Len(u) = Len(v)
  <2>1. u \in [1..Len(v) -> Sightings]
    BY <1>4, <1>5
  <2> HIDE DEF u
  <2> QED
    BY <1>4, <2>1
<1> HIDE DEF u
<1>7. Distinct(u)
  BY <1>1, <1>5, <1>6 DEF Distinct
<1> QED
  BY <1>1, <1>2, <1>6, <1>7 DEF Table

-----------------------------------------------------------------------------
(* ble_scanner: the rows.                                                  *)

\* The rows after position m name devices of A.
Kept(v, m, A) ==
    /\ v \in Seq(RowSet) /\ Distinct(v) /\ Len(v) >= m
    /\ \A k \in 1..Len(v) : k > m => v[k].addr \in A

\* A row that is looked at stays or goes.
LEMMA PruneStep ==
    \A v, m, t : m \in Nat \ {0} /\ Kept(v, m, BS!Known(t)) =>
                 Kept(BS!Prune(v, m, t), m - 1, BS!Known(t))
<1> TAKE v, m, t
<1> HAVE m \in Nat \ {0} /\ Kept(v, m, BS!Known(t))
<1> DEFINE A == BS!Known(t)
<1> HIDE DEF A
<1>1. /\ v \in Seq(RowSet) /\ Distinct(v) /\ Len(v) >= m /\ Len(v) \in Nat
      /\ \A k \in 1..Len(v) : k > m => v[k].addr \in A
  BY DEF Kept, A
<1>2. CASE v[m].addr \in A
  <2>1. BS!Prune(v, m, t) = v
    BY <1>2 DEF BS!Prune, A
  <2>2. Kept(v, m - 1, A)
    BY <1>1, <1>2 DEF Kept
  <2> QED
    BY <2>1, <2>2 DEF A
<1>3. CASE v[m].addr \notin A
  <2> DEFINE w == BS!RemoveAt(v, m)
  <2>1. BS!Prune(v, m, t) = w
    BY <1>3 DEF BS!Prune, A
  <2>2. m \in 1..Len(v)
    BY <1>1
  <2>3. /\ w \in Seq(RowSet) /\ Len(w) = Len(v) - 1
        /\ \A k \in 1..Len(v) - 1 : w[k] = IF k < m THEN v[k] ELSE v[k + 1]
    BY <1>1, <2>2, RemoveFacts
  <2>4. Distinct(w)
    BY <1>1, <2>2, RemoveDistinct
  <2> HIDE DEF w
  <2>5. Kept(w, m - 1, A)
    BY <1>1, <2>3, <2>4 DEF Kept
  <2> QED
    BY <2>1, <2>5 DEF A
<1> QED
  BY <1>2, <1>3

\* The first n rows are in place.
Placed(v, n, want, A) ==
    /\ v \in Seq(RowSet) /\ Distinct(v) /\ Len(v) >= n
    /\ \A k \in 1..n : v[k] = want[k]
    /\ \A k \in 1..Len(v) : v[k].addr \in A

\* A row no other has the address of is put in its place.
LEMMA InsertPlaced ==
    \A w, n, want, A :
        /\ n \in Nat \ {0} /\ Placed(w, n - 1, want, A)
        /\ want[n] \in RowSet /\ want[n].addr \in A
        /\ \A k \in 1..Len(w) : w[k].addr # want[n].addr
        => Placed(BS!InsertAt(w, n, want[n]), n, want, A)
<1> TAKE w, n, want, A
<1> HAVE /\ n \in Nat \ {0} /\ Placed(w, n - 1, want, A)
         /\ want[n] \in RowSet /\ want[n].addr \in A
         /\ \A k \in 1..Len(w) : w[k].addr # want[n].addr
<1> DEFINE u == BS!InsertAt(w, n, want[n])
<1>1. /\ w \in Seq(RowSet) /\ Distinct(w) /\ Len(w) >= n - 1 /\ Len(w) \in Nat
      /\ \A k \in 1..n - 1 : w[k] = want[k]
      /\ \A k \in 1..Len(w) : w[k].addr \in A
  BY DEF Placed
<1>2. n \in 1..Len(w) + 1
  BY <1>1
<1>3. /\ u \in Seq(RowSet) /\ Len(u) = Len(w) + 1
      /\ \A k \in 1..Len(w) + 1 :
           u[k] = IF k < n THEN w[k] ELSE IF k = n THEN want[n] ELSE w[k - 1]
  BY <1>1, <1>2, InsertFacts
<1>4. /\ Distinct(u)
      /\ \A k \in 1..Len(w) + 1 : u[k] = want[n] \/ \E m \in 1..Len(w) : u[k] = w[m]
  BY <1>1, <1>2, InsertDistinct
<1> HIDE DEF u
<1>5. Len(u) >= n
  BY <1>1, <1>3
<1>6. ASSUME NEW k \in 1..n PROVE u[k] = want[k]
  <2>1. CASE k = n
    BY <1>2, <1>3, <2>1
  <2>2. CASE k # n
    <3>1. k \in 1..Len(w) + 1 /\ k < n /\ k \in 1..n - 1
      BY <1>1, <2>2
    <3> QED
      BY <1>1, <1>3, <3>1
  <2> QED
    BY <2>1, <2>2
<1>7. \A k \in 1..Len(u) : u[k].addr \in A
  BY <1>1, <1>3, <1>4
<1> QED
  BY <1>3, <1>4, <1>5, <1>6, <1>7 DEF Placed, u

\* One row is inserted, moved or updated, and one more is in place.
LEMMA PlaceStep ==
    \A v, n, want, A :
        /\ n \in Nat \ {0} /\ Placed(v, n - 1, want, A)
        /\ want[n] \in RowSet /\ want[n].addr \in A
        /\ \A k \in 1..n - 1 : want[k].addr # want[n].addr
        => Placed(BS!Place(v, n, want[n]), n, want, A)
<1> TAKE v, n, want, A
<1> HAVE /\ n \in Nat \ {0} /\ Placed(v, n - 1, want, A)
         /\ want[n] \in RowSet /\ want[n].addr \in A
         /\ \A k \in 1..n - 1 : want[k].addr # want[n].addr
<1> DEFINE d == want[n]
           j == CHOOSE k \in BS!At(v, d.addr) : TRUE
<1>1. /\ v \in Seq(RowSet) /\ Distinct(v) /\ Len(v) >= n - 1 /\ Len(v) \in Nat
      /\ \A k \in 1..n - 1 : v[k] = want[k]
      /\ \A k \in 1..Len(v) : v[k].addr \in A
  BY DEF Placed
<1>2. CASE d.addr \notin BS!Known(v)
  <2>1. \A k \in 1..Len(v) : v[k].addr # want[n].addr
    BY <1>1, <1>2 DEF BS!Known
  <2>2. BS!Place(v, n, want[n]) = BS!InsertAt(v, n, want[n])
    BY <1>2 DEF BS!Place
  <2> QED
    BY <2>1, <2>2, InsertPlaced
<1>3. CASE d.addr \in BS!Known(v)
  <2>1. j \in 1..Len(v) /\ v[j].addr = d.addr
    BY <1>1, <1>3 DEF BS!Known, BS!At
  <2>2. BS!Place(v, n, d) = IF j = n THEN [v EXCEPT ![n] = d]
                            ELSE BS!InsertAt(BS!RemoveAt(v, j), n, d)
    BY <1>3 DEF BS!Place
  <2> HIDE DEF j
  <2>3. ~(j < n)
    <3> SUFFICES ASSUME j < n PROVE FALSE
      OBVIOUS
    <3>1. j \in 1..n - 1
      BY <2>1
    <3> QED
      BY <1>1, <2>1, <3>1
  <2>4. CASE j = n
    <3> DEFINE u == [v EXCEPT ![n] = d]
    <3>1. /\ u \in Seq(RowSet) /\ Len(u) = Len(v)
          /\ \A k \in 1..Len(v) : u[k] = IF k = n THEN d ELSE v[k]
      BY <1>1, <2>1, <2>4
    <3> HIDE DEF u
    <3>2. \A k \in 1..Len(v) : u[k].addr = v[k].addr
      BY <2>1, <2>4, <3>1
    <3>3. Distinct(u)
      BY <1>1, <3>1, <3>2 DEF Distinct
    <3>4. \A k \in 1..n : u[k] = want[k]
      BY <1>1, <2>1, <2>4, <3>1
    <3>5. Placed(u, n, want, A)
      BY <1>1, <2>1, <2>4, <3>1, <3>2, <3>3, <3>4 DEF Placed
    <3> QED
      BY <2>2, <2>4, <3>5 DEF u
  <2>5. CASE j # n
    <3> DEFINE w == BS!RemoveAt(v, j)
    <3>1. /\ w \in Seq(RowSet) /\ Len(w) = Len(v) - 1
          /\ \A k \in 1..Len(v) - 1 : w[k] = IF k < j THEN v[k] ELSE v[k + 1]
      <4>1. v \in Seq(RowSet) /\ j \in 1..Len(v)
        BY <1>1, <2>1
      <4> QED
        BY <4>1, RemoveFacts
    <3>2. /\ Distinct(w)
          /\ \A k \in 1..Len(v) - 1 : /\ w[k].addr # v[j].addr
                                      /\ \E m \in 1..Len(v) : w[k] = v[m]
      BY <1>1, <2>1, RemoveDistinct
    <3>3. BS!Place(v, n, want[n]) = BS!InsertAt(w, n, want[n])
      BY <2>2, <2>5
    <3> HIDE DEF w
    <3>4. j > n /\ Len(w) >= n
      BY <1>1, <2>1, <2>3, <2>5, <3>1
    <3>5. \A k \in 1..n - 1 : w[k] = want[k]
      BY <1>1, <2>1, <3>1, <3>4
    <3>6. Placed(w, n - 1, want, A)
      BY <1>1, <3>1, <3>2, <3>4, <3>5 DEF Placed
    <3>7. \A k \in 1..Len(w) : w[k].addr # want[n].addr
      BY <2>1, <3>1, <3>2
    <3>8. Placed(BS!InsertAt(w, n, want[n]), n, want, A)
      BY <3>6, <3>7, InsertPlaced
    <3> QED
      BY <3>3, <3>8
  <2> QED
    BY <2>2, <2>4, <2>5
<1> QED
  BY <1>2, <1>3

\* After the pruning every row left names a device of the table.
LEMMA PrunedKept ==
    \A rows, t : rows \in Seq(RowSet) /\ Distinct(rows) =>
                 Kept(BS!Pruned(rows, t), 0, BS!Known(t))
<1> TAKE rows, t
<1> HAVE rows \in Seq(RowSet) /\ Distinct(rows)
<1> DEFINE L == Len(rows)
           A == BS!Known(t)
           U == [n \in 0..L |-> {v \in Seq(RowSet) : Kept(v, L - n, A)}]
           G == [p \in (1..L) \X Seq(RowSet) |-> BS!Prune(p[2], L - p[1] + 1, t)]
           left == CHOOSE a : a = [n \in 0..L |-> IF n = 0 THEN rows
                                                  ELSE BS!Prune(a[n - 1], L - n + 1, t)]
<1>1. L \in Nat
  OBVIOUS
<1>2. BS!Pruned(rows, t) = left[L]
  BY DEF BS!Pruned
<1>3. rows \in U[0]
  BY <1>1 DEF Kept
<1> HIDE DEF L
<1>4. ASSUME NEW n \in 1..L, NEW v \in U[n - 1]
      PROVE  BS!Prune(v, L - n + 1, t) \in U[n] /\ G[<<n, v>>] = BS!Prune(v, L - n + 1, t)
  <2>1. n - 1 \in 0..L /\ n \in 0..L /\ L - (n - 1) = L - n + 1
    BY <1>1
  <2>2. v \in Seq(RowSet) /\ Kept(v, L - n + 1, A)
    BY <2>1
  <2>3. L - n + 1 \in Nat \ {0} /\ (L - n + 1) - 1 = L - n
    BY <1>1
  <2>4. Kept(BS!Prune(v, L - n + 1, t), L - n, A)
    BY <2>2, <2>3, PruneStep
  <2>5. BS!Prune(v, L - n + 1, t) \in Seq(RowSet)
    BY <2>4 DEF Kept
  <2>6. <<n, v>> \in (1..L) \X Seq(RowSet)
    BY <2>2
  <2> QED
    BY <2>1, <2>4, <2>5, <2>6
<1> HIDE DEF U, G
<1>5. PICK f : Recursive(f, L, rows, G)
  BY <1>1, RecursionDefines
<1>6. \A n \in 0..L : f[n] \in U[n]
  BY <1>1, <1>3, <1>4, <1>5, RecursionIn
<1>7. f = [n \in 0..L |-> IF n = 0 THEN rows ELSE BS!Prune(f[n - 1], L - n + 1, t)]
  <2>1. ASSUME NEW n \in 0..L, n # 0
        PROVE  G[<<n, f[n - 1]>>] = BS!Prune(f[n - 1], L - n + 1, t)
    <3>1. n \in 1..L /\ n - 1 \in 0..L
      BY <1>1, <2>1
    <3> QED
      BY <1>4, <1>6, <3>1
  <2>2. f = [n \in 0..L |-> IF n = 0 THEN rows ELSE G[<<n, f[n - 1]>>]]
    BY <1>5 DEF Recursive
  <2> QED
    BY <2>1, <2>2
<1>8. left = [n \in 0..L |-> IF n = 0 THEN rows ELSE BS!Prune(left[n - 1], L - n + 1, t)]
  BY <1>7
<1> HIDE DEF left
<1> DEFINE S == {n \in 0..L : left[n] \in U[n]}
<1>9. 0 \in S
  BY <1>1, <1>3, <1>8
<1>10. ASSUME NEW n \in 1..L, n - 1 \in S PROVE n \in S
  <2>1. n \in 0..L /\ n # 0
    BY <1>1
  <2>2. left[n] = BS!Prune(left[n - 1], L - n + 1, t)
    BY <1>8, <2>1
  <2>3. left[n - 1] \in U[n - 1]
    BY <1>10
  <2>4. BS!Prune(left[n - 1], L - n + 1, t) \in U[n]
    BY <1>4, <2>3
  <2> QED
    BY <2>1, <2>2, <2>4
<1> HIDE DEF S
<1>11. 0..L \subseteq S
  BY <1>1, <1>9, <1>10, UpTo
<1>12. left[L] \in U[L]
  BY <1>1, <1>11 DEF S
<1>13. Kept(left[L], L - L, A) /\ L - L = 0
  BY <1>1, <1>12 DEF U
<1> QED
  BY <1>2, <1>13

\* Rows whose addresses the wanted ones have become the wanted ones.
LEMMA EditedIsWanted ==
    \A rows, want, A :
        /\ want \in Seq(RowSet) /\ Distinct(want) /\ Placed(rows, 0, want, A)
        /\ A = {want[k].addr : k \in 1..Len(want)}
        => BS!Edited(rows, want) = want
<1> TAKE rows, want, A
<1> HAVE /\ want \in Seq(RowSet) /\ Distinct(want) /\ Placed(rows, 0, want, A)
         /\ A = {want[k].addr : k \in 1..Len(want)}
<1> DEFINE L == Len(want)
           U == [n \in 0..L |-> {v \in Seq(RowSet) : Placed(v, n, want, A)}]
           G == [p \in (1..L) \X Seq(RowSet) |-> BS!Place(p[2], p[1], want[p[1]])]
           edit == CHOOSE a : a = [i \in 0..L |-> IF i = 0 THEN rows
                                                  ELSE BS!Place(a[i - 1], i, want[i])]
<1>1. L \in Nat
  OBVIOUS
<1>2. BS!Edited(rows, want) = edit[L]
  BY DEF BS!Edited
<1>3. rows \in U[0]
  BY <1>1 DEF Placed
<1>4. ASSUME NEW n \in 1..L, NEW v \in U[n - 1]
      PROVE  BS!Place(v, n, want[n]) \in U[n] /\ G[<<n, v>>] = BS!Place(v, n, want[n])
  <2>1. n - 1 \in 0..L /\ n \in 0..L /\ n \in Nat \ {0}
    BY <1>1
  <2>2. v \in Seq(RowSet) /\ Placed(v, n - 1, want, A)
    BY <2>1
  <2>3. want[n] \in RowSet /\ want[n].addr \in A
    OBVIOUS
  <2>4. \A k \in 1..n - 1 : want[k].addr # want[n].addr
    BY <1>1 DEF Distinct
  <2>5. Placed(BS!Place(v, n, want[n]), n, want, A)
    BY <2>1, <2>2, <2>3, <2>4, PlaceStep
  <2>6. BS!Place(v, n, want[n]) \in Seq(RowSet)
    BY <2>5 DEF Placed
  <2>7. <<n, v>> \in (1..L) \X Seq(RowSet)
    BY <2>2
  <2> QED
    BY <2>1, <2>5, <2>6, <2>7
<1> HIDE DEF L, U, G
<1>5. PICK f : Recursive(f, L, rows, G)
  BY <1>1, RecursionDefines
<1>6. \A n \in 0..L : f[n] \in U[n]
  BY <1>1, <1>3, <1>4, <1>5, RecursionIn
<1>7. f = [i \in 0..L |-> IF i = 0 THEN rows ELSE BS!Place(f[i - 1], i, want[i])]
  <2>1. ASSUME NEW n \in 0..L, n # 0
        PROVE  G[<<n, f[n - 1]>>] = BS!Place(f[n - 1], n, want[n])
    <3>1. n \in 1..L /\ n - 1 \in 0..L
      BY <1>1, <2>1
    <3> QED
      BY <1>4, <1>6, <3>1
  <2>2. f = [n \in 0..L |-> IF n = 0 THEN rows ELSE G[<<n, f[n - 1]>>]]
    BY <1>5 DEF Recursive
  <2> QED
    BY <2>1, <2>2
<1>8. edit = [i \in 0..L |-> IF i = 0 THEN rows ELSE BS!Place(edit[i - 1], i, want[i])]
  BY <1>7
<1> HIDE DEF edit
<1> DEFINE S == {n \in 0..L : edit[n] \in U[n]}
<1>9. 0 \in S
  BY <1>1, <1>3, <1>8
<1>10. ASSUME NEW n \in 1..L, n - 1 \in S PROVE n \in S
  <2>1. n \in 0..L /\ n # 0
    BY <1>1
  <2>2. edit[n] = BS!Place(edit[n - 1], n, want[n])
    BY <1>8, <2>1
  <2>3. edit[n - 1] \in U[n - 1]
    BY <1>10
  <2>4. BS!Place(edit[n - 1], n, want[n]) \in U[n]
    BY <1>4, <2>3
  <2> QED
    BY <2>1, <2>2, <2>4
<1> HIDE DEF S
<1>11. 0..L \subseteq S
  BY <1>1, <1>9, <1>10, UpTo
<1>12. edit[L] \in U[L]
  BY <1>1, <1>11 DEF S
<1> DEFINE v == edit[L]
<1>13. Placed(v, L, want, A)
  BY <1>1, <1>12 DEF U
<1> HIDE DEF v
<1>14. /\ v \in Seq(RowSet) /\ Distinct(v) /\ Len(v) >= L /\ Len(v) \in Nat
       /\ \A k \in 1..L : v[k] = want[k]
       /\ \A k \in 1..Len(v) : v[k].addr \in A
  BY <1>13 DEF Placed
<1>15. Len(v) = L
  <2> SUFFICES ASSUME Len(v) > L PROVE FALSE
    BY <1>1, <1>14
  <2>1. L + 1 \in 1..Len(v)
    BY <1>1, <1>14
  <2>2. PICK k \in 1..L : v[L + 1].addr = want[k].addr
    BY <1>14, <2>1 DEF L
  <2>3. k \in 1..Len(v) /\ v[k].addr = v[L + 1].addr /\ k # L + 1
    BY <1>1, <1>14, <2>2
  <2> QED
    BY <1>14, <2>1, <2>3 DEF Distinct
<1>16. v = want
  BY <1>14, <1>15 DEF L
<1> QED
  BY <1>2, <1>16 DEF v

\* The rows a table calls for are rows, one for each of its addresses.
LEMMA DesiredFacts ==
    \A t \in Table :
        /\ BS!Desired(t) \in Seq(RowSet) /\ Distinct(BS!Desired(t))
        /\ BS!Known(t) = {BS!Desired(t)[k].addr : k \in 1..Len(BS!Desired(t))}
<1> SUFFICES ASSUME NEW t \in Table
             PROVE  /\ BS!Desired(t) \in Seq(RowSet) /\ Distinct(BS!Desired(t))
                    /\ BS!Known(t) = {BS!Desired(t)[k].addr : k \in 1..Len(BS!Desired(t))}
  OBVIOUS
<1> DEFINE want == BS!Desired(t)
<1>1. /\ t \in Seq(Sightings) /\ Distinct(t)
      /\ DOMAIN t = 1..Len(t) /\ Len(t) \in Nat
      /\ \A k \in 1..Len(t) : t[k] \in Sightings
  BY DEF Table
<1>2. \A d \in Sightings : BS!RowOf(d) \in RowSet /\ BS!RowOf(d).addr = d.addr
  BY DEF RowSet, BS!RowOf
<1>3. want = [k \in 1..Len(t) |-> BS!RowOf(t[k])]
  BY <1>1 DEF BS!Desired
<1> HIDE DEF want
<1>4. want \in [1..Len(t) -> RowSet]
  BY <1>1, <1>2, <1>3
<1>5. want \in Seq(RowSet) /\ Len(want) = Len(t)
  BY <1>1, <1>4
<1>6. \A k \in 1..Len(t) : want[k].addr = t[k].addr
  BY <1>1, <1>2, <1>3
<1>7. Distinct(want)
  BY <1>1, <1>5, <1>6 DEF Distinct
<1>8. BS!Known(t) = {want[k].addr : k \in 1..Len(want)}
  BY <1>1, <1>5, <1>6 DEF BS!Known
<1> QED
  BY <1>5, <1>7, <1>8 DEF want

\* Whatever rows are on screen, render makes them the table's.
LEMMA RenderIsDesired ==
    \A rows, t : rows \in Seq(RowSet) /\ Distinct(rows) /\ t \in Table =>
                 BS!Render(rows, t) = BS!Desired(t)
<1> TAKE rows, t
<1> HAVE rows \in Seq(RowSet) /\ Distinct(rows) /\ t \in Table
<1> DEFINE want == BS!Desired(t)
           left == BS!Pruned(rows, t)
           A    == BS!Known(t)
<1>1. Kept(left, 0, A)
  BY PrunedKept
<1>2. /\ want \in Seq(RowSet) /\ Distinct(want)
      /\ A = {want[k].addr : k \in 1..Len(want)}
  BY DesiredFacts
<1>3. BS!Render(rows, t) = IF rows = <<>> THEN want ELSE BS!Edited(left, want)
  BY DEF BS!Render
<1> HIDE DEF want, left, A
<1>4. Placed(left, 0, want, A)
  <2>1. /\ left \in Seq(RowSet) /\ Distinct(left) /\ Len(left) >= 0
        /\ \A k \in 1..Len(left) : k > 0 => left[k].addr \in A
    BY <1>1 DEF Kept
  <2>2. \A k \in 1..Len(left) : k > 0
    BY <2>1
  <2>3. \A k \in 1..0 : left[k] = want[k]
    OBVIOUS
  <2> QED
    BY <2>1, <2>2, <2>3 DEF Placed
<1>5. BS!Edited(left, want) = want
  BY <1>2, <1>4, EditedIsWanted
<1> QED
  BY <1>3, <1>5 DEF want

\* A round of scan results is a sequence of results.
LEMMA RoundsAreResults == BS!Rounds \subseteq Seq(Results)
<1> SUFFICES ASSUME NEW r \in BS!Rounds PROVE r \in Seq(Results)
  OBVIOUS
<1>1. PICK n \in 0..MaxResults : r \in [1..n -> Results]
  BY DEF BS!Rounds, BS!BoundedSeq, BS!SeqOf, Results
<1>2. n \in Nat
  BY ScannerAssumption
<1> QED
  BY <1>1, <1>2

\* The table has one entry for each address and room for all of them; the
\* rows are the table's while the list is on top, and gone otherwise.
ScannerInv ==
    /\ devices \in Table
    /\ active \in BOOLEAN
    /\ active => order = BS!Desired(devices)
    /\ ~active => order = <<>>

\* Nothing was seen at the start.
LEMMA ScannerInit == BS!Init => ScannerInv
<1> SUFFICES ASSUME BS!Init PROVE ScannerInv
  OBVIOUS
<1>1. <<>> \in Seq(Sightings) /\ Len(<<>>) = 0
  OBVIOUS
<1>2. Distinct(<<>>)
  BY DEF Distinct
<1>3. <<>> \in Table
  BY <1>1, <1>2, ScannerAssumption DEF Table
<1> QED
  BY <1>3 DEF BS!Init, ScannerInv

\* Each action of the scanner keeps the invariant.
LEMMA ScannerStep ==
    ASSUME ScannerInv, BS!Next
    PROVE  ScannerInv'
<1>1. devices \in Table /\ active \in BOOLEAN
  BY DEF ScannerInv
<1>2. order \in Seq(RowSet) /\ Distinct(order)
  <2>1. CASE active
    BY <1>1, <2>1, DesiredFacts DEF ScannerInv
  <2>2. CASE ~active
    BY <2>2 DEF ScannerInv, Distinct
  <2> QED
    BY <2>1, <2>2
<1>3. CASE BS!Enter
  <2>1. BS!Render(<<>>, devices) = BS!Desired(devices)
    BY DEF BS!Render
  <2> QED
    BY <1>3, <2>1 DEF BS!Enter, ScannerInv
<1>4. CASE BS!Exit
  BY <1>4 DEF BS!Exit, ScannerInv
<1>5. CASE BS!TickDone
  <2>1. CASE UNCHANGED <<devices, order>>
    BY <1>5, <2>1 DEF BS!TickDone, ScannerInv
  <2>2. ASSUME NEW round \in BS!Rounds, devices' = BS!Merge(devices, round),
               order' = IF active THEN BS!Render(order, devices') ELSE order
        PROVE  ScannerInv'
    <3>1. round \in Seq(Results)
      BY RoundsAreResults
    <3>2. devices' \in Table
      BY <1>1, <2>2, <3>1, MergeTable
    <3>3. active' = active
      BY <1>5 DEF BS!TickDone
    <3>4. active => order' = BS!Desired(devices')
      BY <1>2, <2>2, <3>2, RenderIsDesired
    <3>5. ~active => order' = <<>>
      BY <2>2 DEF ScannerInv
    <3> QED
      BY <1>1, <3>2, <3>3, <3>4, <3>5 DEF ScannerInv
  <2> QED
    BY <1>5, <2>1, <2>2 DEF BS!TickDone
<1>6. CASE BS!TickStart
  BY <1>6 DEF BS!TickStart, ScannerInv
<1>7. CASE BS!Switch
  BY <1>7 DEF BS!Switch, ScannerInv
<1> QED
  BY <1>3, <1>4, <1>5, <1>6, <1>7 DEF BS!Next

\* The rows on screen are the table's, in its order, whatever rounds were
\* merged, devices evicted and lists left and entered again; the table keeps
\* to its cap and has no address twice.
THEOREM RowsFollowTable == Spec => []RowsMirrorTable
<1>1. Init => ScannerInv
  BY ScannerInit DEF Init
<1>2. ScannerInv /\ [Next]_vars => ScannerInv'
  <2> SUFFICES ASSUME ScannerInv, [Next]_vars PROVE ScannerInv'
    OBVIOUS
  <2>1. CASE BS!Next
    BY <2>1, ScannerStep
  <2>2. CASE UNCHANGED bs
    BY <2>2 DEF bs, ScannerInv
  <2> QED
    BY <2>1, <2>2, StepOfEach
<1>3. ScannerInv => RowsMirrorTable
  BY DEF ScannerInv, RowsMirrorTable, BS!RowsMirrorTable, Table, Distinct
<1> QED
  BY <1>1, <1>2, <1>3, PTL DEF Spec

-----------------------------------------------------------------------------
(* gpio_mqtt: a link, and what a send makes of it.                         *)

Urls      == Brokers \cup {GM!None}
Pass      == Passwords \cup {GM!None}
PinLevels == [GM!Pins -> BOOLEAN]

Links == [conn : {GM!NoConn} \cup (Urls \X Pass), age : Nat, idle : Nat,
          nvs : Pass, rmem : Pass, sent : BOOLEAN]

\* A link as the settings ask for it, b the broker, w the password, f a fault.
Fits(s, b, w, f) ==
    /\ s \in Links
    /\ s.rmem = GM!None \/ s.nvs = GM!None
    /\ s.conn # GM!NoConn => s.conn[1] = b /\ (~f => s.conn[2] = w)
    /\ ~f => GM!ConfigPass(s) = w

\* A session in use was used within the ping interval.
Fresh(s) == s.conn # GM!NoConn => s.idle < PingAfter

\* The migration of the password keeps the password.
LEMMA MigratedFits ==
    \A s, b, w, f, ok : ok \in BOOLEAN /\ Fits(s, b, w, f) =>
        /\ Fits(GM!Migrated(s, ok), b, w, f)
        /\ GM!Migrated(s, ok).conn = s.conn /\ GM!Migrated(s, ok).idle = s.idle
<1> TAKE s, b, w, f, ok
<1> HAVE ok \in BOOLEAN /\ Fits(s, b, w, f)
<1>1. /\ s \in Links /\ s.nvs \in Pass /\ s.rmem \in Pass
      /\ GM!None \in Pass
  BY DEF Fits, Links, Pass
<1>2. CASE s.rmem = GM!None /\ s.nvs # GM!None /\ ok
  <2> DEFINE u == [s EXCEPT !.rmem = s.nvs, !.nvs = GM!None]
  <2>1. GM!Migrated(s, ok) = u
    BY <1>2 DEF GM!Migrated
  <2>2. /\ u \in Links /\ u.rmem = s.nvs /\ u.nvs = GM!None
        /\ u.conn = s.conn /\ u.idle = s.idle
    BY <1>1 DEF Links
  <2>3. GM!ConfigPass(u) = GM!ConfigPass(s)
    BY <1>2, <2>2 DEF GM!ConfigPass
  <2> HIDE DEF u
  <2> QED
    BY <2>1, <2>2, <2>3 DEF Fits
<1>3. CASE ~(s.rmem = GM!None /\ s.nvs # GM!None /\ ok)
  <2>1. GM!Migrated(s, ok) = s
    BY <1>3 DEF GM!Migrated
  <2> QED
    BY <2>1
<1> QED
  BY <1>2, <1>3

\* A new session has the settings it is opened with.
LEMMA ConnectFits ==
    \A s, w, f, up, ok :
        /\ up \in BOOLEAN /\ ok \in BOOLEAN /\ broker \in Urls
        /\ Fits(s, broker, w, f) /\ s.conn = GM!NoConn
        => Fits(GM!Connect(s, up, ok), broker, w, f)
<1> TAKE s, w, f, up, ok
<1> HAVE /\ up \in BOOLEAN /\ ok \in BOOLEAN /\ broker \in Urls
         /\ Fits(s, broker, w, f) /\ s.conn = GM!NoConn
<1>1. CASE broker = GM!None
  BY <1>1 DEF GM!Connect
<1>2. CASE broker # GM!None
  <2> DEFINE m == GM!Migrated(s, ok)
             c == IF up THEN <<broker, GM!ConfigPass(s)>> ELSE GM!NoConn
             u == [m EXCEPT !.conn = c]
  <2>1. Fits(m, broker, w, f)
    BY MigratedFits
  <2>2. GM!Connect(s, up, ok) = u
    BY <1>2 DEF GM!Connect
  <2>3. GM!ConfigPass(s) \in Pass /\ (~f => GM!ConfigPass(s) = w)
    BY DEF Fits, Links, GM!ConfigPass
  <2>4. c \in {GM!NoConn} \cup (Urls \X Pass)
    BY <2>3
  <2>5. c # GM!NoConn => c[1] = broker /\ (~f => c[2] = w)
    BY <2>3
  <2> HIDE DEF m, c
  <2>6. /\ u \in Links /\ u.rmem = m.rmem /\ u.nvs = m.nvs /\ u.conn = c
    BY <2>1, <2>4 DEF Fits, Links
  <2>7. GM!ConfigPass(u) = GM!ConfigPass(m)
    BY <2>6 DEF GM!ConfigPass
  <2> HIDE DEF u
  <2> QED
    BY <2>1, <2>2, <2>5, <2>6, <2>7 DEF Fits
<1> QED
  BY <1>1, <1>2

\* A send leaves a session that was just used, or none.
LEMMA SendFits ==
    \A s, w, f, up, through, ok :
        /\ up \in BOOLEAN /\ through \in BOOLEAN /\ ok \in BOOLEAN /\ broker \in Urls
        /\ Fits(s, broker, w, f)
        => /\ Fits(GM!Send(s, up, through, ok), broker, w, f)
           /\ Fresh(GM!Send(s, up, through, ok))
<1> TAKE s, w, f, up, through, ok
<1> HAVE /\ up \in BOOLEAN /\ through \in BOOLEAN /\ ok \in BOOLEAN /\ broker \in Urls
         /\ Fits(s, broker, w, f)
<1> DEFINE due  == s.conn = GM!NoConn /\ s.age >= RetryAfter
           aged == [s EXCEPT !.age = 0]
           open == IF due THEN GM!Connect(aged, up, ok) ELSE s
           sent == open.conn # GM!NoConn /\ through
           c    == IF sent THEN open.conn ELSE GM!NoConn
           i    == IF sent THEN 0 ELSE open.idle
           u    == [open EXCEPT !.sent = sent, !.conn = c, !.idle = i]
<1>1. GM!Send(s, up, through, ok) = u
  BY DEF GM!Send
<1>2. Fits(open, broker, w, f)
  <2>1. Fits(aged, broker, w, f) /\ aged.conn = s.conn
    <3>1. /\ aged \in Links /\ aged.conn = s.conn
          /\ aged.rmem = s.rmem /\ aged.nvs = s.nvs
      BY DEF Fits, Links
    <3>2. GM!ConfigPass(aged) = GM!ConfigPass(s)
      BY <3>1 DEF GM!ConfigPass
    <3> HIDE DEF aged
    <3> QED
      BY <3>1, <3>2 DEF Fits
  <2> HIDE DEF aged
  <2>2. CASE due
    <3>1. Fits(GM!Connect(aged, up, ok), broker, w, f)
      BY <2>1, <2>2, ConnectFits
    <3> QED
      BY <2>2, <3>1
  <2>3. CASE ~due
    BY <2>3
  <2> QED
    BY <2>2, <2>3
<1> HIDE DEF open
<1>3. sent \in BOOLEAN
  OBVIOUS
<1>4. open \in Links /\ c \in {GM!NoConn} \cup (Urls \X Pass) /\ i \in Nat
  BY <1>2 DEF Fits, Links
<1>5. c # GM!NoConn => c = open.conn /\ i = 0
  OBVIOUS
<1> HIDE DEF sent, c, i
<1>6. /\ u \in Links /\ u.rmem = open.rmem /\ u.nvs = open.nvs
      /\ u.conn = c /\ u.idle = i
  BY <1>3, <1>4 DEF Links
<1>7. GM!ConfigPass(u) = GM!ConfigPass(open)
  BY <1>6 DEF GM!ConfigPass
<1> HIDE DEF u
<1>8. Fits(u, broker, w, f)
  BY <1>2, <1>5, <1>6, <1>7 DEF Fits
<1>9. Fresh(u)
  BY <1>5, <1>6, GpioAssumption DEF Fresh
<1> QED
  BY <1>1, <1>8, <1>9

\* What a poll has told the broker after n pins; v is what it knew before.
Told(c, n, now, v, b, w, f) ==
    /\ c \in [s : Links, lost : BOOLEAN, told : PinLevels]
    /\ Fits(c.s, b, w, f) /\ Fresh(c.s)
    /\ ~c.lost /\ v = levels =>
         \A p \in GM!Pins : c.told[p] = IF p <= n THEN now[p] ELSE levels[p]

\* One pin more.
LEMMA PublishStep ==
    \A c, n, now, v, w, f, up, cut, ok :
        /\ n \in GM!Pins /\ now \in PinLevels /\ levels \in PinLevels
        /\ up \in BOOLEAN /\ ok \in BOOLEAN /\ broker \in Urls
        /\ Told(c, n - 1, now, v, broker, w, f)
        => Told(GM!Publish(c, n, now, up, cut, ok), n, now, v, broker, w, f)
<1> TAKE c, n, now, v, w, f, up, cut, ok
<1> HAVE /\ n \in GM!Pins /\ now \in PinLevels /\ levels \in PinLevels
         /\ up \in BOOLEAN /\ ok \in BOOLEAN /\ broker \in Urls
         /\ Told(c, n - 1, now, v, broker, w, f)
<1>1. /\ c \in [s : Links, lost : BOOLEAN, told : PinLevels]
      /\ Fits(c.s, broker, w, f) /\ Fresh(c.s)
      /\ ~c.lost /\ v = levels =>
           \A p \in GM!Pins : c.told[p] = IF p <= n - 1 THEN now[p] ELSE levels[p]
  BY DEF Told
<1>2. n \in Nat /\ \A p \in GM!Pins : p \in Nat
  BY GpioAssumption DEF GM!Pins
<1>3. CASE levels[n] = now[n]
  <2>1. GM!Publish(c, n, now, up, cut, ok) = c
    BY <1>3 DEF GM!Publish
  <2>2. ~c.lost /\ v = levels =>
           \A p \in GM!Pins : c.told[p] = IF p <= n THEN now[p] ELSE levels[p]
    BY <1>1, <1>2, <1>3
  <2> QED
    BY <1>1, <2>1, <2>2 DEF Told
<1>4. CASE levels[n] # now[n]
  <2> DEFINE s == GM!Send(c.s, up, n \notin cut, ok)
             t == IF s.sent THEN [c.told EXCEPT ![n] = now[n]] ELSE c.told
             u == [s |-> s, lost |-> c.lost \/ ~s.sent, told |-> t]
  <2>1. GM!Publish(c, n, now, up, cut, ok) = u
    BY <1>4 DEF GM!Publish
  <2>2. Fits(s, broker, w, f) /\ Fresh(s)
    <3>1. (n \notin cut) \in BOOLEAN
      OBVIOUS
    <3> QED
      BY <1>1, <3>1, SendFits
  <2> HIDE DEF s
  <2>3. s \in Links /\ s.sent \in BOOLEAN
    BY <2>2 DEF Fits, Links
  <2>4. t \in PinLevels
    BY <1>1, <2>3 DEF PinLevels
  <2>5. s.sent => \A p \in GM!Pins : t[p] = IF p = n THEN now[n] ELSE c.told[p]
    BY <1>1 DEF PinLevels
  <2> HIDE DEF t
  <2>6. u \in [s : Links, lost : BOOLEAN, told : PinLevels]
    BY <1>1, <2>3, <2>4, Zenon
  <2>7. u.s = s /\ u.told = t /\ (~u.lost => ~c.lost /\ s.sent)
    OBVIOUS
  <2> HIDE DEF u
  <2>8. ASSUME ~u.lost, v = levels, NEW p \in GM!Pins
        PROVE  u.told[p] = IF p <= n THEN now[p] ELSE levels[p]
    <3>1. t[p] = (IF p = n THEN now[n] ELSE c.told[p])
      BY <2>5, <2>7, <2>8
    <3>2. c.told[p] = IF p <= n - 1 THEN now[p] ELSE levels[p]
      BY <1>1, <2>7, <2>8
    <3> QED
      BY <1>2, <2>7, <3>1, <3>2
  <2> QED
    BY <2>1, <2>2, <2>6, <2>7, <2>8 DEF Told
<1> QED
  BY <1>3, <1>4

\* All pins.
LEMMA PublishedTold ==
    \A alive, now, w, f, up, cut, ok :
        /\ now \in PinLevels /\ levels \in PinLevels /\ told \in PinLevels
        /\ up \in BOOLEAN /\ ok \in BOOLEAN /\ broker \in Urls
        /\ Fits(alive, broker, w, f) /\ Fresh(alive)
        => Told(GM!Published(alive, now, up, cut, ok), PinCount, now, told, broker, w, f)
<1> TAKE alive, now, w, f, up, cut, ok
<1> HAVE /\ now \in PinLevels /\ levels \in PinLevels /\ told \in PinLevels
         /\ up \in BOOLEAN /\ ok \in BOOLEAN /\ broker \in Urls
         /\ Fits(alive, broker, w, f) /\ Fresh(alive)
<1> DEFINE L == PinCount
           V == [s : Links, lost : BOOLEAN, told : PinLevels]
           x == [s |-> alive, lost |-> FALSE, told |-> told]
           U == [n \in 0..L |-> {c \in V : Told(c, n, now, told, broker, w, f)}]
           G == [p \in (1..L) \X V |-> GM!Publish(p[2], p[1], now, up, cut, ok)]
           after == CHOOSE a : a = [n \in 0..L |-> IF n = 0 THEN x
                                      ELSE GM!Publish(a[n - 1], n, now, up, cut, ok)]
<1>1. L \in Nat
  BY GpioAssumption
<1>2. GM!Published(alive, now, up, cut, ok) = after[L]
  BY DEF GM!Published
<1>3. x \in U[0]
  <2>1. x \in V
    BY Zenon DEF Fits
  <2>2. \A p \in GM!Pins : p \in Nat \ {0}
    BY GpioAssumption DEF GM!Pins
  <2>3. x.s = alive /\ x.told = told
    OBVIOUS
  <2> HIDE DEF x
  <2>4. told = levels => \A p \in GM!Pins : x.told[p] = IF p <= 0 THEN now[p] ELSE levels[p]
    BY <2>2, <2>3
  <2>5. Told(x, 0, now, told, broker, w, f)
    BY <2>1, <2>3, <2>4 DEF Told
  <2> QED
    BY <1>1, <2>1, <2>5
<1> HIDE DEF x
<1>4. ASSUME NEW n \in 1..L, NEW c \in U[n - 1]
      PROVE  /\ GM!Publish(c, n, now, up, cut, ok) \in U[n]
             /\ G[<<n, c>>] = GM!Publish(c, n, now, up, cut, ok)
  <2>1. n - 1 \in 0..L /\ n \in 0..L /\ n \in GM!Pins
    BY <1>1 DEF GM!Pins
  <2>2. c \in V /\ Told(c, n - 1, now, told, broker, w, f)
    BY <2>1
  <2>3. Told(GM!Publish(c, n, now, up, cut, ok), n, now, told, broker, w, f)
    BY <2>1, <2>2, PublishStep
  <2>4. GM!Publish(c, n, now, up, cut, ok) \in V
    BY <2>3 DEF Told
  <2>5. <<n, c>> \in (1..L) \X V
    BY <2>2
  <2> HIDE DEF V
  <2> QED
    BY <2>1, <2>3, <2>4, <2>5
<1> HIDE DEF L, U, G, V
<1>5. PICK g : Recursive(g, L, x, G)
  BY <1>1, RecursionDefines
<1>6. \A n \in 0..L : g[n] \in U[n]
  BY <1>1, <1>3, <1>4, <1>5, RecursionIn
<1>7. g = [n \in 0..L |-> IF n = 0 THEN x ELSE GM!Publish(g[n - 1], n, now, up, cut, ok)]
  <2>1. ASSUME NEW n \in 0..L, n # 0
        PROVE  G[<<n, g[n - 1]>>] = GM!Publish(g[n - 1], n, now, up, cut, ok)
    <3>1. n \in 1..L /\ n - 1 \in 0..L
      BY <1>1, <2>1
    <3> QED
      BY <1>4, <1>6, <3>1
  <2>2. g = [n \in 0..L |-> IF n = 0 THEN x ELSE G[<<n, g[n - 1]>>]]
    BY <1>5 DEF Recursive
  <2> QED
    BY <2>1, <2>2
<1>8. after = [n \in 0..L |-> IF n = 0 THEN x
                              ELSE GM!Publish(after[n - 1], n, now, up, cut, ok)]
  BY <1>7
<1> HIDE DEF after
<1> DEFINE S == {n \in 0..L : after[n] \in U[n]}
<1>9. 0 \in S
  BY <1>1, <1>3, <1>8
<1>10. ASSUME NEW n \in 1..L, n - 1 \in S PROVE n \in S
  <2>1. n \in 0..L /\ n # 0
    BY <1>1
  <2>2. after[n] = GM!Publish(after[n - 1], n, now, up, cut, ok)
    BY <1>8, <2>1
  <2>3. after[n - 1] \in U[n - 1]
    BY <1>10
  <2>4. GM!Publish(after[n - 1], n, now, up, cut, ok) \in U[n]
    BY <1>4, <2>3
  <2> QED
    BY <2>1, <2>2, <2>4
<1> HIDE DEF S
<1>11. 0..L \subseteq S
  BY <1>1, <1>9, <1>10, UpTo
<1>12. after[L] \in U[L]
  BY <1>1, <1>11 DEF S
<1> QED
  BY <1>1, <1>2, <1>12 DEF U, L

\* The link is as set and fresh; the broker knows the levels unless it missed
\* a message.
GpioInv ==
    /\ levels \in PinLevels /\ told \in PinLevels
    /\ opened \in BOOLEAN /\ missed \in BOOLEAN /\ storeFault \in BOOLEAN
    /\ broker \in Urls /\ wanted \in Pass
    /\ Fits(GM!Link, broker, wanted, storeFault) /\ Fresh(GM!Link)
    /\ GM!BrokerInStep

\* Fits and Fresh, of the parts of a link.
AsSet(c, age, i, old, new, b, w, f) ==
    /\ c \in {GM!NoConn} \cup (Urls \X Pass)
    /\ age \in Nat /\ i \in Nat /\ old \in Pass /\ new \in Pass
    /\ new = GM!None \/ old = GM!None
    /\ c # GM!NoConn => /\ i < PingAfter /\ c[1] = b
                        /\ ~f => c[2] = w
    /\ ~f => (IF new # GM!None THEN new ELSE old) = w

LinkAsSet ==
    \A b, w, f : Fits(GM!Link, b, w, f) /\ Fresh(GM!Link)
                 <=> AsSet(session, retryAge, idle, nvsPass, rmemPass, b, w, f)

\* A link is made of the variables.
LEMMA LinkFields == LinkAsSet
<1>1. /\ GM!Link.conn = session /\ GM!Link.age = retryAge /\ GM!Link.idle = idle
      /\ GM!Link.nvs = nvsPass /\ GM!Link.rmem = rmemPass
  BY DEF GM!Link
<1>2. GM!Link \in Links <=> /\ session \in {GM!NoConn} \cup (Urls \X Pass)
                            /\ retryAge \in Nat /\ idle \in Nat
                            /\ nvsPass \in Pass /\ rmemPass \in Pass
  BY Zenon DEF GM!Link, Links
<1>3. GM!ConfigPass(GM!Link) = IF rmemPass # GM!None THEN rmemPass ELSE nvsPass
  BY <1>1 DEF GM!ConfigPass
<1> QED
  BY <1>1, <1>2, <1>3, Zenon DEF Fits, Fresh, AsSet, LinkAsSet

\* The same in the next state.
LEMMA LinkFieldsNext == LinkAsSet'
BY LinkFields, PTL

\* The variables take a link over.
LEMMA TookFields ==
    \A s, b, w, f : Fits(s, b, w, f) /\ Fresh(s) =>
                    AsSet(s.conn, s.age, s.idle, s.nvs, s.rmem, b, w, f)
BY DEF Fits, Fresh, AsSet, Links, GM!ConfigPass

\* Nothing is open at the start.
LEMMA GpioInit == GM!Init => GpioInv
<1> SUFFICES ASSUME GM!Init PROVE GpioInv
  OBVIOUS
<1>1. /\ opened = FALSE /\ missed = TRUE /\ storeFault = FALSE
      /\ levels = [p \in GM!Pins |-> FALSE] /\ told = levels
      /\ session = GM!NoConn /\ retryAge = RetryAfter /\ idle = 0
      /\ broker = GM!None /\ rmemPass = GM!None
      /\ nvsPass \in Pass /\ wanted = nvsPass
  BY DEF GM!Init, Pass
<1>2. levels \in PinLevels
  BY <1>1 DEF PinLevels
<1>3. AsSet(session, retryAge, idle, nvsPass, rmemPass, broker, wanted, storeFault)
  BY <1>1, GpioAssumption DEF AsSet, Pass
<1>4. Fits(GM!Link, broker, wanted, storeFault) /\ Fresh(GM!Link)
  BY <1>3, LinkFields DEF LinkAsSet
<1> QED
  BY <1>1, <1>2, <1>4 DEF GpioInv, GM!BrokerInStep, Urls

\* Each action of the bridge keeps the invariant.
LEMMA GpioStep ==
    ASSUME GpioInv, GM!Next
    PROVE  GpioInv'
<1>1. /\ levels \in PinLevels /\ told \in PinLevels
      /\ opened \in BOOLEAN /\ missed \in BOOLEAN /\ storeFault \in BOOLEAN
      /\ broker \in Urls /\ wanted \in Pass
      /\ Fits(GM!Link, broker, wanted, storeFault) /\ Fresh(GM!Link)
  BY DEF GpioInv
<1>2. AsSet(session, retryAge, idle, nvsPass, rmemPass, broker, wanted, storeFault)
  BY <1>1, LinkFields DEF LinkAsSet
<1>3. AsSet(session', retryAge', idle', nvsPass', rmemPass', broker', wanted', storeFault') =>
        Fits(GM!Link, broker, wanted, storeFault)' /\ Fresh(GM!Link)'
  BY LinkFieldsNext DEF LinkAsSet
<1>4. \A s, f : Fits(s, broker, wanted, storeFault) /\ (~f => ~storeFault) =>
                Fits(s, broker, wanted, f)
  BY DEF Fits
<1>5. ASSUME NEW now \in [GM!Pins -> BOOLEAN], NEW up \in BOOLEAN, NEW through \in BOOLEAN,
             NEW ok \in BOOLEAN, GM!Enter(now, up, through, ok)
      PROVE  GpioInv'
  <2> DEFINE s == GM!Send(GM!Link, up, through, ok)
  <2>1. /\ opened' = TRUE /\ levels' = now /\ GM!Took(s) /\ missed' = ~s.sent
        /\ told' = (IF s.sent THEN now ELSE told)
        /\ storeFault' = (storeFault \/ ~ok)
    BY <1>5 DEF GM!Enter
  <2>2. storeFault' \in BOOLEAN /\ (~storeFault' => ~storeFault)
    BY <1>1, <2>1
  <2>3. Fits(GM!Link, broker, wanted, storeFault')
    BY <1>1, <1>4, <2>2
  <2>4. Fits(s, broker, wanted, storeFault') /\ Fresh(s)
    BY <1>1, <2>3, SendFits
  <2> HIDE DEF s
  <2>5. s.sent \in BOOLEAN
    BY <2>4 DEF Fits, Links
  <2>6. AsSet(s.conn, s.age, s.idle, s.nvs, s.rmem, broker, wanted, storeFault')
    BY <2>4, TookFields
  <2>7. /\ session' = s.conn /\ retryAge' = s.age /\ idle' = s.idle
        /\ nvsPass' = s.nvs /\ rmemPass' = s.rmem /\ broker' = broker /\ wanted' = wanted
    BY <2>1 DEF GM!Took
  <2>8. Fits(GM!Link, broker, wanted, storeFault)' /\ Fresh(GM!Link)'
    BY <1>3, <2>6, <2>7
  <2>9. told' \in PinLevels /\ levels' \in PinLevels /\ missed' \in BOOLEAN
    BY <1>1, <2>1, <2>5 DEF PinLevels
  <2>10. GM!BrokerInStep'
    BY <2>1 DEF GM!BrokerInStep
  <2> QED
    BY <1>1, <2>1, <2>2, <2>7, <2>8, <2>9, <2>10 DEF GpioInv
<1>6. ASSUME NEW now \in [GM!Pins -> BOOLEAN], NEW up \in BOOLEAN, NEW cut,
             NEW ok \in BOOLEAN, GM!Poll(now, up, cut, ok)
      PROVE  GpioInv'
  <2> DEFINE old   == [GM!Link EXCEPT !.age = GM!Older(GM!Link.age, RetryAfter),
                                      !.idle = GM!Older(GM!Link.idle, PingAfter)]
             alive == GM!KeepAlive(old, up, 0 \notin cut, ok)
             c     == GM!Published(alive, now, up, cut, ok)
  <2>1. /\ opened /\ levels' = now /\ GM!Took(c.s) /\ told' = c.told
        /\ missed' = (missed \/ c.lost)
        /\ storeFault' = (storeFault \/ ~ok) /\ opened' = opened
    BY <1>6 DEF GM!Poll
  <2>2. storeFault' \in BOOLEAN /\ (~storeFault' => ~storeFault)
    BY <1>1, <2>1
  <2>3. Fits(GM!Link, broker, wanted, storeFault')
    BY <1>1, <1>4, <2>2
  <2>4. Fits(old, broker, wanted, storeFault')
    <3>1. GM!Link \in Links /\ GM!Link.age \in Nat /\ GM!Link.idle \in Nat
      BY <2>3 DEF Fits, Links
    <3>2. GM!Older(GM!Link.age, RetryAfter) \in Nat /\ GM!Older(GM!Link.idle, PingAfter) \in Nat
      BY <3>1 DEF GM!Older
    <3>3. /\ old \in Links /\ old.conn = GM!Link.conn
          /\ old.nvs = GM!Link.nvs /\ old.rmem = GM!Link.rmem
      BY <3>1, <3>2 DEF Links
    <3>4. GM!ConfigPass(old) = GM!ConfigPass(GM!Link)
      BY <3>3 DEF GM!ConfigPass
    <3> HIDE DEF old
    <3> QED
      BY <2>3, <3>3, <3>4 DEF Fits
  <2> HIDE DEF old
  <2>5. Fits(alive, broker, wanted, storeFault') /\ Fresh(alive)
    <3>1. CASE old.conn # GM!NoConn /\ old.idle >= PingAfter
      <4> DEFINE through == 0 \notin cut
      <4>1. through \in BOOLEAN
        OBVIOUS
      <4>2. alive = GM!Send(old, up, through, ok)
        BY <3>1 DEF GM!KeepAlive, alive
      <4> HIDE DEF through
      <4> QED
        BY <1>1, <2>4, <4>1, <4>2, SendFits
    <3>2. CASE ~(old.conn # GM!NoConn /\ old.idle >= PingAfter)
      <4>1. alive = old
        BY <3>2 DEF GM!KeepAlive
      <4>2. old.idle \in Nat
        BY <2>4 DEF Fits, Links
      <4>3. Fresh(old)
        BY <3>2, <4>2, GpioAssumption DEF Fresh
      <4> QED
        BY <2>4, <4>1, <4>3
    <3> QED
      BY <3>1, <3>2
  <2> HIDE DEF alive
  <2>6. Told(c, PinCount, now, told, broker, wanted, storeFault')
    <3>1. now \in PinLevels
      BY DEF PinLevels
    <3> QED
      BY <1>1, <2>5, <3>1, PublishedTold
  <2> HIDE DEF c
  <2>7. /\ c.lost \in BOOLEAN /\ c.told \in PinLevels
        /\ Fits(c.s, broker, wanted, storeFault') /\ Fresh(c.s)
        /\ ~c.lost /\ told = levels =>
             \A p \in GM!Pins : c.told[p] = IF p <= PinCount THEN now[p] ELSE levels[p]
    BY <2>6 DEF Told
  <2>8. AsSet(c.s.conn, c.s.age, c.s.idle, c.s.nvs, c.s.rmem, broker, wanted, storeFault')
    BY <2>7, TookFields
  <2>9. /\ session' = c.s.conn /\ retryAge' = c.s.age /\ idle' = c.s.idle
        /\ nvsPass' = c.s.nvs /\ rmemPass' = c.s.rmem /\ broker' = broker /\ wanted' = wanted
    BY <2>1 DEF GM!Took
  <2>10. Fits(GM!Link, broker, wanted, storeFault)' /\ Fresh(GM!Link)'
    BY <1>3, <2>8, <2>9
  <2>11. told' \in PinLevels /\ levels' \in PinLevels /\ missed' \in BOOLEAN
    BY <1>1, <2>1, <2>7 DEF PinLevels
  <2>12. ASSUME ~missed' PROVE told' = levels'
    <3>1. ~c.lost /\ told = levels
      BY <2>1, <2>12 DEF GpioInv, GM!BrokerInStep
    <3>2. \A p \in GM!Pins : c.told[p] = now[p]
      BY <2>7, <3>1, GpioAssumption DEF GM!Pins
    <3> QED
      BY <2>1, <2>7, <3>2 DEF PinLevels
  <2>13. GM!BrokerInStep'
    BY <2>12 DEF GM!BrokerInStep
  <2> QED
    BY <1>1, <2>1, <2>2, <2>9, <2>10, <2>11, <2>13 DEF GpioInv
<1>7. CASE GM!Exit
  <2>1. /\ session' = GM!NoConn /\ opened' = FALSE
        /\ UNCHANGED <<levels, retryAge, idle, broker, nvsPass, rmemPass, wanted, storeFault,
                       told, missed>>
    BY <1>7 DEF GM!Exit, GM!settings
  <2>2. AsSet(session', retryAge', idle', nvsPass', rmemPass', broker', wanted', storeFault')
    BY <1>2, <2>1 DEF AsSet
  <2> QED
    BY <1>1, <1>3, <2>1, <2>2 DEF GpioInv, GM!BrokerInStep
<1>8. CASE GM!SetTopic
  <2>1. /\ missed' = TRUE
        /\ UNCHANGED <<opened, levels, session, retryAge, idle, broker, nvsPass, rmemPass,
                       wanted, storeFault, told>>
    BY <1>8 DEF GM!SetTopic, GM!settings
  <2> QED
    BY <1>1, <1>2, <1>3, <2>1 DEF GpioInv, GM!BrokerInStep
<1>9. ASSUME NEW b \in Urls, GM!SetUrl(b) PROVE GpioInv'
  <2>1. /\ session' = GM!NoConn /\ broker' = b /\ missed' = TRUE
        /\ UNCHANGED <<opened, levels, retryAge, idle, nvsPass, rmemPass, wanted, storeFault,
                       told>>
    BY <1>9 DEF GM!SetUrl
  <2>2. AsSet(session', retryAge', idle', nvsPass', rmemPass', broker', wanted', storeFault')
    BY <1>2, <2>1 DEF AsSet
  <2> QED
    BY <1>1, <1>3, <1>9, <2>1, <2>2 DEF GpioInv, GM!BrokerInStep
<1>10. ASSUME NEW new \in Pass, NEW ok \in BOOLEAN, GM!SetPass(new, ok) PROVE GpioInv'
  <2> DEFINE s == GM!Migrated(GM!Link, ok)
  <2>1. /\ session' = GM!NoConn /\ wanted' = new /\ missed' = TRUE
        /\ nvsPass' = s.nvs /\ rmemPass' = (IF ok THEN new ELSE s.rmem)
        /\ storeFault' = (storeFault \/ ~ok)
        /\ UNCHANGED <<opened, levels, retryAge, idle, broker, told>>
    BY <1>10 DEF GM!SetPass
  <2>2. Fits(s, broker, wanted, storeFault)
    BY <1>1, MigratedFits
  <2>3. ok => s.nvs = GM!None
    BY <1>1 DEF GM!Migrated, Fits, Links
  <2> HIDE DEF s
  <2>4. /\ s.nvs \in Pass /\ s.rmem \in Pass
        /\ s.rmem = GM!None \/ s.nvs = GM!None
    BY <2>2 DEF Fits, Links
  <2>5. storeFault' \in BOOLEAN /\ (~storeFault' => ok)
    BY <1>1, <2>1
  <2>6. AsSet(session', retryAge', idle', nvsPass', rmemPass', broker', wanted', storeFault')
    BY <1>2, <2>1, <2>3, <2>4, <2>5 DEF AsSet
  <2> QED
    BY <1>1, <1>3, <1>10, <2>1, <2>5, <2>6 DEF GpioInv, GM!BrokerInStep
<1> QED
  BY <1>5, <1>6, <1>7, <1>8, <1>9, <1>10 DEF GM!Next, Urls, Pass

\* The broker's picture is the badge's unless a message was lost, the session
\* in use is pinged in time and was opened with the settings the user last
\* made, for any number of pins, brokers and passwords (poll_gpio, mqtt_send,
\* config_pass).
THEOREM BrokerSeesPins == Spec => []BrokerAsSet
<1>1. Init => GpioInv
  BY GpioInit DEF Init
<1>2. GpioInv /\ [Next]_vars => GpioInv'
  <2> SUFFICES ASSUME GpioInv, [Next]_vars PROVE GpioInv'
    OBVIOUS
  <2>1. CASE GM!Next
    BY <2>1, GpioStep
  <2>2. CASE UNCHANGED gm
    BY <2>2 DEF gm, GpioInv, GM!BrokerInStep, GM!Link
  <2> QED
    BY <2>1, <2>2, StepOfEach
<1>3. GpioInv => BrokerAsSet
  <2> SUFFICES ASSUME GpioInv PROVE BrokerAsSet
    OBVIOUS
  <2>1. AsSet(session, retryAge, idle, nvsPass, rmemPass, broker, wanted, storeFault)
    BY LinkFields DEF LinkAsSet, GpioInv
  <2>2. ~storeFault => GM!ConfigPass(GM!Link) = wanted
    BY DEF GpioInv, Fits
  <2> QED
    BY <2>1, <2>2 DEF AsSet, GpioInv, BrokerAsSet, GM!BrokerAsSet, GM!KeptAlive, GM!SessionAsSet,
                      GM!PassAsSet
<1> QED
  BY <1>1, <1>2, <1>3, PTL DEF Spec

-----------------------------------------------------------------------------
(* sci_calc.                                                               *)

\* An operand is typed exactly while the entry is not new: the operator that
\* apply_op takes by new_entry is the one the expression calls for.
CalcInv ==
    /\ operand \in {"none", "typed", "computed"} /\ new_entry \in BOOLEAN
    /\ excused \in BOOLEAN
    /\ operand = "typed" <=> ~new_entry
    /\ SC!LeftToRight

\* Nothing is entered at the start.
LEMMA CalcInit == SC!Init => CalcInv
BY DEF SC!Init, CalcInv, SC!LeftToRight

\* An operator keeps the invariant.
LEMMA OperatorStep ==
    ASSUME CalcInv, NEW op, SC!ApplyOp(op)
    PROVE  CalcInv'
<1> DEFINE r == IF SC!TakesPending THEN SC!Apply(calcPending, acc, SC!Value(entry))
                ELSE SC!Ok(SC!Value(entry))
<1>1. /\ operand \in {"none", "typed", "computed"} /\ new_entry \in BOOLEAN
      /\ excused \in BOOLEAN /\ (operand = "typed" <=> ~new_entry)
  BY DEF CalcInv
<1>2. CASE SC!Fails(r.err) /\ UNCHANGED SC!ghosts
  BY <1>2 DEF SC!Fails, SC!ghosts, CalcInv, SC!LeftToRight
<1>3. CASE /\ acc' = r.v /\ new_entry' = TRUE /\ total' = SC!Expected.v
           /\ operand' = "none" /\ excused' = (excused \/ operand = "computed")
  <2>1. ASSUME ~excused' PROVE acc' = total'
    <3>1. ~excused /\ operand # "computed"
      BY <1>3, <2>1
    <3>2. SC!TakesPending <=> calcPending # SC!NoOp /\ operand # "none"
      BY <1>1, <3>1 DEF SC!TakesPending
    <3>3. calcPending # SC!NoOp => acc = total
      BY <3>1 DEF CalcInv, SC!LeftToRight
    <3>4. r = SC!Expected
      BY <3>2, <3>3 DEF SC!Expected
    <3> QED
      BY <1>3, <3>4
  <2>2. excused' \in BOOLEAN
    BY <1>1, <1>3
  <2> HIDE DEF r
  <2> QED
    BY <1>3, <2>1, <2>2 DEF CalcInv, SC!LeftToRight
<1> QED
  BY <1>2, <1>3 DEF SC!ApplyOp

\* Each action of the calculator keeps the invariant.
LEMMA CalcStep ==
    ASSUME CalcInv, SC!Next
    PROVE  CalcInv'
<1>1. /\ operand \in {"none", "typed", "computed"} /\ new_entry \in BOOLEAN
      /\ excused \in BOOLEAN /\ (operand = "typed" <=> ~new_entry)
      /\ (calcPending # SC!NoOp /\ ~excused => acc = total)
  BY DEF CalcInv, SC!LeftToRight
<1> USE DEF CalcInv, SC!LeftToRight, SC!Operand, SC!ghosts, SC!calc
<1>2. CASE SC!ClearAll
  BY <1>2 DEF SC!ClearAll
<1>3. ASSUME NEW d, SC!InputDigit(d) PROVE CalcInv'
  BY <1>1, <1>3 DEF SC!InputDigit
<1>4. CASE SC!InputDot
  BY <1>1, <1>4 DEF SC!InputDot
<1>5. CASE SC!Backspace
  BY <1>1, <1>2, <1>5 DEF SC!Backspace
<1>6. CASE SC!Negate
  <2>1. /\ UNCHANGED <<acc, calcPending, new_entry, total, excused>>
        /\ \/ new_entry /\ operand' = "computed"
           \/ operand' = operand
    BY <1>6 DEF SC!Negate
  <2> QED
    BY <1>1, <2>1
<1>7. CASE SC!ClearEntry
  BY <1>1, <1>7 DEF SC!ClearEntry
<1>8. CASE SC!Equals
  <2>1. \/ UNCHANGED <<new_entry, acc, calcPending, operand, total, excused>>
        \/ new_entry' = TRUE /\ calcPending' = SC!NoOp /\ operand' = "none" /\ excused' = FALSE
    BY <1>8 DEF SC!Equals, SC!Fails
  <2>2. CASE UNCHANGED <<new_entry, acc, calcPending, operand, total, excused>>
    BY <1>1, <2>2
  <2>3. CASE new_entry' = TRUE /\ calcPending' = SC!NoOp /\ operand' = "none" /\ excused' = FALSE
    BY <2>3
  <2> QED
    BY <2>1, <2>2, <2>3
<1>9. CASE SC!ApplyUnary
  <2>1. \/ UNCHANGED <<new_entry, acc, calcPending, operand, total, excused>>
        \/ /\ new_entry' = TRUE /\ operand' = "computed"
           /\ UNCHANGED <<acc, calcPending, total, excused>>
    BY <1>9 DEF SC!ApplyUnary, SC!Fails
  <2>2. CASE UNCHANGED <<new_entry, acc, calcPending, operand, total, excused>>
    BY <1>1, <2>2
  <2>3. CASE /\ new_entry' = TRUE /\ operand' = "computed"
             /\ UNCHANGED <<acc, calcPending, total, excused>>
    BY <1>1, <2>3
  <2> QED
    BY <2>1, <2>2, <2>3
<1>10. CASE SC!Recall
  BY <1>1, <1>10 DEF SC!Recall
<1>11. ASSUME NEW v, SC!MemStore(v) PROVE CalcInv'
  BY <1>1, <1>11 DEF SC!MemStore
<1>12. CASE SC!Menu
  BY <1>1, <1>12 DEF SC!Menu
<1>13. CASE SC!Quit
  BY <1>13 DEF SC!Quit
<1>14. CASE UNCHANGED <<new_entry, acc, calcPending, operand, total, excused>>
  BY <1>1, <1>14
<1>15. CASE SC!Keys
  <2>1. SC!ApplyOp("add") => CalcInv'
    BY OperatorStep
  <2>2. \/ \E d \in Digits : SC!InputDigit(d)
        \/ SC!Equals \/ SC!Backspace \/ SC!ClearAll
        \/ SC!ApplyOp("add")
    BY <1>15 DEF SC!Keys
  <2> HIDE DEF CalcInv
  <2> QED
    BY <1>2, <1>3, <1>5, <1>8, <2>1, <2>2
<1>16. CASE SC!Leaf
  <2>1. (\E v : SC!MemStore(v)) =>
            UNCHANGED <<new_entry, acc, calcPending, operand, total, excused>>
    BY DEF SC!MemStore
  <2>2. \A v : SC!MemAdd(v) => SC!MemStore(memory + v)
    BY DEF SC!MemAdd
  <2>3. \A op : SC!ApplyOp(op) => CalcInv'
    BY OperatorStep
  <2>4. \/ \E op \in SC!Ops : SC!ApplyOp(op)
        \/ SC!InputDot \/ SC!Negate \/ SC!ClearEntry \/ SC!ApplyUnary \/ SC!Recall
        \/ \E v : SC!MemStore(v) \/ SC!MemAdd(v)
    BY <1>16 DEF SC!Leaf
  <2> HIDE DEF CalcInv
  <2> QED
    BY <1>4, <1>6, <1>7, <1>9, <1>10, <1>14, <2>1, <2>2, <2>3, <2>4
<1> QED
  BY <1>12, <1>13, <1>15, <1>16 DEF SC!Next

\* The accumulator a pending operator works on is the value of what was
\* entered before it, for any digits, entry length and range (apply_op,
\* equals), unless a function computed an operand.
THEOREM ExecutesLeftToRight == Spec => []LeftToRight
<1>1. Init => CalcInv
  BY CalcInit DEF Init
<1>2. CalcInv /\ [Next]_vars => CalcInv'
  <2> SUFFICES ASSUME CalcInv, [Next]_vars PROVE CalcInv'
    OBVIOUS
  <2>1. CASE SC!Next
    BY <2>1, CalcStep
  <2>2. CASE UNCHANGED sc
    BY <2>2 DEF sc, CalcInv, SC!LeftToRight
  <2> QED
    BY <2>1, <2>2, StepOfEach
<1>3. CalcInv => LeftToRight
  BY DEF CalcInv, LeftToRight
<1> QED
  BY <1>1, <1>2, <1>3, PTL DEF Spec

-----------------------------------------------------------------------------
(* home_assistant: the climate editor.                                     *)

\* What is formatted for the request is read as the tenths it was made from,
\* but for a lost sign; what is drawn always is.
LEMMA TenthsFormatted ==
    \A t \in Int : /\ CL!FormatTemp(t) = t
                   /\ CL!SignLost(t) \/ CL!Formatted(t) = t
BY DEF CL!FormatTemp, CL!Formatted, CL!SignLost, CL!Quot, CL!AbsVal

Numbers == {"target", "low", "high", "min", "max", "step"}

\* The numbers are numbers; an open editor started at the clamped setpoint.
ClimateInv ==
    /\ {"range", "mode", "fan"} \cup Numbers \subseteq DOMAIN dev
    /\ \A n \in Numbers : dev[n] \in Int
    /\ slider \in Int
    /\ st.open => /\ {"open", "start", "spread", "range", "mode", "fan"} \subseteq DOMAIN st
                  /\ st.start = CL!Clamp(CL!Target(dev), CL!LowEnd(dev), CL!HighEnd(dev))
                  /\ st.spread \in Int

\* The arithmetic of the editor stays in the integers.
LEMMA ClimateInts ==
    /\ \A a \in Int : CL!Quot(a, 2) \in Int
    /\ \A v, a, b \in Int : CL!Clamp(v, a, b) \in Int
    /\ \A t \in Int : CL!Formatted(t) \in Int
    /\ \A d : (\A n \in Numbers : d[n] \in Int) =>
              CL!Target(d) \in Int /\ CL!Spread(d) \in Int
              /\ CL!LowEnd(d) \in Int /\ CL!HighEnd(d) \in Int
<1>1. \A a \in Int : CL!Quot(a, 2) \in Int
  BY DEF CL!Quot
<1>2. \A v, a, b \in Int : CL!Clamp(v, a, b) \in Int
  BY DEF CL!Clamp
<1>3. \A t \in Int : CL!Formatted(t) \in Int
  BY DEF CL!Formatted, CL!Quot, CL!AbsVal
<1>4. ASSUME NEW d, \A n \in Numbers : d[n] \in Int
      PROVE  /\ CL!Target(d) \in Int /\ CL!Spread(d) \in Int
             /\ CL!LowEnd(d) \in Int /\ CL!HighEnd(d) \in Int
  <2>1. /\ d.target \in Int /\ d.low \in Int /\ d.high \in Int
        /\ d.min \in Int /\ d.max \in Int
    BY <1>4 DEF Numbers
  <2>2. d.low + d.high \in Int /\ d.high - d.low \in Int
    BY <2>1
  <2>3. CL!Target(d) \in Int /\ CL!Spread(d) \in Int
    BY <1>1, <2>1, <2>2 DEF CL!Target, CL!Spread
  <2>4. CL!Quot(CL!Spread(d), 2) \in Int
    BY <1>1, <2>3
  <2> QED
    BY <2>1, <2>3, <2>4 DEF CL!LowEnd, CL!HighEnd
<1> QED
  BY <1>1, <1>2, <1>3, <1>4

\* What a commit does to the device's numbers: it sets those it shows.
LEMMA CommitNumbers ==
    ASSUME ClimateInv, NEW lost, CL!Commit(lost)
    PROVE  /\ {"range", "mode", "fan"} \cup Numbers \subseteq DOMAIN dev'
           /\ \A n \in Numbers : dev'[n] \in Int
           /\ CL!AsShown
           /\ slider = st.start =>
                <<dev'.target, dev'.low, dev'.high>> = <<dev.target, dev.low, dev.high>>
<1> DEFINE D == {"range", "mode", "fan"} \cup Numbers
           m == CL!SetMode(dev, lost)
           t == CL!SetTemperature(m, lost)
           f == CL!SetFan(t, lost)
           h == CL!Quot(st.spread, 2)
<1>1. st.open /\ dev' = f
  BY DEF CL!Commit
<1>2. /\ D \subseteq DOMAIN dev /\ (\A n \in Numbers : dev[n] \in Int)
      /\ slider \in Int /\ h \in Int
  BY <1>1, ClimateInts DEF ClimateInv
<1>3. D \subseteq DOMAIN m /\ \A n \in Numbers : m[n] = dev[n]
  BY <1>2 DEF CL!SetMode, Numbers
<1> HIDE DEF m
<1>4. ASSUME t = m PROVE D \subseteq DOMAIN t /\ \A n \in Numbers : t[n] = dev[n]
  BY <1>3, <1>4
<1>5. D \subseteq DOMAIN t /\ (\A n \in Numbers \ {"target", "low", "high"} : t[n] = dev[n])
  BY <1>3 DEF CL!SetTemperature, Numbers
<1>6. \/ t = m
      \/ /\ slider # st.start
         /\ \/ /\ t.low = CL!Formatted(slider - h) /\ t.high = CL!Formatted(slider + h)
               /\ t.target = dev.target
            \/ /\ t.target = CL!Formatted(slider)
               /\ t.low = dev.low /\ t.high = dev.high
  BY <1>3 DEF CL!SetTemperature, Numbers
<1> HIDE DEF t, h
<1>7. D \subseteq DOMAIN f /\ \A n \in Numbers : f[n] = t[n]
  BY <1>5 DEF CL!SetFan, Numbers
<1> HIDE DEF f
<1>8. /\ CL!Formatted(slider) \in Int /\ CL!Formatted(slider - h) \in Int
      /\ CL!Formatted(slider + h) \in Int
  <2>1. slider - h \in Int /\ slider + h \in Int
    BY <1>2
  <2> QED
    BY <1>2, <2>1, ClimateInts
<1>9. \A n \in Numbers : f[n] \in Int
  <2>1. f.target \in Int /\ f.low \in Int /\ f.high \in Int
    BY <1>2, <1>4, <1>6, <1>7, <1>8 DEF Numbers
  <2> QED
    BY <1>2, <1>5, <1>7, <2>1 DEF Numbers
<1>10. CL!AsShown
  <2>1. CL!Shown = slider /\ (CL!SignLost(slider) \/ CL!Formatted(slider) = slider)
    BY <1>2, TenthsFormatted DEF CL!Shown
  <2>2. slider - h \in Int /\ slider + h \in Int
    BY <1>2
  <2>3. /\ CL!SignLost(slider - h) \/ CL!Formatted(slider - h) = slider - h
        /\ CL!SignLost(slider + h) \/ CL!Formatted(slider + h) = slider + h
    BY <2>2, TenthsFormatted
  <2>4. /\ f.target = t.target /\ f.low = t.low /\ f.high = t.high
        /\ t = m => t.target = dev.target /\ t.low = dev.low /\ t.high = dev.high
    BY <1>4, <1>7 DEF Numbers
  <2>5. CL!HalfWidth = h
    BY DEF CL!HalfWidth, h
  <2> QED
    BY <1>1, <1>6, <2>1, <2>3, <2>4, <2>5 DEF CL!AsShown
<1>11. slider = st.start =>
          <<dev'.target, dev'.low, dev'.high>> = <<dev.target, dev.low, dev.high>>
  BY <1>1, <1>4, <1>6, <1>7 DEF Numbers
<1> QED
  BY <1>1, <1>7, <1>9, <1>10, <1>11

\* The editor is closed at the start.
LEMMA ClimateInit == CL!Init => ClimateInv
<1> SUFFICES ASSUME CL!Init PROVE ClimateInv
  OBVIOUS
<1>1. /\ {"range", "mode", "fan"} \cup Numbers \subseteq DOMAIN dev
      /\ \A n \in Numbers : dev[n] \in Int
  BY DevicesAssumption DEF CL!Init, Numbers
<1> QED
  BY <1>1 DEF CL!Init, CL!NoClimate, ClimateInv

\* Each action of the editor keeps the invariant and applies what it showed.
LEMMA ClimateStep ==
    ASSUME ClimateInv, CL!Next
    PROVE  /\ ClimateInv'
           /\ st.open => /\ CL!AsShown
                         /\ CL!Unmoved => <<dev'.target, dev'.low, dev'.high>>
                                            = <<dev.target, dev.low, dev.high>>
<1>1. CASE CL!Open
  <2>1. /\ st = CL!NoClimate /\ dev' = dev
        /\ slider' = CL!Clamp(CL!Target(dev), CL!LowEnd(dev), CL!HighEnd(dev))
        /\ st' = CL!Opened(dev, slider')
    BY <1>1 DEF CL!Open
  <2>2. slider' \in Int /\ CL!Spread(dev) \in Int
    BY <2>1, ClimateInts DEF ClimateInv
  <2>3. /\ {"open", "start", "spread", "range", "mode", "fan"} \subseteq DOMAIN st'
        /\ st'.start = slider' /\ st'.spread = CL!Spread(dev)
    BY <2>1 DEF CL!Opened
  <2>4. ~st.open
    BY <2>1 DEF CL!NoClimate
  <2> QED
    BY <2>1, <2>2, <2>3, <2>4 DEF ClimateInv
<1>2. CASE dev' = dev /\ st.open
  <2>1. CL!AsShown /\ <<dev'.target, dev'.low, dev'.high>> = <<dev.target, dev.low, dev.high>>
    BY <1>2 DEF CL!AsShown
  <2>2. CASE st' = CL!NoClimate /\ slider' = 0
    BY <1>2, <2>1, <2>2 DEF ClimateInv, CL!NoClimate
  <2>3. ASSUME NEW by \in {-1, 1}, CL!Slide(by) PROVE ClimateInv'
    <3>1. slider + by * dev.step \in Int /\ dev.min \in Int /\ dev.max \in Int
      BY DEF ClimateInv, Numbers
    <3>2. slider' \in Int
      BY <2>3, <3>1, ClimateInts DEF CL!Slide
    <3> QED
      BY <2>3, <3>2 DEF CL!Slide, ClimateInv
  <2>4. ASSUME NEW x, st' = [st EXCEPT !.mode = x] \/ st' = [st EXCEPT !.fan = x],
               slider' = slider
        PROVE  ClimateInv'
    <3>1. /\ DOMAIN st' = DOMAIN st /\ st'.start = st.start /\ st'.spread = st.spread
      BY <1>2, <2>4 DEF ClimateInv
    <3> QED
      BY <1>2, <2>4, <3>1 DEF ClimateInv
  <2>5. \/ st' = CL!NoClimate /\ slider' = 0
        \/ \E by \in {-1, 1} : CL!Slide(by)
        \/ /\ slider' = slider
           /\ \E x : st' = [st EXCEPT !.mode = x] \/ st' = [st EXCEPT !.fan = x]
        \/ \E lost : CL!Commit(lost)
    BY <1>2 DEF CL!Next, CL!Open, CL!NextFan, CL!Cancel, CL!Close, CL!PickMode, CL!NoClimate
  <2> QED
    BY <2>1, <2>2, <2>3, <2>4, <2>5 DEF CL!Commit, CL!Close
<1>3. ASSUME NEW lost, CL!Commit(lost)
      PROVE  /\ ClimateInv'
             /\ CL!AsShown
             /\ CL!Unmoved => <<dev'.target, dev'.low, dev'.high>>
                                = <<dev.target, dev.low, dev.high>>
  <2>1. CL!Unmoved => slider = st.start
    BY <1>3 DEF CL!Unmoved, CL!Commit, ClimateInv
  <2>2. st' = CL!NoClimate /\ slider' = 0
    BY <1>3 DEF CL!Commit, CL!Close
  <2> QED
    BY <1>3, <2>1, <2>2, CommitNumbers DEF ClimateInv, CL!NoClimate
<1>4. \/ CL!Open \/ (dev' = dev /\ st.open) \/ \E lost : CL!Commit(lost)
  BY DEF CL!Next, CL!NextFan, CL!Cancel, CL!Slide, CL!PickMode
<1> QED
  BY <1>1, <1>2, <1>3, <1>4

\* climate_commit changes a setpoint to the one the editor showed, or to the
\* end of the range around it, and leaves one alone that was not moved, for
\* any device and any limits; a sign lost near 0 is the exception.
THEOREM AppliesWhatIsShown == Spec => AppliedAsShown
<1> DEFINE A == st.open =>
                  /\ CL!AsShown
                  /\ CL!Unmoved => <<dev'.target, dev'.low, dev'.high>>
                                     = <<dev.target, dev.low, dev.high>>
<1>1. Init => ClimateInv
  BY ClimateInit DEF Init
<1>2. ClimateInv /\ [Next]_vars => ClimateInv' /\ [A]_CL!vars
  <2> SUFFICES ASSUME ClimateInv, [Next]_vars PROVE ClimateInv' /\ [A]_CL!vars
    OBVIOUS
  <2>1. CASE CL!Next
    BY <2>1, ClimateStep
  <2>2. CASE UNCHANGED cl
    <3>1. UNCHANGED CL!vars
      BY <2>2 DEF cl, CL!vars
    <3>2. ClimateInv'
      BY <2>2 DEF cl, ClimateInv
    <3> QED
      BY <3>1, <3>2
  <2> QED
    BY <2>1, <2>2, StepOfEach
<1> QED
  BY <1>1, <1>2, PTL DEF Spec, AppliedAsShown, CL!AppliedAsShown

-----------------------------------------------------------------------------
(* home_assistant: the views.                                              *)

\* f lists the n elements of T in order.
Listing(f, T, n) ==
    /\ f \in [1..n -> T]
    /\ \A i, j \in 1..n : i < j => f[i] < f[j]
    /\ \A t \in T : \E i \in 1..n : f[i] = t

\* A set of numbers with a least element can be listed if the rest can.
LEMMA ListingOfMore ==
    \A T, m, n, f :
        /\ T \subseteq Nat /\ n \in Nat /\ m \in T /\ \A t \in T : m <= t
        /\ Listing(f, T \ {m}, n)
        => \E g : Listing(g, T, n + 1)
<1> TAKE T, m, n, f
<1> HAVE /\ T \subseteq Nat /\ n \in Nat /\ m \in T /\ \A t \in T : m <= t
         /\ Listing(f, T \ {m}, n)
<1> DEFINE g == [i \in 1..n + 1 |-> IF i = 1 THEN m ELSE f[i - 1]]
<1>1. \A i \in 2..n + 1 : i - 1 \in 1..n /\ g[i] = f[i - 1] /\ i \in 1..n + 1
  OBVIOUS
<1>2. g[1] = m /\ 1 \in 1..n + 1
  OBVIOUS
<1>3. \A i \in 1..n + 1 : i = 1 \/ i \in 2..n + 1
  OBVIOUS
<1>4. \A i \in 1..n : f[i] \in T /\ f[i] # m
  BY DEF Listing
<1>5. g \in [1..n + 1 -> T]
  <2>1. \A i \in 1..n + 1 : g[i] \in T
    BY <1>1, <1>2, <1>3, <1>4
  <2> QED
    BY <2>1
<1> HIDE DEF g
<1>6. \A i, j \in 1..n + 1 : i < j => g[i] < g[j]
  <2> SUFFICES ASSUME NEW i \in 1..n + 1, NEW j \in 1..n + 1, i < j PROVE g[i] < g[j]
    OBVIOUS
  <2>1. j \in 2..n + 1 /\ j - 1 \in 1..n /\ g[j] = f[j - 1]
    BY <1>1
  <2>2. CASE i = 1
    <3>1. f[j - 1] \in T /\ f[j - 1] # m
      BY <1>4, <2>1
    <3>2. m \in Nat /\ f[j - 1] \in Nat /\ m <= f[j - 1]
      BY <3>1
    <3> QED
      BY <1>2, <2>1, <2>2, <3>1, <3>2
  <2>3. CASE i # 1
    <3>1. i - 1 \in 1..n /\ g[i] = f[i - 1] /\ i - 1 < j - 1
      BY <1>1, <2>3
    <3> QED
      BY <2>1, <3>1 DEF Listing
  <2> QED
    BY <2>2, <2>3
<1>7. ASSUME NEW t \in T PROVE \E i \in 1..n + 1 : g[i] = t
  <2>1. CASE t = m
    BY <1>2, <2>1
  <2>2. CASE t # m
    <3>1. PICK k \in 1..n : f[k] = t
      BY <2>2 DEF Listing
    <3>2. k + 1 \in 2..n + 1 /\ (k + 1) - 1 = k /\ k + 1 \in 1..n + 1
      OBVIOUS
    <3>3. g[k + 1] = f[(k + 1) - 1]
      BY <1>1, <3>2
    <3>4. g[k + 1] = t
      BY <3>1, <3>2, <3>3
    <3> QED
      BY <3>2, <3>4
  <2> QED
    BY <2>1, <2>2
<1> QED
  BY <1>5, <1>6, <1>7 DEF Listing

\* A finite set of numbers can be listed in order.
LEMMA ListingExists ==
    \A T : T \subseteq Nat /\ IsFiniteSet(T) =>
        Cardinality(T) \in Nat /\ \E f : Listing(f, T, Cardinality(T))
<1> DEFINE Good(n) == \A T : T \subseteq Nat /\ IsFiniteSet(T) /\ Cardinality(T) = n
                              => \E f : Listing(f, T, n)
           S == {n \in Nat : Good(n)}
<1>1. 0 \in S
  <2> SUFFICES ASSUME NEW T, T \subseteq Nat, IsFiniteSet(T), Cardinality(T) = 0
               PROVE  \E f : Listing(f, T, 0)
    OBVIOUS
  <2>1. T = {}
    BY FS_EmptySet
  <2>2. Listing([i \in 1..0 |-> 0], T, 0)
    BY <2>1 DEF Listing
  <2> QED
    BY <2>2
<1>2. ASSUME NEW n \in Nat, n \in S PROVE n + 1 \in S
  <2> SUFFICES ASSUME NEW T, T \subseteq Nat, IsFiniteSet(T), Cardinality(T) = n + 1
               PROVE  \E f : Listing(f, T, n + 1)
    OBVIOUS
  <2>1. T # {}
    BY FS_EmptySet
  <2>2. PICK m \in T : \A t \in T : m <= t
    BY <2>1, LeastOf
  <2>3. T \ {m} \subseteq Nat /\ IsFiniteSet(T \ {m}) /\ Cardinality(T \ {m}) = n
    BY <2>2, FS_RemoveElement
  <2>4. PICK f : Listing(f, T \ {m}, n)
    BY <1>2, <2>3
  <2> QED
    BY <2>2, <2>4, ListingOfMore
<1> HIDE DEF S
<1>3. ASSUME NEW L \in Nat PROVE L \in S
  <2>1. \A n \in 1..L : n - 1 \in S => n \in S
    <3> SUFFICES ASSUME NEW n \in 1..L, n - 1 \in S PROVE n \in S
      OBVIOUS
    <3>1. n - 1 \in Nat /\ (n - 1) + 1 = n
      OBVIOUS
    <3> QED
      BY <1>2, <3>1
  <2>2. 0..L \subseteq S
    BY <1>1, <2>1, UpTo
  <2> QED
    BY <2>2
<1> TAKE T
<1> HAVE T \subseteq Nat /\ IsFiniteSet(T)
<1>4. Cardinality(T) \in Nat
  BY FS_CardinalityType
<1>5. Cardinality(T) \in S
  BY <1>3, <1>4
<1> QED
  BY <1>4, <1>5 DEF S

\* The cardinality in the module of the plugin is that of the library's facts.
LEMMA HomeCardinality == \A S : HA!Cardinality(S) = Cardinality(S)
BY DEF HA!Cardinality, Cardinality

\* fetch_template_all: every entity of the server, once, in order.
LEMMA FetchAllFacts ==
    server \subseteq Ids =>
        /\ HA!FetchAll \in Seq(Ids) /\ Len(HA!FetchAll) <= HomeRows
<1> HAVE server \subseteq Ids
<1>1. server \subseteq Nat /\ IsFiniteSet(server) /\ Cardinality(server) <= Cardinality(Ids)
  BY HomeAssumption, FS_Subset
<1>2. Cardinality(server) \in Nat /\ Cardinality(Ids) \in Nat
  BY <1>1, HomeAssumption, FS_CardinalityType
<1> DEFINE n == Cardinality(server)
<1>3. PICK f : Listing(f, server, n)
  BY <1>1, ListingExists
<1>4. /\ f \in [1..n -> server]
      /\ \A i, j \in DOMAIN f : i < j => f[i] < f[j]
  BY <1>3 DEF Listing
<1>5. HA!FetchAll \in [1..n -> server]
  <2>1. HA!Cardinality(server) = n
    BY HomeCardinality
  <2> QED
    BY <1>4, <2>1 DEF HA!FetchAll
<1>6. \A m \in Nat : \A l \in [1..m -> server] : l \in Seq(Ids) /\ Len(l) = m
  OBVIOUS
<1>7. HA!FetchAll \in Seq(Ids) /\ Len(HA!FetchAll) = n
  BY <1>2, <1>5, <1>6
<1>8. Cardinality(Ids) <= HomeRows /\ HomeRows \in Nat
  BY HomeAssumption, HomeBounds
<1>9. n <= Cardinality(Ids) /\ n \in Nat
  BY <1>1, <1>2
<1> HIDE DEF n
<1>10. n <= HomeRows
  BY <1>2, <1>8, <1>9
<1> QED
  BY <1>7, <1>10

\* The lists that other views open over; the rest is only on top.
Under == {"home", "browse"}
AllLists(s) == s \in Seq(HA!View) /\ \A i \in DOMAIN s : s[i].v \in Under
Stacked(s)  == s \in Seq(HA!View) /\ \A i \in 1..Len(s) - 1 : s[i].v \in Under

\* What closes leaves lists.
LEMMA PopFacts ==
    \A s : Stacked(s) /\ s # <<>> =>
        /\ AllLists(HA!Pop(s)) /\ Len(HA!Pop(s)) = Len(s) - 1 /\ Len(s) \in Nat \ {0}
        /\ HA!Last(s) = s[Len(s)] /\ HA!Last(s) \in HA!View
<1> TAKE s
<1> HAVE Stacked(s) /\ s # <<>>
<1> DEFINE V == HA!View
<1>1. s \in Seq(V) /\ \A i \in 1..Len(s) - 1 : s[i].v \in Under
  BY DEF Stacked
<1> HIDE DEF V
<1>2. Len(s) \in Nat \ {0} /\ Len(s) - 1 \in Nat /\ s[Len(s)] \in V
  BY <1>1
<1>3. HA!Pop(s) = SubSeq(s, 1, Len(s) - 1) /\ HA!Last(s) = s[Len(s)]
  BY DEF HA!Pop, HA!Front, HA!Last
<1>4. \A k \in Nat : k <= Len(s) =>
          /\ SubSeq(s, 1, k) \in Seq(V) /\ Len(SubSeq(s, 1, k)) = k
          /\ \A i \in 1..k : SubSeq(s, 1, k)[i] = s[i]
  BY <1>1
<1>5. /\ HA!Pop(s) \in Seq(V) /\ Len(HA!Pop(s)) = Len(s) - 1
      /\ \A i \in 1..Len(s) - 1 : HA!Pop(s)[i] = s[i]
  <2> DEFINE k == Len(s) - 1
  <2>1. k \in Nat /\ k <= Len(s)
    BY <1>2
  <2> HIDE DEF k
  <2>2. /\ SubSeq(s, 1, k) \in Seq(V) /\ Len(SubSeq(s, 1, k)) = k
        /\ \A i \in 1..k : SubSeq(s, 1, k)[i] = s[i]
    BY <1>4, <2>1
  <2> QED
    BY <1>3, <2>2 DEF k
<1>6. DOMAIN HA!Pop(s) = 1..Len(s) - 1
  BY <1>5
<1> QED
  BY <1>1, <1>2, <1>3, <1>5, <1>6 DEF AllLists, V

\* A view is put on top of lists.
LEMMA PushFacts ==
    \A s, w : AllLists(s) /\ w \in HA!View =>
        /\ Stacked(Append(s, w)) /\ Append(s, w) # <<>>
        /\ HA!Last(Append(s, w)) = w /\ Len(Append(s, w)) = Len(s) + 1
<1> TAKE s, w
<1> HAVE AllLists(s) /\ w \in HA!View
<1> DEFINE V == HA!View
           t == Append(s, w)
<1>1. s \in Seq(V) /\ w \in V /\ \A i \in DOMAIN s : s[i].v \in Under
  BY DEF AllLists
<1> HIDE DEF V
<1>2. /\ t \in Seq(V) /\ Len(t) = Len(s) + 1 /\ Len(s) \in Nat /\ t[Len(s) + 1] = w
      /\ \A i \in 1..Len(s) : t[i] = s[i]
  BY <1>1
<1>3. t # <<>> /\ DOMAIN s = 1..Len(s)
  BY <1>1, <1>2
<1> HIDE DEF t
<1>4. HA!Last(t) = w
  BY <1>2 DEF HA!Last
<1>5. \A i \in 1..Len(t) - 1 : t[i].v \in Under
  BY <1>1, <1>2, <1>3
<1> QED
  BY <1>2, <1>3, <1>4, <1>5 DEF Stacked, V, t

\* A list replaces one on top, or is put on top of it.
LEMMA ReplaceFacts ==
    \A s, w : AllLists(s) /\ w \in HA!View =>
        /\ Stacked(HA!Replace(s, w)) /\ HA!Replace(s, w) # <<>>
        /\ HA!Last(HA!Replace(s, w)) = w
        /\ s # <<>> => Len(HA!Replace(s, w)) = Len(s)
<1> TAKE s, w
<1> HAVE AllLists(s) /\ w \in HA!View
<1>1. CASE s = <<>>
  <2>1. HA!Replace(s, w) = Append(s, w)
    BY <1>1 DEF HA!Replace
  <2> QED
    BY <1>1, <2>1, PushFacts
<1>2. CASE s # <<>>
  <2>1. Stacked(s) /\ Len(s) \in Nat /\ Len(s) \in DOMAIN s
    BY <1>2 DEF AllLists, Stacked
  <2>2. AllLists(HA!Pop(s)) /\ Len(HA!Pop(s)) = Len(s) - 1 /\ HA!Last(s) = s[Len(s)]
    BY <1>2, <2>1, PopFacts
  <2>3. HA!Last(s).v \in Under
    BY <2>1, <2>2 DEF AllLists
  <2>4. HA!Replace(s, w) = Append(HA!Pop(s), w)
    BY <1>2, <2>3 DEF HA!Replace, HA!Pop, HA!Lists, Under
  <2>5. /\ Stacked(Append(HA!Pop(s), w)) /\ Append(HA!Pop(s), w) # <<>>
        /\ HA!Last(Append(HA!Pop(s), w)) = w
        /\ Len(Append(HA!Pop(s), w)) = Len(HA!Pop(s)) + 1
    BY <2>2, PushFacts
  <2> QED
    BY <2>1, <2>2, <2>4, <2>5
<1> QED
  BY <1>1, <1>2

\* The views of one or two lists.
LEMMA SmallStacks ==
    /\ \A w : /\ HA!Replace(<<>>, w) = <<w>> /\ HA!Last(<<w>>) = w
              /\ HA!Pop(<<w>>) = <<>> /\ Append(<<>>, w) = <<w>>
    /\ \A h, w : /\ HA!Pop(<<h, w>>) = <<h>> /\ HA!Last(<<h, w>>) = w
                 /\ Append(<<h>>, w) = <<h, w>>
    /\ \A h, b, w : /\ HA!Pop(<<h, b, w>>) = <<h, b>> /\ HA!Last(<<h, b, w>>) = w
                    /\ Append(<<h, b>>, w) = <<h, b, w>>
    /\ \A h, w : h.v = "home" => HA!Replace(<<h>>, w) = <<w>>
<1>1. \A w : /\ HA!Last(<<w>>) = w /\ HA!Pop(<<w>>) = <<>> /\ Append(<<>>, w) = <<w>>
  BY DEF HA!Last, HA!Pop, HA!Front
<1>2. \A w : HA!Replace(<<>>, w) = <<w>>
  BY <1>1 DEF HA!Replace
<1>3. \A h, w : HA!Last(<<h, w>>) = w
  BY DEF HA!Last
<1>4. \A h, w : HA!Pop(<<h, w>>) = <<h>> /\ Append(<<h>>, w) = <<h, w>>
  BY Tuples, Zenon DEF HA!Pop, HA!Front
<1>5. \A h, b, w : HA!Last(<<h, b, w>>) = w
  BY DEF HA!Last
<1>6. \A h, b, w : HA!Pop(<<h, b, w>>) = <<h, b>> /\ Append(<<h, b>>, w) = <<h, b, w>>
  BY Tuples, Zenon DEF HA!Pop, HA!Front
<1>7. ASSUME NEW h, NEW w, h.v = "home" PROVE HA!Replace(<<h>>, w) = <<w>>
  <2>1. HA!Last(<<h>>).v \in HA!Lists /\ <<h>> # <<>>
    BY <1>1, <1>7 DEF HA!Lists
  <2>2. HA!Replace(<<h>>, w) = Append(HA!Front(<<h>>), w)
    BY <2>1 DEF HA!Replace
  <2>3. HA!Front(<<h>>) = <<>>
    BY <1>1 DEF HA!Pop
  <2> QED
    BY <1>1, <2>2, <2>3
<1> QED
  BY <1>1, <1>2, <1>3, <1>4, <1>5, <1>6, <1>7

\* The rows of a list fit into the model's.
LEMMA PlacesFacts ==
    \A l : l \in Seq(Ids) /\ Len(l) <= HomeRows =>
        /\ HA!Places(l) \subseteq (1..HomeRows) \X Ids
        /\ \A r \in HA!Places(l) : r[1] \in DOMAIN l /\ l[r[1]] = r[2]
<1> TAKE l
<1> HAVE l \in Seq(Ids) /\ Len(l) <= HomeRows
<1>1. HomeRows \in Nat
  BY HomeBounds
<1>2. \A n \in DOMAIN l : n \in 1..HomeRows /\ l[n] \in Ids
  BY <1>1
<1> QED
  BY <1>2 DEF HA!Places

\* The home list as it is drawn now, and the browse list.
HomeView   == [v |-> "home", rows |-> HA!Places(entities)]
BrowseView == [v |-> "browse", rows |-> HA!Visible(browse)]

\* The views as long as no browse list was filtered or searched: the home list,
\* a dialog over it, or the browse list and what opens over that.
HomeShapes ==
    {<<>>, <<HomeView>>, <<HomeView, BrowseView>>,
     <<HomeView, BrowseView, HA!Dialog("filter")>>,
     <<HomeView, BrowseView, HA!Dialog("search")>>}
    \cup {<<HomeView, HA!Dialog(d)>> : d \in HA!Dialogs \ {"search"}}

FavList(l) == l \in Seq(Ids) /\ Len(l) <= MaxFavs /\ HA!IsInjective(l)

\* What is shown when the token can be read.
Listed == IF nvs.host # "" /\ token THEN favs ELSE <<>>

Holds(l, e) == \E n \in DOMAIN l : l[n] = e

\* What does not depend on the views.
HomeData ==
    /\ fault \in {"none", "nvs", "rmem"}
    /\ server \subseteq Ids
    /\ nvs \in [host : Hosts \cup {""}, https : BOOLEAN, favs : Seq(Ids)]
    /\ FavList(nvs.favs) /\ FavList(favs)
    /\ token \in BOOLEAN
    /\ selected \in Ids \cup {0} /\ pending \in 0..MaxFavs
    /\ browse \in [all : Seq(Ids), filter : Filters, search : SUBSET Ids]
    /\ Len(browse.all) <= HomeRows
    /\ wizard \in Hosts \cup {""} /\ agreed \subseteq Hosts /\ refined \in BOOLEAN
    /\ HA!HttpOnlyByConsent

\* The views and what they show; the entity a dialog is about is one shown.
HomeViews ==
    /\ entities \in Seq(Ids) /\ Len(entities) <= MaxFavs
    /\ Stacked(stack) /\ Len(stack) <= HomeDepth
    /\ HA!Top \in Under \cup {"none"} \/ Len(stack) > 1
    /\ HA!Top = "http" => wizard \in Hosts
    /\ ~refined => stack \in HomeShapes
    /\ HA!FavsDurable
    /\ fault # "rmem" =>
         /\ stack # <<>> => entities = Listed
         /\ selected # 0 => stack # <<>> /\ Holds(entities, selected)
         /\ HA!Top = "remove" /\ pending \in DOMAIN favs => favs[pending] = selected

HomeInv == HomeData /\ HomeViews

\* The empty sequence.
LEMMA EmptyFacts == /\ \A S : <<>> \in Seq(S)
                    /\ Len(<<>>) = 0 /\ DOMAIN <<>> = {}
<1>1. \A S : <<>> \in Seq(S)
  OBVIOUS
<1>2. Len(<<>>) = 0
  OBVIOUS
<1>3. DOMAIN <<>> = {}
  OBVIOUS
<1> QED
  BY <1>1, <1>2, <1>3

\* The sizes of the lists.
LEMMA HomeSizes ==
    /\ MaxFavs \in Nat /\ 0 <= MaxFavs /\ 1 <= MaxFavs
    /\ HomeRows \in Nat /\ MaxFavs <= HomeRows /\ HomeDepth \in Nat
BY HomeBounds

\* The plugin is not running at the start.
LEMMA HomeInit == HA!Init => HomeInv
<1> HAVE HA!Init
<1>1. FavList(<<>>)
  <2>1. HA!IsInjective(<<>>)
    BY EmptyFacts DEF HA!IsInjective
  <2> QED
    BY <2>1, EmptyFacts, HomeSizes, Zenon DEF FavList
<1>2. nvs.host = "" /\ nvs.favs = <<>> /\ favs = <<>>
  BY DEF HA!Init
<1>3. nvs \in [host : Hosts \cup {""}, https : BOOLEAN, favs : Seq(Ids)]
  <2>1. nvs = [host |-> "", https |-> FALSE, favs |-> <<>>] /\ <<>> \in Seq(Ids)
    BY EmptyFacts, Zenon DEF HA!Init
  <2> QED
    BY <2>1
<1>4. /\ browse \in [all : Seq(Ids), filter : Filters, search : SUBSET Ids]
      /\ Len(browse.all) <= HomeRows
  <2>1. browse = HA!NoBrowse /\ HA!NoBrowse.all = <<>> /\ Len(<<>>) = 0 /\ HomeRows \in Nat
    BY EmptyFacts, HomeSizes DEF HA!Init, HA!NoBrowse
  <2>2. HA!NoBrowse \in [all : Seq(Ids), filter : Filters, search : SUBSET Ids]
    <3>1. <<>> \in Seq(Ids) /\ "all" \in Filters
      BY EmptyFacts, HomeAssumption, Zenon
    <3> QED
      BY <3>1 DEF HA!NoBrowse
  <2> QED
    BY <2>1, <2>2
<1>5. HomeData
  <2>1. /\ fault \in {"none", "nvs", "rmem"} /\ server \subseteq Ids /\ token \in BOOLEAN
        /\ selected \in Ids \cup {0} /\ wizard \in Hosts \cup {""} /\ agreed \subseteq Hosts
        /\ refined \in BOOLEAN /\ pending = 0
    BY DEF HA!Init
  <2>2. pending \in 0..MaxFavs
    <3>1. 0 \in 0..MaxFavs
      BY HomeBounds
    <3> QED
      BY <2>1, <3>1
  <2> QED
    BY <1>1, <1>2, <1>3, <1>4, <2>1, <2>2 DEF HomeData, HA!HttpOnlyByConsent
<1>6. stack = <<>> /\ HA!Top = "none" /\ Stacked(stack) /\ Len(stack) = 0 /\ selected = 0
  <2>1. stack = <<>> /\ selected = 0
    BY DEF HA!Init
  <2>2. <<>> \in Seq(HA!View) /\ Len(<<>>) = 0 /\ 1..0 - 1 = {}
    OBVIOUS
  <2> QED
    BY <2>1, <2>2 DEF HA!Top, Stacked
<1>7. entities \in Seq(Ids) /\ Len(entities) = 0 /\ MaxFavs \in Nat /\ HomeDepth \in Nat
  BY EmptyFacts, HomeSizes, Zenon DEF HA!Init
<1>8. HomeViews
  BY <1>6, <1>7 DEF HomeViews, Under, HomeShapes, HA!FavsDurable
<1> QED
  BY <1>5, <1>8 DEF HomeInv

\* The invariant is what the property is made of.
LEMMA HomeInvSeen == HomeInv => HA!HomeAsSeen
<1> HAVE HomeInv
<1>1. HA!TypeOK
  BY DEF HomeInv, HomeData, HomeViews, FavList, Stacked, HA!TypeOK
<1>2. HA!RowsFresh
  <2> SUFFICES ASSUME ~refined, stack # <<>>, NEW r \in HA!Rows
               PROVE  LET list == IF HA!Top = "home" THEN entities ELSE browse.all
                      IN  r[1] \in DOMAIN list /\ list[r[1]] = r[2]
    BY DEF HA!RowsFresh, HA!TopFresh
  <2>1. stack \in HomeShapes
    BY DEF HomeInv, HomeViews
  <2>2. HA!Top = HA!Last(stack).v /\ HA!Rows = HA!Last(stack).rows
    BY DEF HA!Top, HA!Rows
  <2>3. /\ entities \in Seq(Ids) /\ Len(entities) <= HomeRows
        /\ browse.all \in Seq(Ids) /\ Len(browse.all) <= HomeRows
    <3>1. entities \in Seq(Ids) /\ Len(entities) <= MaxFavs
      BY DEF HomeInv, HomeViews
    <3>2. browse.all \in Seq(Ids) /\ Len(browse.all) <= HomeRows
      BY DEF HomeInv, HomeData
    <3>3. MaxFavs \in Nat /\ HomeRows \in Nat /\ MaxFavs <= HomeRows
      BY HomeBounds
    <3>4. Len(entities) <= HomeRows
      BY <3>1, <3>3
    <3> QED
      BY <3>1, <3>2, <3>4
  <2>4. CASE HA!Last(stack) = HomeView
    <3>1. HA!Top = "home" /\ r \in HA!Places(entities)
      BY <2>2, <2>4 DEF HomeView
    <3> QED
      BY <2>3, <3>1, PlacesFacts
  <2>5. CASE HA!Last(stack) = BrowseView
    <3>1. HA!Top = "browse" /\ r \in HA!Places(browse.all)
      BY <2>2, <2>5 DEF BrowseView, HA!Visible
    <3> QED
      BY <2>3, <3>1, PlacesFacts
  <2>6. CASE \E d : HA!Last(stack) = HA!Dialog(d)
    BY <2>2, <2>6 DEF HA!Dialog
  <2> QED
    BY <2>1, <2>4, <2>5, <2>6, SmallStacks DEF HomeShapes
<1>3. HA!RemovesNamed /\ HA!HttpOnlyByConsent /\ HA!FavsDurable
  BY DEF HomeInv, HomeData, HomeViews, HA!RemovesNamed
<1> QED
  BY <1>1, <1>2, <1>3 DEF HA!HomeAsSeen

\* A home list is a view.
LEMMA HomeListView ==
    \A l : l \in Seq(Ids) /\ Len(l) <= MaxFavs =>
        [v |-> "home", rows |-> HA!Places(l)] \in HA!View
<1> TAKE l
<1> HAVE l \in Seq(Ids) /\ Len(l) <= MaxFavs
<1>1. Len(l) <= HomeRows
  BY HomeBounds
<1>2. HA!Places(l) \subseteq (1..HomeRows) \X Ids
  BY <1>1, PlacesFacts
<1> QED
  BY <1>2 DEF HA!View, HA!Lists

\* home_render shows the favourites when the plugin is configured.
LEMMA RenderFacts ==
    ASSUME NEW s, HA!HomeRender(s)
    PROVE  /\ entities' \in {favs', <<>>}
           /\ stack' = HA!Replace(s, HomeView') /\ Len(stack') <= HomeDepth
           /\ fault # "rmem" => entities' = Listed'
<1>1. PICK configured \in HA!Configured(nvs', token') :
          /\ entities' = IF configured THEN favs' ELSE <<>>
          /\ stack' = HA!Replace(s, [v |-> "home", rows |-> HA!Places(entities')])
          /\ Len(stack') <= HomeDepth
  BY DEF HA!HomeRender
<1>2. entities' \in {favs', <<>>}
  BY <1>1
<1>3. HomeView' = [v |-> "home", rows |-> HA!Places(entities')]
  BY DEF HomeView
<1>4. fault # "rmem" => (configured <=> nvs'.host # "" /\ token')
  BY DEF HA!Configured
<1>5. fault # "rmem" => entities' = Listed'
  BY <1>1, <1>4 DEF Listed
<1> QED
  BY <1>1, <1>2, <1>3, <1>5

\* What was on the list stays there.
StillListed ==
    /\ selected' = selected
    /\ nvs.host # "" /\ token => nvs'.host # "" /\ token'
    /\ \A n \in DOMAIN favs : n \in DOMAIN favs' /\ favs'[n] = favs[n]

\* A dialog, or the browse list, is over the home list until a browse list was
\* filtered or searched.
LEMMA UnderTop ==
    ASSUME HomeInv, ~refined, HA!Top \in (HA!Dialogs \ {"search"}) \cup {"browse"}
    PROVE  HA!Pop(stack) = <<HomeView>>
<1>1. stack \in HomeShapes /\ stack # <<>> /\ HA!Top = HA!Last(stack).v
  BY DEF HomeInv, HomeViews, HA!Top, HA!Dialogs
<1>2. HA!Top # "home" /\ HA!Top # "filter" /\ HA!Top # "search"
  BY DEF HA!Dialogs
<1>3. /\ stack # <<HomeView>>
      /\ stack # <<HomeView, BrowseView, HA!Dialog("filter")>>
      /\ stack # <<HomeView, BrowseView, HA!Dialog("search")>>
  BY <1>1, <1>2, SmallStacks DEF HomeView, HA!Dialog
<1>4. \E w : stack = <<HomeView, w>>
  BY <1>1, <1>3 DEF HomeShapes
<1> QED
  BY <1>4, SmallStacks

\* A step that ends in home_render keeps the views in order.
LEMMA RenderStep ==
    ASSUME HomeInv, HomeData', fault' = fault, refined' = refined,
           HA!Top \in (HA!Dialogs \ {"search"}) \cup {"browse"},
           HA!HomeRender(HA!Pop(stack)),
           fault # "nvs" => nvs'.favs = favs',
           selected' = 0 \/ StillListed
    PROVE  HomeInv'
<1>1. /\ entities' \in {favs', <<>>}
      /\ stack' = HA!Replace(HA!Pop(stack), HomeView') /\ Len(stack') <= HomeDepth
      /\ fault # "rmem" => entities' = Listed'
  BY RenderFacts
<1>2. entities' \in Seq(Ids) /\ Len(entities') <= MaxFavs
  <2>1. favs' \in Seq(Ids) /\ Len(favs') <= MaxFavs
    BY DEF HomeData, FavList
  <2>2. <<>> \in Seq(Ids) /\ Len(<<>>) <= MaxFavs
    BY EmptyFacts, HomeSizes, Zenon
  <2> QED
    BY <1>1, <2>1, <2>2
<1>3. HomeView' \in HA!View /\ HomeView'.v = "home"
  <2>1. HomeView' = [v |-> "home", rows |-> HA!Places(entities')]
    BY DEF HomeView
  <2> QED
    BY <1>2, <2>1, HomeListView
<1>4. stack # <<>> /\ Stacked(stack)
  BY DEF HomeInv, HomeViews, HA!Top, HA!Dialogs
<1>5. AllLists(HA!Pop(stack))
  BY <1>4, PopFacts
<1>6. Stacked(stack') /\ stack' # <<>> /\ HA!Last(stack') = HomeView'
  BY <1>1, <1>3, <1>5, ReplaceFacts
<1>7. HA!Top' = "home"
  BY <1>3, <1>6 DEF HA!Top
<1>8. ~refined' => stack' \in HomeShapes'
  <2> SUFFICES ASSUME ~refined PROVE stack' \in HomeShapes'
    OBVIOUS
  <2>1. HA!Pop(stack) = <<HomeView>> /\ HomeView.v = "home"
    BY UnderTop DEF HomeView
  <2>2. stack' = <<HomeView'>>
    BY <1>1, <2>1, SmallStacks
  <2> QED
    BY <2>2 DEF HomeShapes
<1>9. ASSUME fault # "rmem", selected' # 0 PROVE Holds(entities', selected')
  <2>1. StillListed /\ selected # 0
    BY <1>9 DEF StillListed
  <2>2. stack # <<>> /\ entities = Listed /\ Holds(entities, selected)
    BY <1>9, <2>1 DEF HomeInv, HomeViews
  <2>3. PICK n \in DOMAIN entities : entities[n] = selected
    BY <2>2 DEF Holds
  <2>4. DOMAIN <<>> = {}
    BY EmptyFacts
  <2>5. nvs.host # "" /\ token /\ entities = favs
    BY <2>2, <2>3, <2>4 DEF Listed
  <2>6. entities' = favs'
    BY <1>1, <1>9, <2>1, <2>5 DEF StillListed, Listed
  <2>7. n \in DOMAIN entities' /\ entities'[n] = selected'
    BY <2>1, <2>3, <2>5, <2>6 DEF StillListed
  <2> QED
    BY <2>7 DEF Holds
<1>10. HA!FavsDurable'
  BY DEF HA!FavsDurable
<1>11. HomeViews'
  BY <1>1, <1>2, <1>6, <1>7, <1>8, <1>9, <1>10 DEF HomeViews, Under
<1> QED
  BY <1>11 DEF HomeInv

\* So does one that leaves the entities alone and puts a view on top.
LEMMA ViewStep ==
    ASSUME HomeInv, HomeData', fault' = fault, favs' = favs, entities' = entities,
           nvs'.favs = nvs.favs, Listed' = Listed,
           stack # <<>>, Stacked(stack'), stack' # <<>>, Len(stack') <= HomeDepth,
           HA!Top' \in Under \/ Len(stack') > 1,
           HA!Top' = "http" => wizard' \in Hosts,
           ~refined' => stack' \in HomeShapes',
           selected' # selected => Holds(entities, selected'),
           HA!Top' = "remove" /\ fault # "rmem" /\ pending' \in DOMAIN favs
               => favs[pending'] = selected'
    PROVE  HomeInv'
<1>1. HA!FavsDurable'
  BY DEF HomeInv, HomeViews, HA!FavsDurable
<1>2. fault # "rmem" /\ selected' # 0 => Holds(entities', selected')
  BY DEF HomeInv, HomeViews
<1>3. /\ entities' \in Seq(Ids) /\ Len(entities') <= MaxFavs
      /\ fault' # "rmem" => entities' = Listed'
  BY DEF HomeInv, HomeViews
<1>4. HomeViews'
  BY <1>1, <1>2, <1>3 DEF HomeViews
<1> QED
  BY <1>4 DEF HomeInv

\* What lies under the top view are lists.
LEMMA ListsBelow ==
    ASSUME HomeInv, stack # <<>>
    PROVE  /\ AllLists(HA!Pop(stack)) /\ Len(HA!Pop(stack)) + 1 = Len(stack)
           /\ HA!Top \in Under => AllLists(stack)
           /\ Len(stack) \in Nat \ {0} /\ Len(stack) <= HomeDepth
           /\ HA!Top = HA!Last(stack).v /\ HA!Last(stack) = stack[Len(stack)]
<1>1. Stacked(stack) /\ Len(stack) <= HomeDepth
  BY DEF HomeInv, HomeViews
<1>2. /\ AllLists(HA!Pop(stack)) /\ Len(HA!Pop(stack)) = Len(stack) - 1
      /\ Len(stack) \in Nat \ {0} /\ HA!Last(stack) = stack[Len(stack)]
  BY <1>1, PopFacts
<1>3. HA!Top = HA!Last(stack).v
  BY DEF HA!Top
<1>4. ASSUME HA!Top \in Under PROVE AllLists(stack)
  <2>1. \A i \in DOMAIN stack : i \in 1..Len(stack) - 1 \/ i = Len(stack)
    BY <1>1, <1>2 DEF Stacked
  <2> QED
    BY <1>1, <1>2, <1>3, <1>4, <2>1 DEF Stacked, AllLists
<1> QED
  BY <1>1, <1>2, <1>3, <1>4

\* Dialogs are views without rows.
LEMMA DialogViews ==
    \A d \in HA!Dialogs \cup {"filter"} : HA!Dialog(d) \in HA!View /\ HA!Dialog(d).v = d
BY DEF HA!Dialog, HA!View, HA!Lists

\* A view is put over lists.
LEMMA Pushing ==
    ASSUME NEW s, NEW w \in HA!View, AllLists(s), stack' = HA!Push(s, w)
    PROVE  Stacked(stack') /\ stack' # <<>> /\ HA!Top' = w.v /\ Len(stack') = Len(s) + 1
<1>1. stack' = Append(s, w)
  BY DEF HA!Push
<1>2. Stacked(stack') /\ stack' # <<>> /\ HA!Last(stack') = w /\ Len(stack') = Len(s) + 1
  BY <1>1, PushFacts
<1> QED
  BY <1>2 DEF HA!Top

\* The home list is alone until a browse list was filtered or searched.
LEMMA OnlyHome ==
    ASSUME HomeInv, ~refined, HA!Top = "home"
    PROVE  stack = <<HomeView>>
<1>1. stack \in HomeShapes /\ stack # <<>> /\ HA!Top = HA!Last(stack).v
  BY DEF HomeInv, HomeViews, HA!Top
<1>2. \A d : HA!Dialog(d).v = d
  BY DEF HA!Dialog
<1>3. ASSUME NEW h, NEW w, stack = <<h, w>> PROVE w.v = "home"
  <2>1. HA!Last(stack) = w
    BY <1>3 DEF HA!Last
  <2> QED
    BY <1>1, <2>1
<1>4. ASSUME NEW h, NEW b, NEW w, stack = <<h, b, w>> PROVE w.v = "home"
  <2>1. HA!Last(stack) = w
    BY <1>4 DEF HA!Last
  <2> QED
    BY <1>1, <2>1
<1>5. BrowseView.v = "browse" /\ "home" \notin HA!Dialogs
  BY DEF BrowseView, HA!Dialogs
<1> QED
  BY <1>1, <1>2, <1>3, <1>4, <1>5 DEF HomeShapes

\* The shapes depend on what is listed only.
LEMMA SameShapes ==
    ASSUME entities' = entities, browse' = browse
    PROVE  HomeShapes' = HomeShapes /\ HomeView' = HomeView /\ BrowseView' = BrowseView
BY DEF HomeShapes, HomeView, BrowseView

\* Host and scheme stay as they are.
LEMMA DataStep ==
    ASSUME HomeData, fault' = fault, server' \subseteq Ids,
           nvs' \in [host : Hosts \cup {""}, https : BOOLEAN, favs : Seq(Ids)],
           nvs'.host = nvs.host, nvs'.https = nvs.https, FavList(nvs'.favs),
           FavList(favs'), token' \in BOOLEAN, selected' \in Ids \cup {0},
           pending' \in 0..MaxFavs,
           browse' \in [all : Seq(Ids), filter : Filters, search : SUBSET Ids],
           Len(browse'.all) <= HomeRows, wizard' \in Hosts \cup {""},
           agreed \subseteq agreed', agreed' \subseteq Hosts, refined' \in BOOLEAN
    PROVE  HomeData'
<1>1. HA!HttpOnlyByConsent'
  BY DEF HomeData, HA!HttpOnlyByConsent, HA!Scheme
<1> QED
  BY <1>1 DEF HomeData

\* As above, with all that is stored.
LEMMA DataKept ==
    ASSUME HomeData, UNCHANGED <<fault, server, nvs, token, favs, wizard, agreed>>,
           selected' \in Ids \cup {0}, pending' \in 0..MaxFavs,
           browse' \in [all : Seq(Ids), filter : Filters, search : SUBSET Ids],
           Len(browse'.all) <= HomeRows, refined' \in BOOLEAN
    PROVE  HomeData'
<1>1. HA!HttpOnlyByConsent'
  BY DEF HomeData, HA!HttpOnlyByConsent, HA!Scheme
<1> QED
  BY <1>1 DEF HomeData

\* The types of what is stored.
LEMMA DataTypes ==
    ASSUME HomeInv
    PROVE  /\ HomeData /\ server \subseteq Ids
           /\ nvs \in [host : Hosts \cup {""}, https : BOOLEAN, favs : Seq(Ids)]
           /\ FavList(nvs.favs) /\ FavList(favs) /\ token \in BOOLEAN
           /\ selected \in Ids \cup {0} /\ pending \in 0..MaxFavs
           /\ browse \in [all : Seq(Ids), filter : Filters, search : SUBSET Ids]
           /\ Len(browse.all) <= HomeRows
           /\ wizard \in Hosts \cup {""} /\ agreed \subseteq Hosts /\ refined \in BOOLEAN
           /\ entities \in Seq(Ids) /\ Len(entities) <= MaxFavs
BY Zenon DEF HomeInv, HomeData, HomeViews

\* A write of the favourites arrives or not.
LEMMA FavsWritten ==
    ASSUME HomeData, FavList(favs'), nvs' \in HA!Written(nvs, [nvs EXCEPT !.favs = favs'])
    PROVE  /\ nvs' \in [host : Hosts \cup {""}, https : BOOLEAN, favs : Seq(Ids)]
           /\ nvs'.host = nvs.host /\ nvs'.https = nvs.https /\ FavList(nvs'.favs)
           /\ fault # "nvs" => nvs'.favs = favs'
<1> DEFINE new == [nvs EXCEPT !.favs = favs']
<1>1. nvs \in [host : Hosts \cup {""}, https : BOOLEAN, favs : Seq(Ids)] /\ FavList(nvs.favs)
  BY DEF HomeData
<1>2. /\ new \in [host : Hosts \cup {""}, https : BOOLEAN, favs : Seq(Ids)]
      /\ new.host = nvs.host /\ new.https = nvs.https /\ new.favs = favs'
  BY <1>1 DEF FavList
<1> HIDE DEF new
<1>3. nvs' = new \/ (fault = "nvs" /\ nvs' = nvs)
  BY DEF HA!Written, new
<1> QED
  BY <1>1, <1>2, <1>3

\* A favourite goes.
LEMMA RemoveFav ==
    \A l, i : FavList(l) /\ i \in 1..Len(l) => FavList(HA!RemoveAt(l, i))
<1> TAKE l, i
<1> HAVE FavList(l) /\ i \in 1..Len(l)
<1> DEFINE r == HA!RemoveAt(l, i)
<1>1. r = BS!RemoveAt(l, i)
  BY DEF HA!RemoveAt, BS!RemoveAt
<1>2. l \in Seq(Ids) /\ Len(l) <= MaxFavs /\ \A a, b \in DOMAIN l : l[a] = l[b] => a = b
  BY DEF FavList, HA!IsInjective
<1> HIDE DEF r
<1>3. /\ r \in Seq(Ids) /\ Len(r) = Len(l) - 1
      /\ \A k \in 1..Len(l) - 1 : r[k] = IF k < i THEN l[k] ELSE l[k + 1]
  BY <1>1, <1>2, RemoveFacts
<1>4. Len(r) <= MaxFavs
  BY <1>2, <1>3, HomeSizes
<1>5. ASSUME NEW a \in DOMAIN r, NEW b \in DOMAIN r, r[a] = r[b] PROVE a = b
  <2>1. a \in 1..Len(l) - 1 /\ b \in 1..Len(l) - 1
    BY <1>3
  <2> DEFINE f(k) == IF k < i THEN k ELSE k + 1
  <2>2. f(a) \in DOMAIN l /\ f(b) \in DOMAIN l
    BY <1>2, <2>1
  <2>3. r[a] = l[f(a)] /\ r[b] = l[f(b)]
    BY <1>3, <2>1
  <2>4. f(a) = f(b)
    BY <1>2, <1>5, <2>2, <2>3
  <2> QED
    BY <2>1, <2>4
<1> QED
  BY <1>3, <1>4, <1>5 DEF FavList, HA!IsInjective, r

\* A favourite comes.
LEMMA AppendFav ==
    \A l, e : FavList(l) /\ e \in Ids /\ ~HA!Contains(l, e) /\ Len(l) < MaxFavs =>
        /\ FavList(Append(l, e))
        /\ \A n \in DOMAIN l : n \in DOMAIN Append(l, e) /\ Append(l, e)[n] = l[n]
<1> TAKE l, e
<1> HAVE FavList(l) /\ e \in Ids /\ ~HA!Contains(l, e) /\ Len(l) < MaxFavs
<1> DEFINE r == Append(l, e)
<1>1. l \in Seq(Ids) /\ \A a, b \in DOMAIN l : l[a] = l[b] => a = b
  BY DEF FavList, HA!IsInjective
<1>2. \A n \in DOMAIN l : l[n] # e
  BY <1>1 DEF HA!Contains
<1>3. /\ r \in Seq(Ids) /\ Len(r) = Len(l) + 1 /\ r[Len(l) + 1] = e /\ Len(l) \in Nat
      /\ \A n \in 1..Len(l) : r[n] = l[n]
  BY <1>1
<1>4. DOMAIN l = 1..Len(l) /\ DOMAIN r = 1..Len(l) + 1
  BY <1>1, <1>3
<1> HIDE DEF r
<1>5. Len(r) <= MaxFavs
  BY <1>3, HomeSizes
<1>6. \A n \in DOMAIN l : n \in DOMAIN r /\ r[n] = l[n]
  BY <1>3, <1>4
<1>7. ASSUME NEW a \in DOMAIN r, NEW b \in DOMAIN r, r[a] = r[b] PROVE a = b
  <2>1. (a \in DOMAIN l \/ a = Len(l) + 1) /\ (b \in DOMAIN l \/ b = Len(l) + 1)
    BY <1>3, <1>4
  <2> QED
    BY <1>1, <1>2, <1>3, <1>6, <1>7, <2>1
<1> QED
  BY <1>3, <1>5, <1>6, <1>7 DEF FavList, HA!IsInjective, r

\* plugin_on_enter.
LEMMA EnterStep ==
    ASSUME HomeInv, HA!Enter
    PROVE  HomeInv'
<1>1. /\ stack = <<>> /\ favs' = nvs.favs /\ nvs' = nvs /\ token' = token
      /\ UNCHANGED <<fault, server, selected, pending, browse, wizard, agreed, refined>>
  BY DEF HA!Enter, HA!store, HA!ghost
<1>2. HomeData' /\ FavList(favs')
  <2>1. FavList(favs')
    BY <1>1, DataTypes
  <2> QED
    BY <1>1, <2>1, DataTypes, DataStep, Zenon
<1>3. /\ entities' \in {favs', <<>>}
      /\ stack' = HA!Replace(<<>>, HomeView') /\ Len(stack') <= HomeDepth
      /\ fault # "rmem" => entities' = Listed'
  BY RenderFacts DEF HA!Enter
<1>4. entities' \in Seq(Ids) /\ Len(entities') <= MaxFavs
  <2>1. favs' \in Seq(Ids) /\ Len(favs') <= MaxFavs
    BY <1>2 DEF FavList
  <2>2. <<>> \in Seq(Ids) /\ Len(<<>>) <= MaxFavs
    BY EmptyFacts, HomeSizes, Zenon
  <2> QED
    BY <1>3, <2>1, <2>2
<1>5. HomeView' = [v |-> "home", rows |-> HA!Places(entities')]
  BY DEF HomeView
<1>6. HomeView' \in HA!View /\ HomeView'.v = "home"
  BY <1>4, <1>5, HomeListView
<1>7. AllLists(<<>>)
  BY EmptyFacts, Zenon DEF AllLists
<1>8. Stacked(stack') /\ stack' # <<>> /\ HA!Last(stack') = HomeView'
  BY <1>3, <1>6, <1>7, ReplaceFacts
<1>9. HA!Top' = "home"
  BY <1>6, <1>8 DEF HA!Top
<1>10. stack' \in HomeShapes'
  BY <1>3, SmallStacks DEF HomeShapes
<1>11. fault # "rmem" => selected' = 0
  BY <1>1 DEF HomeInv, HomeViews
<1>12. HA!FavsDurable'
  BY <1>1 DEF HA!FavsDurable
<1>13. HomeViews'
  BY <1>1, <1>3, <1>4, <1>8, <1>9, <1>10, <1>11, <1>12 DEF HomeViews, Under
<1> QED
  BY <1>2, <1>13 DEF HomeInv

\* plugin_on_exit.
LEMMA ExitStep ==
    ASSUME HomeInv, HA!Exit
    PROVE  HomeInv'
<1>1. /\ selected' = 0 /\ pending' = 0 /\ browse' = [browse EXCEPT !.all = <<>>]
      /\ stack' = <<>>
      /\ UNCHANGED <<fault, server, nvs, token, favs, entities, wizard, agreed, refined>>
  BY DEF HA!Exit, HA!store, HA!ghost
<1>2. /\ browse' \in [all : Seq(Ids), filter : Filters, search : SUBSET Ids]
      /\ browse'.all = <<>>
  <2>1. <<>> \in Seq(Ids)
    BY EmptyFacts, Zenon
  <2> QED
    BY <1>1, <2>1, DataTypes
<1>3. Len(browse'.all) <= HomeRows /\ 0 \in 0..MaxFavs
  BY <1>2, EmptyFacts, HomeBounds
<1>4. HomeData'
  BY <1>1, <1>2, <1>3, DataTypes, DataKept, Zenon
<1>5. Stacked(stack') /\ Len(stack') <= HomeDepth
  <2>1. <<>> \in Seq(HA!View) /\ Len(<<>>) = 0
    BY EmptyFacts, Zenon
  <2> QED
    BY <1>1, <2>1, HomeBounds DEF Stacked
<1>6. HA!Top' = "none"
  BY <1>1 DEF HA!Top
<1>7. entities' \in Seq(Ids) /\ Len(entities') <= MaxFavs
  BY <1>1 DEF HomeInv, HomeViews
<1>8. HA!FavsDurable' /\ stack' \in HomeShapes'
  BY <1>1 DEF HA!FavsDurable, HomeShapes
<1>9. HomeViews'
  BY <1>1, <1>5, <1>6, <1>7, <1>8 DEF HomeViews, Under
<1> QED
  BY <1>4, <1>9 DEF HomeInv

\* The host pops a view.
LEMMA BackStep ==
    ASSUME HomeInv, HA!Back
    PROVE  HomeInv'
<1>1. /\ Len(stack) > 1 /\ stack' = HA!Pop(stack)
      /\ UNCHANGED <<fault, server, nvs, token, favs, entities, selected, pending, browse,
                     wizard, agreed, refined>>
  BY DEF HA!Back, HA!store, HA!ghost, HA!ha
<1>2. stack # <<>>
  BY <1>1, EmptyFacts
<1>3. /\ AllLists(stack') /\ Len(stack') + 1 = Len(stack)
      /\ Len(stack) \in Nat \ {0} /\ Len(stack) <= HomeDepth
  BY <1>1, <1>2, ListsBelow
<1>4. Len(stack') \in Nat \ {0} /\ Len(stack') <= HomeDepth
  <2>1. Len(stack') \in Nat
    BY <1>3 DEF AllLists
  <2> QED
    BY <1>1, <1>3, <2>1, HomeBounds
<1>5. Stacked(stack') /\ stack' # <<>> /\ HA!Top' \in Under
  <2>1. stack' # <<>> /\ Len(stack') \in DOMAIN stack'
    BY <1>3, <1>4, EmptyFacts DEF AllLists
  <2>2. stack'[Len(stack')].v \in Under
    BY <1>3, <2>1 DEF AllLists
  <2>3. HA!Top' = stack'[Len(stack')].v
    BY <2>1 DEF HA!Top, HA!Last
  <2> QED
    BY <1>3, <2>1, <2>2, <2>3 DEF AllLists, Stacked
<1>6. HomeData'
  BY <1>1, DataTypes, DataKept, Zenon
<1>7. ASSUME ~refined PROVE stack' \in HomeShapes'
  <2>1. stack \in HomeShapes
    BY <1>7 DEF HomeInv, HomeViews
  <2>2. stack' \in {<<>>, <<HomeView>>, <<HomeView, BrowseView>>}
    BY <1>1, <2>1, SmallStacks DEF HomeShapes
  <2> QED
    BY <1>1, <2>2, SameShapes DEF HomeShapes
<1>8. HA!Top' # "http" /\ HA!Top' # "remove"
  BY <1>5 DEF Under
<1>9. Listed' = Listed
  BY <1>1 DEF Listed
<1> QED
  BY <1>1, <1>2, <1>4, <1>5, <1>6, <1>7, <1>8, <1>9, ViewStep

\* A dialog opens over the home list.
LEMMA OpenStep ==
    ASSUME HomeInv, HA!Top = "home", NEW d \in HA!Dialogs \ {"remove", "http", "search"},
           HA!Open(d), selected' = selected \/ Holds(entities, selected'),
           UNCHANGED <<fault, server, nvs, token, favs, entities, pending, browse, wizard,
                       agreed, refined>>
    PROVE  HomeInv'
<1>1. stack # <<>> /\ HA!Top \in Under
  BY DEF HA!Top, Under
<1>2. stack' = HA!Push(stack, HA!Dialog(d)) /\ Len(stack) < HomeDepth
  BY DEF HA!Open
<1>3. HA!Dialog(d) \in HA!View /\ HA!Dialog(d).v = d
  BY DialogViews
<1>4. AllLists(stack) /\ Len(stack) \in Nat
  BY <1>1, ListsBelow
<1>5. Stacked(stack') /\ stack' # <<>> /\ HA!Top' = d /\ Len(stack') = Len(stack) + 1
  BY <1>2, <1>3, <1>4, Pushing
<1>6. Len(stack') <= HomeDepth /\ Len(stack') > 1
  <2>1. Len(stack) \in Nat \ {0} /\ HomeDepth \in Nat
    BY <1>1, ListsBelow, HomeBounds
  <2> QED
    BY <1>2, <1>5, <2>1
<1>7. HomeData'
  <2>1. selected' \in Ids \cup {0}
    <3>1. entities \in Seq(Ids) /\ selected \in Ids \cup {0}
      BY DataTypes, Zenon
    <3>2. \A n \in DOMAIN entities : entities[n] \in Ids
      BY <3>1
    <3> QED
      BY <3>1, <3>2 DEF Holds
  <2> QED
    BY <2>1, DataTypes, DataKept, Zenon
<1>8. ASSUME ~refined PROVE stack' \in HomeShapes'
  <2>1. stack = <<HomeView>>
    BY <1>8, OnlyHome
  <2>2. stack' = <<HomeView, HA!Dialog(d)>>
    BY <1>2, <2>1, SmallStacks DEF HA!Push
  <2> QED
    BY <2>2, SameShapes DEF HomeShapes
<1>9. Listed' = Listed
  BY DEF Listed
<1> QED
  BY <1>1, <1>5, <1>6, <1>7, <1>8, <1>9, ViewStep

\* What a row is pressed for is an entity of the list.
LEMMA Pressed ==
    ASSUME NEW i, selected' = IF i \in DOMAIN entities THEN entities[i] ELSE selected
    PROVE  selected' = selected \/ Holds(entities, selected')
BY DEF Holds

\* home_handle_select.
LEMMA SelectStep ==
    ASSUME HomeInv, NEW i, HA!HomeSelect(i)
    PROVE  HomeInv'
<1>1. /\ HA!Top = "home"
      /\ selected' = IF i \in DOMAIN entities THEN entities[i] ELSE selected
      /\ UNCHANGED <<fault, server, nvs, token, favs, entities, pending, browse, wizard,
                     agreed, refined>>
  BY DEF HA!HomeSelect, HA!store, HA!ghost
<1>2. selected' = selected \/ Holds(entities, selected')
  BY <1>1, Pressed
<1>3. ASSUME NEW d \in {"menu", "position", "climate"}, HA!Open(d) PROVE HomeInv'
  <2>1. d \in HA!Dialogs \ {"remove", "http", "search"}
    BY DEF HA!Dialogs
  <2> QED
    BY <1>1, <1>2, <1>3, <2>1, OpenStep
<1>4. ASSUME stack' = stack \/ HA!HomeRedraw PROVE HomeInv'
  <2>1. stack # <<>> /\ HA!Top \in Under
    BY <1>1 DEF HA!Top, Under
  <2>2. AllLists(stack) /\ Stacked(stack) /\ Len(stack) <= HomeDepth
    BY <2>1, ListsBelow DEF HomeInv, HomeViews
  <2>3. HomeView = [v |-> "home", rows |-> HA!Places(entities)] /\ HomeView.v = "home"
    BY DEF HomeView
  <2>4. HomeView \in HA!View
    BY <2>3, DataTypes, HomeListView
  <2>5. stack' = stack \/ stack' = HA!Replace(stack, HomeView)
    BY <1>4, <2>3 DEF HA!HomeRedraw
  <2>6. /\ Stacked(stack') /\ stack' # <<>> /\ HA!Top' = "home" /\ Len(stack') <= HomeDepth
        /\ "home" \in Under
    <3> USE DEF Under
    <3>1. CASE stack' = stack
      BY <1>1, <2>1, <2>2, <3>1 DEF HA!Top
    <3>2. CASE stack' = HA!Replace(stack, HomeView)
      <4>1. /\ Stacked(stack') /\ stack' # <<>> /\ HA!Last(stack') = HomeView
            /\ Len(stack') = Len(stack)
        BY <2>1, <2>2, <2>4, <3>2, ReplaceFacts
      <4> QED
        BY <2>2, <2>3, <4>1 DEF HA!Top
    <3> QED
      BY <2>5, <3>1, <3>2
  <2>7. HomeData'
    <3>1. selected' \in Ids \cup {0}
      <4>1. entities \in Seq(Ids) /\ selected \in Ids \cup {0}
        BY DataTypes, Zenon
      <4>2. \A n \in DOMAIN entities : entities[n] \in Ids
        BY <4>1
      <4> QED
        BY <1>1, <4>1, <4>2
    <3> QED
      BY <1>1, <3>1, DataTypes, DataKept, Zenon
  <2>8. ASSUME ~refined PROVE stack' \in HomeShapes'
    <3>1. stack = <<HomeView>>
      BY <1>1, <2>8, OnlyHome
    <3>2. stack' = <<HomeView>>
      BY <2>3, <2>5, <3>1, SmallStacks
    <3> QED
      BY <1>1, <3>2, SameShapes DEF HomeShapes
  <2>9. Listed' = Listed
    BY <1>1 DEF Listed
  <2> QED
    BY <1>1, <1>2, <2>1, <2>6, <2>7, <2>8, <2>9, ViewStep
<1>5. \/ \E d \in {"menu", "position", "climate"} : HA!Open(d)
      \/ stack' = stack \/ HA!HomeRedraw
  BY DEF HA!HomeSelect
<1> QED
  BY <1>3, <1>4, <1>5

\* ACT_HOME_MENU.
LEMMA MenuStep ==
    ASSUME HomeInv, NEW i, HA!HomeMenu(i)
    PROVE  HomeInv'
<1>1. /\ HA!Top = "home" /\ HA!Open("menu")
      /\ selected' = IF i \in DOMAIN entities THEN entities[i] ELSE selected
      /\ UNCHANGED <<fault, server, nvs, token, favs, entities, pending, browse, wizard,
                     agreed, refined>>
  BY DEF HA!HomeMenu, HA!store, HA!ghost
<1>2. selected' = selected \/ Holds(entities, selected')
  BY <1>1, Pressed
<1>3. "menu" \in HA!Dialogs \ {"remove", "http", "search"}
  BY DEF HA!Dialogs
<1> QED
  BY <1>1, <1>2, <1>3, OpenStep

\* The filters and the search are over the browse list until then.
LEMMA UnderFilter ==
    ASSUME HomeInv, ~refined, HA!Top \in {"filter", "search"}
    PROVE  HA!Pop(stack) = <<HomeView, BrowseView>>
<1>1. stack \in HomeShapes /\ stack # <<>> /\ HA!Top = HA!Last(stack).v
  BY DEF HomeInv, HomeViews, HA!Top
<1>2. \A d : HA!Dialog(d).v = d
  BY DEF HA!Dialog
<1>3. stack # <<HomeView>>
  BY <1>1 DEF HA!Last, HomeView
<1>4. stack # <<HomeView, BrowseView>>
  <2>1. HA!Last(<<HomeView, BrowseView>>) = BrowseView /\ BrowseView.v = "browse"
    BY SmallStacks DEF BrowseView
  <2> QED
    BY <1>1, <2>1
<1>5. ASSUME NEW d \in HA!Dialogs \ {"search"} PROVE stack # <<HomeView, HA!Dialog(d)>>
  <2>1. d # "filter" /\ d # "search"
    BY DEF HA!Dialogs
  <2> QED
    BY <1>1, <1>2, <2>1 DEF HA!Last
<1>6. \E w : stack = <<HomeView, BrowseView, w>>
  BY <1>1, <1>3, <1>4, <1>5 DEF HomeShapes
<1>7. \A h, b, w : HA!Pop(<<h, b, w>>) = <<h, b>>
  BY SmallStacks
<1> QED
  BY <1>6, <1>7, Zenon

\* A dialog takes the place of another one, or of the filter list.
LEMMA DialogStep ==
    ASSUME HomeInv, stack # <<>>, NEW d \in HA!Dialogs,
           stack' = HA!Push(HA!Pop(stack), HA!Dialog(d)),
           HomeData', UNCHANGED <<fault, favs, entities, browse, selected, refined>>,
           nvs'.favs = nvs.favs, Listed' = Listed,
           d = "http" => wizard' \in Hosts,
           \/ d # "search" /\ HA!Top \in HA!Dialogs \ {"search"}
           \/ d = "search" /\ HA!Top = "filter",
           d = "remove" /\ fault # "rmem" /\ pending' \in DOMAIN favs
               => favs[pending'] = selected
    PROVE  HomeInv'
<1>1. HA!Dialog(d) \in HA!View /\ HA!Dialog(d).v = d
  BY DialogViews
<1>2. /\ AllLists(HA!Pop(stack)) /\ Len(HA!Pop(stack)) + 1 = Len(stack)
      /\ Len(stack) <= HomeDepth
  BY ListsBelow
<1>3. /\ Stacked(stack') /\ stack' # <<>> /\ HA!Top' = d
      /\ Len(stack') <= HomeDepth /\ Len(stack') > 1
  <2>1. Stacked(stack') /\ stack' # <<>> /\ HA!Top' = d /\ Len(stack') = Len(stack)
    BY <1>1, <1>2, Pushing
  <2>2. Len(stack) > 1
    BY DEF HomeInv, HomeViews, HA!Dialogs, Under
  <2> QED
    BY <1>2, <2>1, <2>2
<1>4. ASSUME ~refined PROVE stack' \in HomeShapes'
  <2>1. CASE d # "search"
    <3>1. HA!Pop(stack) = <<HomeView>>
      BY <1>4, <2>1, UnderTop
    <3>2. stack' = <<HomeView, HA!Dialog(d)>>
      BY <3>1, SmallStacks DEF HA!Push
    <3> QED
      BY <2>1, <3>2, SameShapes DEF HomeShapes
  <2>2. CASE d = "search"
    <3>1. HA!Pop(stack) = <<HomeView, BrowseView>>
      BY <1>4, <2>2, UnderFilter
    <3>2. stack' = <<HomeView, BrowseView, HA!Dialog("search")>>
      BY <2>2, <3>1, SmallStacks DEF HA!Push
    <3> QED
      BY <3>2, SameShapes DEF HomeShapes
  <2> QED
    BY <2>1, <2>2
<1> QED
  BY <1>3, <1>4, ViewStep

\* CTX_BRIGHTNESS to CTX_REMOVE.
LEMMA CtxPickStep ==
    ASSUME HomeInv, NEW d \in HA!Dialogs, HA!CtxPick(d)
    PROVE  HomeInv'
<1>1. /\ HA!Top = "menu" /\ stack # <<>>
      /\ stack' = HA!Push(HA!Pop(stack), HA!Dialog(d))
      /\ pending' = IF d = "remove" THEN HA!SelectedIdx ELSE pending
      /\ UNCHANGED <<fault, server, nvs, token, favs, entities, selected, browse, wizard,
                     agreed, refined>>
  BY DEF HA!CtxPick, HA!Top, HA!store, HA!ghost
<1>2. d \notin {"http", "search"} /\ (d = "remove" => selected # 0)
  BY DEF HA!CtxPick
<1>3. /\ HA!Contains(entities, selected) <=> Holds(entities, selected)
      /\ Holds(entities, selected) => /\ HA!SelectedIdx \in DOMAIN entities
                                      /\ entities[HA!SelectedIdx] = selected
      /\ ~Holds(entities, selected) => HA!SelectedIdx = 1
  <2>1. entities \in Seq(Ids)
    BY DataTypes
  <2>2. HA!Contains(entities, selected) <=> Holds(entities, selected)
    BY <2>1 DEF HA!Contains, Holds
  <2>3. Holds(entities, selected) =>
            HA!SelectedIdx = CHOOSE i \in DOMAIN entities : entities[i] = selected
    BY <2>2 DEF HA!SelectedIdx
  <2>4. ~Holds(entities, selected) => HA!SelectedIdx = 1
    BY <2>2 DEF HA!SelectedIdx
  <2> QED
    BY <2>2, <2>3, <2>4 DEF Holds
<1>4. HA!SelectedIdx \in 0..MaxFavs
  <2>1. \A n \in DOMAIN entities : n \in 0..MaxFavs
    <3>1. entities \in Seq(Ids) /\ Len(entities) <= MaxFavs
      BY DataTypes, Zenon
    <3> QED
      BY <3>1, HomeBounds
  <2>2. 1 \in 0..MaxFavs
    BY HomeBounds
  <2> QED
    BY <1>3, <2>1, <2>2
<1>5. HomeData'
  <2>1. pending' \in 0..MaxFavs
    BY <1>1, <1>4, DataTypes
  <2> QED
    BY <1>1, <2>1, DataTypes, DataKept, Zenon
<1>6. ASSUME d = "remove", fault # "rmem", pending' \in DOMAIN favs
      PROVE  favs[pending'] = selected
  <2>1. entities = Listed /\ Holds(entities, selected)
    BY <1>1, <1>2, <1>6 DEF HomeInv, HomeViews
  <2>2. DOMAIN <<>> = {}
    BY EmptyFacts
  <2>3. entities = favs
    BY <2>1, <2>2 DEF Holds, Listed
  <2> QED
    BY <1>1, <1>3, <1>6, <2>1, <2>3
<1>7. Listed' = Listed
  BY <1>1 DEF Listed
<1>8. HA!Top \in HA!Dialogs \ {"search"}
  BY <1>1 DEF HA!Dialogs
<1> QED
  BY <1>1, <1>2, <1>5, <1>6, <1>7, <1>8, DialogStep


\* A dialog closes and nothing else changes but the browse list.
LEMMA ClosedStep ==
    ASSUME HomeInv, HA!Top \in HA!Dialogs \ {"search"}, stack' = HA!Pop(stack),
           UNCHANGED <<fault, server, nvs, token, favs, entities, selected, pending, browse,
                       wizard, agreed, refined>>
    PROVE  HomeInv'
<1>1. stack # <<>> /\ Len(stack) > 1
  BY DEF HA!Top, HA!Dialogs, Under, HomeInv, HomeViews
<1>2. /\ AllLists(stack') /\ Len(stack') + 1 = Len(stack)
      /\ Len(stack) \in Nat \ {0} /\ Len(stack) <= HomeDepth
  BY <1>1, ListsBelow
<1>3. Len(stack') \in Nat \ {0} /\ Len(stack') <= HomeDepth
  <2>1. Len(stack') \in Nat
    BY <1>2 DEF AllLists
  <2> QED
    BY <1>1, <1>2, <2>1, HomeBounds
<1>4. Stacked(stack') /\ stack' # <<>> /\ HA!Top' \in Under
  <2>1. stack' # <<>> /\ Len(stack') \in DOMAIN stack'
    BY <1>2, <1>3, EmptyFacts DEF AllLists
  <2>2. stack'[Len(stack')].v \in Under
    BY <1>2, <2>1 DEF AllLists
  <2>3. HA!Top' = stack'[Len(stack')].v
    BY <2>1 DEF HA!Top, HA!Last
  <2> QED
    BY <1>2, <2>1, <2>2, <2>3 DEF AllLists, Stacked
<1>5. HomeData'
  BY DataTypes, DataKept, Zenon
<1>6. ASSUME ~refined PROVE stack' \in HomeShapes'
  <2>1. stack' = <<HomeView>>
    BY <1>6, UnderTop
  <2> QED
    BY <2>1, SameShapes DEF HomeShapes
<1>7. HA!Top' # "http" /\ HA!Top' # "remove"
  BY <1>4 DEF Under
<1>8. Listed' = Listed
  BY DEF Listed
<1> QED
  BY <1>1, <1>3, <1>4, <1>5, <1>6, <1>7, <1>8, ViewStep

\* The favourites stored are those shown while a dialog or a list is open.
LEMMA StoredFavs ==
    ASSUME HomeInv, HA!Top # "none", fault # "nvs"
    PROVE  nvs.favs = favs
BY DEF HomeInv, HomeViews, HA!FavsDurable, HA!Top

\* The end of an editor.
LEMMA EditStep ==
    ASSUME HomeInv, HA!EditDone
    PROVE  HomeInv'
<1>1. /\ HA!Top \in {"brightness", "color", "position", "climate"}
      /\ UNCHANGED <<fault, server, nvs, token, favs, selected, pending, browse, wizard,
                     agreed, refined>>
  BY DEF HA!EditDone, HA!store, HA!ghost
<1>2. HA!Top \in HA!Dialogs \ {"search"} /\ HA!Top # "none"
  BY <1>1 DEF HA!Dialogs
<1>3. HomeData'
  BY <1>1, DataTypes, DataKept, Zenon
<1>4. CASE HA!HomeRender(HA!Pop(stack))
  <2>1. fault # "nvs" => nvs'.favs = favs'
    BY <1>1, <1>2, StoredFavs
  <2>2. StillListed
    BY <1>1 DEF StillListed
  <2> QED
    BY <1>1, <1>2, <1>3, <1>4, <2>1, <2>2, RenderStep
<1>5. CASE stack' = HA!Pop(stack) /\ entities' = entities
  BY <1>1, <1>2, <1>5, ClosedStep
<1> QED
  BY <1>4, <1>5 DEF HA!EditDone

\* ACT_REMOVE_FAV_CONFIRM.
LEMMA RemoveStep ==
    ASSUME HomeInv, NEW yes, HA!RemoveConfirm(yes)
    PROVE  HomeInv'
<1>1. /\ HA!Top = "remove" /\ pending' = 0 /\ HA!HomeRender(HA!Pop(stack))
      /\ UNCHANGED <<fault, server, token, browse, wizard, agreed, refined>>
  BY DEF HA!RemoveConfirm, HA!ghost
<1>2. HA!Top \in HA!Dialogs \ {"search"} /\ HA!Top # "none"
  BY <1>1 DEF HA!Dialogs
<1>3. CASE ~(yes /\ pending # 0)
  <2>1. UNCHANGED <<favs, selected, nvs>>
    BY <1>3 DEF HA!RemoveConfirm
  <2>2. HomeData'
    <3>1. pending' \in 0..MaxFavs
      BY <1>1, HomeBounds
    <3> QED
      BY <1>1, <2>1, <3>1, DataTypes, DataKept, Zenon
  <2>3. fault # "nvs" => nvs'.favs = favs'
    BY <1>2, <2>1, StoredFavs
  <2>4. StillListed
    BY <1>1, <2>1 DEF StillListed
  <2> QED
    BY <1>1, <1>2, <2>2, <2>3, <2>4, RenderStep
<1>4. CASE yes /\ pending # 0
  <2>1. /\ favs' = IF pending <= Len(favs) THEN HA!RemoveAt(favs, pending) ELSE favs
        /\ selected' = 0
        /\ nvs' \in HA!Written(nvs, [nvs EXCEPT !.favs = favs'])
    BY <1>4 DEF HA!RemoveConfirm
  <2>2. FavList(favs')
    <3>1. FavList(favs) /\ pending \in 0..MaxFavs
      BY DataTypes, Zenon
    <3>2. Len(favs) \in Nat
      BY <3>1 DEF FavList
    <3>3. pending <= Len(favs) => pending \in 1..Len(favs)
      BY <1>4, <3>1, <3>2, HomeBounds
    <3> QED
      BY <2>1, <3>1, <3>3, RemoveFav
  <2>3. /\ nvs' \in [host : Hosts \cup {""}, https : BOOLEAN, favs : Seq(Ids)]
        /\ nvs'.host = nvs.host /\ nvs'.https = nvs.https /\ FavList(nvs'.favs)
        /\ fault # "nvs" => nvs'.favs = favs'
    BY <2>1, <2>2, DataTypes, FavsWritten
  <2>4. HomeData'
    <3>1. pending' \in 0..MaxFavs /\ selected' \in Ids \cup {0}
      BY <1>1, <2>1, HomeBounds
    <3> QED
      BY <1>1, <2>2, <2>3, <3>1, DataTypes, DataStep, Zenon
  <2> QED
    BY <1>1, <1>2, <2>1, <2>3, <2>4, RenderStep
<1> QED
  BY <1>3, <1>4

\* ACT_RESET_CONFIRM.
LEMMA ResetStep ==
    ASSUME HomeInv, NEW yes, HA!ResetConfirm(yes)
    PROVE  HomeInv'
<1>1. /\ HA!Top = "reset" /\ HA!HomeRender(HA!Pop(stack))
      /\ UNCHANGED <<fault, server, pending, wizard, agreed, refined>>
  BY DEF HA!ResetConfirm, HA!ghost
<1>2. HA!Top \in HA!Dialogs \ {"search"} /\ HA!Top # "none"
  BY <1>1 DEF HA!Dialogs
<1>3. CASE ~yes
  <2>1. UNCHANGED <<nvs, token, favs, selected, browse>>
    BY <1>3 DEF HA!ResetConfirm, HA!store
  <2>2. HomeData'
    BY <1>1, <2>1, DataTypes, DataKept, Zenon
  <2>3. fault # "nvs" => nvs'.favs = favs'
    BY <1>2, <2>1, StoredFavs
  <2>4. StillListed
    BY <1>1, <2>1 DEF StillListed
  <2> QED
    BY <1>1, <1>2, <2>2, <2>3, <2>4, RenderStep
<1>4. CASE yes
  <2> DEFINE erased == [host |-> "", https |-> FALSE, favs |-> <<>>]
  <2>1. /\ nvs' \in HA!Written(nvs, erased) /\ token' \in HA!Written(token, FALSE)
        /\ favs' = <<>> /\ selected' = 0 /\ browse' = [browse EXCEPT !.all = <<>>]
    BY <1>4 DEF HA!ResetConfirm
  <2>2. FavList(<<>>) /\ <<>> \in Seq(Ids)
    <3>1. HA!IsInjective(<<>>)
      BY EmptyFacts DEF HA!IsInjective
    <3> QED
      BY <3>1, EmptyFacts, HomeSizes, Zenon DEF FavList
  <2>3. /\ erased \in [host : Hosts \cup {""}, https : BOOLEAN, favs : Seq(Ids)]
        /\ erased.host = "" /\ erased.favs = <<>>
    BY <2>2
  <2> HIDE DEF erased
  <2>4. nvs' = erased \/ (fault = "nvs" /\ nvs' = nvs)
    BY <2>1 DEF HA!Written
  <2>5. token' \in BOOLEAN
    BY <2>1, DataTypes DEF HA!Written
  <2>6. /\ nvs' \in [host : Hosts \cup {""}, https : BOOLEAN, favs : Seq(Ids)]
        /\ FavList(nvs'.favs)
        /\ fault # "nvs" => nvs'.favs = favs' /\ nvs'.host = ""
    BY <2>1, <2>2, <2>3, <2>4, DataTypes
  <2>7. /\ browse' \in [all : Seq(Ids), filter : Filters, search : SUBSET Ids]
        /\ Len(browse'.all) <= HomeRows
    <3>1. browse \in [all : Seq(Ids), filter : Filters, search : SUBSET Ids]
      BY DataTypes
    <3>2. /\ browse' \in [all : Seq(Ids), filter : Filters, search : SUBSET Ids]
          /\ browse'.all = <<>>
      BY <2>1, <2>2, <3>1
    <3>3. Len(browse'.all) = 0
      BY <3>2, EmptyFacts, Zenon
    <3>4. 0 <= HomeRows
      BY HomeSizes
    <3> QED
      BY <3>2, <3>3, <3>4, Zenon
  <2>8. HA!HttpOnlyByConsent'
    BY <1>1, <2>6 DEF HA!HttpOnlyByConsent
  <2>9. HomeData'
    BY <1>1, <2>1, <2>2, <2>5, <2>6, <2>7, <2>8, DataTypes, Zenon DEF HomeData
  <2> QED
    BY <1>1, <1>2, <2>1, <2>6, <2>9, RenderStep
<1> QED
  BY <1>3, <1>4


\* A browse list is put over lists, in the place of the menu or of what was over
\* the browse list before.
LEMMA BrowseStep ==
    ASSUME HomeInv, HA!Top \in {"menu", "filter", "search"},
           stack' = HA!Push(HA!Pop(stack), BrowseView'),
           browse' \in [all : Seq(Ids), filter : Filters, search : SUBSET Ids],
           Len(browse'.all) <= HomeRows,
           UNCHANGED <<fault, server, nvs, token, favs, entities, selected, pending, wizard,
                       agreed>>,
           refined' \in BOOLEAN, refined => refined',
           ~refined' => HA!Top = "menu"
    PROVE  HomeInv'
<1>1. BrowseView' = [v |-> "browse", rows |-> HA!Visible(browse')]
  BY DEF BrowseView
<1>2. BrowseView' \in HA!View /\ BrowseView'.v = "browse"
  <2>1. HA!Visible(browse') \subseteq HA!Places(browse'.all)
    BY DEF HA!Visible
  <2>2. HA!Places(browse'.all) \subseteq (1..HomeRows) \X Ids
    <3>1. browse'.all \in Seq(Ids)
      OBVIOUS
    <3> QED
      BY <3>1, PlacesFacts
  <2>3. HA!Visible(browse') \subseteq (1..HomeRows) \X Ids
    BY <2>1, <2>2
  <2> HIDE DEF BrowseView
  <2> QED
    BY <1>1, <2>3 DEF HA!View, HA!Lists
<1>3. stack # <<>> /\ Len(stack) > 1
  BY DEF HA!Top, Under, HomeInv, HomeViews
<1>4. /\ AllLists(HA!Pop(stack)) /\ Len(HA!Pop(stack)) + 1 = Len(stack)
      /\ Len(stack) <= HomeDepth
  BY <1>3, ListsBelow
<1>5. /\ Stacked(stack') /\ stack' # <<>> /\ HA!Top' = "browse"
      /\ Len(stack') <= HomeDepth
  <2>1. /\ Stacked(stack') /\ stack' # <<>> /\ HA!Top' = "browse"
        /\ Len(stack') = Len(HA!Pop(stack)) + 1
    BY <1>2, <1>4, Pushing
  <2> QED
    BY <1>4, <2>1
<1>6. HomeData'
  BY DataTypes, DataKept, Zenon
<1>7. ASSUME ~refined' PROVE stack' \in HomeShapes'
  <2>1. HA!Top \in HA!Dialogs \ {"search"} /\ ~refined
    BY <1>7 DEF HA!Dialogs
  <2>2. HA!Pop(stack) = <<HomeView>>
    BY <2>1, UnderTop
  <2>3. HomeView' = HomeView
    BY DEF HomeView
  <2>4. stack' = <<HomeView', BrowseView'>>
    BY <2>2, <2>3, SmallStacks DEF HA!Push
  <2> QED
    BY <2>4 DEF HomeShapes
<1>8. Listed' = Listed
  BY DEF Listed
<1>9. "browse" \in Under
  BY DEF Under
<1> QED
  BY <1>3, <1>5, <1>6, <1>7, <1>8, <1>9, ViewStep

\* browse_open.
LEMMA BrowseOpenStep ==
    ASSUME HomeInv, HA!BrowseOpen
    PROVE  HomeInv'
<1>1. /\ HA!Top = "menu"
      /\ UNCHANGED <<fault, server, nvs, token, favs, entities, selected, pending, wizard,
                     agreed, refined>>
  BY DEF HA!BrowseOpen, HA!store, HA!ghost
<1>2. CASE /\ browse' = [HA!NoBrowse EXCEPT !.all = HA!FetchAll]
           /\ stack' = HA!Push(HA!Pop(stack), [v |-> "browse", rows |-> HA!Visible(browse')])
  <2>1. HA!FetchAll \in Seq(Ids) /\ Len(HA!FetchAll) <= HomeRows
    BY DataTypes, FetchAllFacts, Zenon
  <2>2. "all" \in Filters
    BY HomeAssumption, Zenon
  <2> DEFINE list == HA!FetchAll
  <2> HIDE DEF list
  <2>3. browse' = [all |-> list, filter |-> "all", search |-> Ids]
    BY <1>2 DEF HA!NoBrowse, list
  <2>4. /\ browse' \in [all : Seq(Ids), filter : Filters, search : SUBSET Ids]
        /\ browse'.all = list
    BY <2>1, <2>2, <2>3 DEF list
  <2>5. Len(browse'.all) <= HomeRows
    BY <2>1, <2>4 DEF list
  <2>6. stack' = HA!Push(HA!Pop(stack), BrowseView')
    BY <1>2 DEF BrowseView
  <2>7. refined \in BOOLEAN
    BY DataTypes, Zenon
  <2> QED
    BY <1>1, <2>4, <2>5, <2>6, <2>7, BrowseStep
<1>3. CASE stack' = HA!Pop(stack) /\ browse' = browse
  <2>1. HA!Top \in HA!Dialogs \ {"search"}
    BY <1>1 DEF HA!Dialogs
  <2> QED
    BY <1>1, <1>3, <2>1, ClosedStep
<1> QED
  BY <1>2, <1>3 DEF HA!BrowseOpen

\* browse_open_filter_menu.
LEMMA FilterMenuStep ==
    ASSUME HomeInv, HA!FilterMenu
    PROVE  HomeInv'
<1>1. /\ HA!Top = "browse" /\ stack' = HA!Push(stack, HA!Dialog("filter"))
      /\ Len(stack) < HomeDepth
      /\ UNCHANGED <<fault, server, nvs, token, favs, entities, selected, pending, browse,
                     wizard, agreed, refined>>
  BY DEF HA!FilterMenu, HA!store, HA!ghost, HA!ha
<1>2. stack # <<>> /\ HA!Top \in Under
  BY <1>1 DEF HA!Top, Under
<1>3. HA!Dialog("filter") \in HA!View /\ HA!Dialog("filter").v = "filter"
  BY DialogViews
<1>4. AllLists(stack) /\ Len(stack) \in Nat
  BY <1>2, ListsBelow
<1>5. Stacked(stack') /\ stack' # <<>> /\ HA!Top' = "filter" /\ Len(stack') = Len(stack) + 1
  BY <1>1, <1>3, <1>4, Pushing
<1>6. Len(stack') <= HomeDepth /\ Len(stack') > 1
  <2>1. Len(stack) \in Nat \ {0} /\ HomeDepth \in Nat
    BY <1>2, ListsBelow, HomeBounds
  <2> QED
    BY <1>1, <1>5, <2>1
<1>7. HomeData'
  BY <1>1, DataTypes, DataKept, Zenon
<1>8. ASSUME ~refined PROVE stack' \in HomeShapes'
  <2>1. HA!Pop(stack) = <<HomeView>> /\ stack \in HomeShapes
    BY <1>1, <1>8, UnderTop DEF HomeInv, HomeViews
  <2>2. \A d : HA!Dialog(d).v = d
    BY DEF HA!Dialog
  <2>3. HA!Last(stack).v = "browse"
    BY <1>1, <1>2 DEF HA!Top
  <2>4. stack = <<HomeView, BrowseView>>
    <3>1. "browse" \notin HA!Dialogs
      BY DEF HA!Dialogs
    <3>2. HomeView.v = "home"
      BY DEF HomeView
    <3> QED
      BY <1>2, <2>1, <2>2, <2>3, <3>1, <3>2, SmallStacks DEF HomeShapes
  <2>5. stack' = <<HomeView, BrowseView, HA!Dialog("filter")>>
    BY <1>1, <2>4, SmallStacks DEF HA!Push
  <2> QED
    BY <1>1, <2>5, SameShapes DEF HomeShapes
<1>9. Listed' = Listed
  BY <1>1 DEF Listed
<1> QED
  BY <1>1, <1>2, <1>5, <1>6, <1>7, <1>8, <1>9, ViewStep

\* browse_filter_pick.
LEMMA FilterPickStep ==
    ASSUME HomeInv, NEW f \in Filters, HA!FilterPick(f)
    PROVE  HomeInv'
<1>1. /\ HA!Top = "filter" /\ browse' = [browse EXCEPT !.filter = f] /\ refined' = TRUE
      /\ stack' = HA!Push(HA!Pop(stack), BrowseView')
      /\ UNCHANGED <<fault, server, nvs, token, favs, entities, selected, pending, wizard,
                     agreed>>
  BY DEF HA!FilterPick, HA!store, BrowseView
<1>2. /\ browse' \in [all : Seq(Ids), filter : Filters, search : SUBSET Ids]
      /\ browse'.all = browse.all
  BY <1>1, DataTypes
<1>3. Len(browse'.all) <= HomeRows
  BY <1>2, DataTypes
<1> QED
  BY <1>1, <1>2, <1>3, BrowseStep

\* browse_filter_pick, FILTER_SEARCH.
LEMMA SearchStartStep ==
    ASSUME HomeInv, HA!SearchStart
    PROVE  HomeInv'
<1>1. /\ HA!Top = "filter" /\ stack # <<>>
      /\ stack' = HA!Push(HA!Pop(stack), HA!Dialog("search"))
      /\ UNCHANGED <<fault, server, nvs, token, favs, entities, selected, pending, browse,
                     wizard, agreed, refined>>
  BY DEF HA!SearchStart, HA!Top, HA!store, HA!ghost, HA!ha
<1>2. HomeData'
  BY <1>1, DataTypes, DataKept, Zenon
<1>3. Listed' = Listed
  BY <1>1 DEF Listed
<1>4. "search" \in HA!Dialogs
  BY DEF HA!Dialogs
<1> QED
  BY <1>1, <1>2, <1>3, <1>4, DialogStep

\* browse_search_done.
LEMMA SearchDoneStep ==
    ASSUME HomeInv, NEW match \in Searches \cup {browse.search}, HA!SearchDone(match)
    PROVE  HomeInv'
<1>1. /\ HA!Top = "search" /\ browse' = [browse EXCEPT !.search = match]
      /\ refined' = TRUE
      /\ stack' = HA!Push(HA!Pop(stack), BrowseView')
      /\ UNCHANGED <<fault, server, nvs, token, favs, entities, selected, pending, wizard,
                     agreed>>
  BY DEF HA!SearchDone, HA!store, BrowseView
<1>2. match \subseteq Ids
  <2>1. Searches \subseteq SUBSET Ids
    BY HomeAssumption, Zenon
  <2>2. browse.search \subseteq Ids
    BY DataTypes
  <2> QED
    BY <2>1, <2>2
<1>3. /\ browse' \in [all : Seq(Ids), filter : Filters, search : SUBSET Ids]
      /\ browse'.all = browse.all
  BY <1>1, <1>2, DataTypes
<1>4. Len(browse'.all) <= HomeRows
  BY <1>3, DataTypes
<1> QED
  BY <1>1, <1>3, <1>4, BrowseStep

\* browse_select.
LEMMA BrowseSelectStep ==
    ASSUME HomeInv, NEW n, HA!BrowseSelect(n)
    PROVE  HomeInv'
<1>1. /\ HA!Top = "browse" /\ n \in DOMAIN browse.all
      /\ ~HA!Contains(favs, browse.all[n]) /\ Len(favs) < MaxFavs
      /\ favs' = Append(favs, browse.all[n])
      /\ nvs' \in HA!Written(nvs, [nvs EXCEPT !.favs = favs'])
      /\ UNCHANGED <<fault, server, token, selected, pending, browse, wizard, agreed,
                     refined>>
      /\ HA!HomeRender(HA!Pop(stack))
  BY DEF HA!BrowseSelect, HA!ghost
<1>2. browse.all[n] \in Ids
  <2>1. browse.all \in Seq(Ids)
    BY DataTypes
  <2> QED
    BY <1>1, <2>1
<1>3. FavList(favs') /\ \A i \in DOMAIN favs : i \in DOMAIN favs' /\ favs'[i] = favs[i]
  <2>1. FavList(favs)
    BY DataTypes, Zenon
  <2> QED
    BY <1>1, <1>2, <2>1, AppendFav, Zenon
<1>4. /\ nvs' \in [host : Hosts \cup {""}, https : BOOLEAN, favs : Seq(Ids)]
      /\ nvs'.host = nvs.host /\ nvs'.https = nvs.https /\ FavList(nvs'.favs)
      /\ fault # "nvs" => nvs'.favs = favs'
  BY <1>1, <1>3, DataTypes, FavsWritten
<1>5. HomeData'
  BY <1>1, <1>3, <1>4, DataTypes, DataStep, Zenon
<1>6. StillListed
  BY <1>1, <1>3, <1>4 DEF StillListed
<1> QED
  BY <1>1, <1>4, <1>5, <1>6, RenderStep


\* wizard_save: the host and its scheme are written one after the other, then
\* the token is asked for or the home list shown.
LEMMA WizardStep ==
    ASSUME HomeInv, NEW https \in BOOLEAN, HA!WizardSave(https, wizard', HA!Pop(stack)),
           HA!Top \in {"host", "http"}, wizard' \in Hosts,
           UNCHANGED <<fault, server, favs, selected, pending, browse, refined>>,
           agreed' \subseteq Hosts, https \/ wizard' \in agreed'
    PROVE  HomeInv'
<1>1. HA!Top \in HA!Dialogs \ {"search"} /\ HA!Top # "none" /\ stack # <<>>
  BY DEF HA!Dialogs, HA!Top
<1>2. PICK h \in HA!Written(nvs.host, wizard'), t \in HA!Written(nvs.https, https) :
          nvs' = [nvs EXCEPT !.host = h, !.https = t]
  BY DEF HA!WizardSave
<1>3. /\ h = wizard' \/ (fault = "nvs" /\ h = nvs.host)
      /\ t = https \/ (fault = "nvs" /\ t = nvs.https)
  BY <1>2 DEF HA!Written
<1>4. /\ nvs \in [host : Hosts \cup {""}, https : BOOLEAN, favs : Seq(Ids)]
      /\ FavList(nvs.favs)
  BY DataTypes, Zenon
<1>5. h \in Hosts \cup {""} /\ t \in BOOLEAN
  BY <1>3, <1>4
<1>6. /\ nvs' \in [host : Hosts \cup {""}, https : BOOLEAN, favs : Seq(Ids)]
      /\ nvs'.host = h /\ nvs'.https = t /\ nvs'.favs = nvs.favs
  BY <1>2, <1>4, <1>5
<1>7. token' = token
  BY DEF HA!WizardSave
<1>8. HA!HttpOnlyByConsent'
  BY <1>3, <1>6 DEF HA!HttpOnlyByConsent, HA!Scheme
<1>9. HomeData'
  <2>1. FavList(nvs'.favs)
    BY <1>4, <1>6
  <2>2. wizard' \in Hosts \cup {""}
    OBVIOUS
  <2>3. FavList(favs)
    BY DataTypes, Zenon
  <2>4. FavList(favs')
    BY <2>3
  <2> QED
    BY <1>6, <1>7, <1>8, <2>1, <2>2, <2>4, DataTypes, Zenon DEF HomeData
<1>10. CASE token
  <2>1. HA!HomeRender(HA!Pop(stack))
    BY <1>10 DEF HA!WizardSave
  <2>2. fault # "nvs" => nvs'.favs = favs'
    BY <1>1, <1>6, StoredFavs
  <2>3. nvs.host # "" => nvs'.host # ""
    <3>1. wizard' # ""
      BY HomeAssumption, Zenon
    <3> QED
      BY <1>3, <1>6, <3>1
  <2>4. StillListed
    BY <1>7, <2>3 DEF StillListed
  <2> QED
    BY <1>1, <1>9, <2>1, <2>2, <2>4, RenderStep
<1>11. CASE ~token
  <2>1. stack' = HA!Push(HA!Pop(stack), HA!Dialog("token")) /\ entities' = entities
    BY <1>11 DEF HA!WizardSave
  <2>2. Listed' = Listed
    BY <1>7, <1>11 DEF Listed
  <2>3. "token" \in HA!Dialogs
    BY DEF HA!Dialogs
  <2> QED
    BY <1>1, <1>6, <1>9, <2>1, <2>2, <2>3, DialogStep
<1> QED
  BY <1>10, <1>11

\* A step that keeps what is stored and ends in home_render.
LEMMA ShownStep ==
    ASSUME HomeInv, HA!Top \in HA!Dialogs \ {"search"}, HA!HomeRender(HA!Pop(stack)),
           UNCHANGED <<fault, server, nvs, favs, selected, pending, browse, refined>>,
           token' \in BOOLEAN, token => token',
           wizard' \in Hosts \cup {""}, agreed \subseteq agreed', agreed' \subseteq Hosts
    PROVE  HomeInv'
<1>1. HA!Top # "none"
  BY DEF HA!Dialogs
<1>2. HomeData'
  BY DataTypes, DataStep, Zenon
<1>3. fault # "nvs" => nvs'.favs = favs'
  BY <1>1, StoredFavs
<1>4. StillListed
  BY DEF StillListed
<1> QED
  BY <1>2, <1>3, <1>4, RenderStep

\* ACT_SETUP_HOST_DONE.
LEMMA HostDoneStep ==
    ASSUME HomeInv, NEW h \in Hosts, NEW https \in BOOLEAN, HA!HostDone(h, https)
    PROVE  HomeInv'
<1>1. /\ HA!Top = "host" /\ wizard' = h
      /\ UNCHANGED <<fault, server, favs, selected, pending, browse, agreed, refined>>
  BY DEF HA!HostDone, HA!ghost
<1>2. HA!Top \in HA!Dialogs \ {"search"} /\ stack # <<>>
  BY <1>1 DEF HA!Dialogs, HA!Top
<1>3. agreed \subseteq Hosts /\ token \in BOOLEAN
  BY DataTypes, Zenon
<1>4. CASE HA!WizardSave(TRUE, wizard', HA!Pop(stack))
  BY <1>1, <1>3, <1>4, WizardStep
<1>5. CASE UNCHANGED <<nvs, token>> /\ HA!HomeRender(HA!Pop(stack))
  BY <1>1, <1>2, <1>3, <1>5, ShownStep
<1>6. CASE /\ stack' = HA!Push(HA!Pop(stack), HA!Dialog("http"))
           /\ UNCHANGED <<nvs, token, entities>>
  <2>1. HomeData'
    <3>1. wizard' \in Hosts \cup {""}
      BY <1>1
    <3> QED
      BY <1>1, <1>6, <3>1, DataTypes, DataStep, Zenon
  <2>2. Listed' = Listed
    BY <1>1, <1>6 DEF Listed
  <2>3. "http" \in HA!Dialogs
    BY DEF HA!Dialogs
  <2> QED
    BY <1>1, <1>2, <1>6, <2>1, <2>2, <2>3, DialogStep
<1> QED
  BY <1>4, <1>5, <1>6 DEF HA!HostDone, HA!store

\* ACT_SETUP_HTTP_CONFIRM.
LEMMA HttpConfirmStep ==
    ASSUME HomeInv, NEW yes, HA!HttpConfirm(yes)
    PROVE  HomeInv'
<1>1. /\ HA!Top = "http" /\ agreed' = IF yes THEN agreed \cup {wizard} ELSE agreed
      /\ UNCHANGED <<fault, server, favs, selected, pending, browse, wizard, refined>>
  BY DEF HA!HttpConfirm
<1>2. wizard \in Hosts
  BY <1>1 DEF HomeInv, HomeViews
<1>3. agreed \subseteq agreed' /\ agreed' \subseteq Hosts /\ token \in BOOLEAN
  BY <1>1, <1>2, DataTypes
<1>4. HA!Top \in HA!Dialogs \ {"search"}
  BY <1>1 DEF HA!Dialogs
<1>5. CASE yes /\ HA!WizardSave(FALSE, wizard, HA!Pop(stack))
  <2>1. wizard' \in agreed' /\ wizard' = wizard /\ wizard' \in Hosts
    BY <1>1, <1>2, <1>5
  <2>2. HA!WizardSave(FALSE, wizard', HA!Pop(stack))
    BY <1>5, <2>1
  <2> QED
    BY <1>1, <1>3, <2>1, <2>2, WizardStep
<1>6. CASE UNCHANGED <<nvs, token>> /\ HA!HomeRender(HA!Pop(stack))
  BY <1>1, <1>2, <1>3, <1>4, <1>6, ShownStep
<1> QED
  BY <1>5, <1>6 DEF HA!HttpConfirm, HA!store

\* ACT_SETUP_TOKEN_DONE.
LEMMA TokenStep ==
    ASSUME HomeInv, HA!TokenDone
    PROVE  HomeInv'
<1>1. /\ HA!Top = "token" /\ token' \in {token, TRUE} /\ HA!HomeRender(HA!Pop(stack))
      /\ UNCHANGED <<fault, server, nvs, favs, selected, pending, browse, wizard, agreed,
                     refined>>
  BY DEF HA!TokenDone, HA!ghost
<1>2. HA!Top \in HA!Dialogs \ {"search"}
  BY <1>1 DEF HA!Dialogs
<1>3. /\ token \in BOOLEAN /\ wizard \in Hosts \cup {""} /\ agreed \subseteq Hosts
  BY DataTypes, Zenon
<1> QED
  BY <1>1, <1>2, <1>3, ShownStep

\* A cancelled host input.
LEMMA HostCancelStep ==
    ASSUME HomeInv, HA!HostCancel
    PROVE  HomeInv'
<1>1. /\ HA!Top = "host" /\ HA!HomeRender(HA!Pop(stack))
      /\ UNCHANGED <<fault, server, nvs, token, favs, selected, pending, browse, wizard,
                     agreed, refined>>
  BY DEF HA!HostCancel, HA!ghost, HA!store
<1>2. HA!Top \in HA!Dialogs \ {"search"}
  BY <1>1 DEF HA!Dialogs
<1>3. /\ token \in BOOLEAN /\ wizard \in Hosts \cup {""} /\ agreed \subseteq Hosts
  BY DataTypes, Zenon
<1> QED
  BY <1>1, <1>2, <1>3, ShownStep

\* Only the entities of the server change, or nothing at all.
LEMMA ElsewhereStep ==
    ASSUME HomeInv, server' \subseteq Ids,
           UNCHANGED <<fault, nvs, token, favs, entities, selected, pending, browse, wizard,
                       stack, agreed, refined>>
    PROVE  HomeInv'
<1>1. HomeData'
  <2>1. HA!HttpOnlyByConsent' = HA!HttpOnlyByConsent
    BY DEF HA!HttpOnlyByConsent, HA!Scheme
  <2> QED
    BY <2>1 DEF HomeInv, HomeData
<1>2. HomeShapes' = HomeShapes /\ Listed' = Listed /\ HA!Top' = HA!Top
  BY SameShapes DEF Listed, HA!Top
<1>3. HA!FavsDurable' = HA!FavsDurable
  BY DEF HA!FavsDurable
<1>4. HomeViews'
  BY <1>2, <1>3 DEF HomeInv, HomeViews
<1> QED
  BY <1>1, <1>4 DEF HomeInv

\* Every step keeps the invariant.
LEMMA HomeStep ==
    ASSUME HomeInv, HA!Next \/ UNCHANGED ha
    PROVE  HomeInv'
<1>1. ASSUME NEW i, HA!HomeSelect(i) \/ HA!HomeMenu(i) \/ HA!BrowseSelect(i) PROVE HomeInv'
  BY <1>1, SelectStep, MenuStep, BrowseSelectStep
<1>2. ASSUME NEW d \in HA!Dialogs, HA!CtxPick(d) PROVE HomeInv'
  BY <1>2, CtxPickStep
<1>3. ASSUME NEW yes, HA!RemoveConfirm(yes) \/ HA!ResetConfirm(yes) \/ HA!HttpConfirm(yes)
      PROVE  HomeInv'
  BY <1>3, RemoveStep, ResetStep, HttpConfirmStep
<1>4. ASSUME NEW f \in Filters, HA!FilterPick(f) PROVE HomeInv'
  BY <1>4, FilterPickStep
<1>5. ASSUME NEW match \in Searches \cup {browse.search}, HA!SearchDone(match) PROVE HomeInv'
  BY <1>5, SearchDoneStep
<1>6. ASSUME NEW h \in Hosts, NEW https \in BOOLEAN, HA!HostDone(h, https) PROVE HomeInv'
  BY <1>6, HostDoneStep
<1>7. ASSUME NEW s \in Servers, HA!ServerChange(s) PROVE HomeInv'
  <2>1. server' = s /\ UNCHANGED <<fault, nvs, token, favs, entities, selected, pending,
                                   browse, wizard, stack, agreed, refined>>
    BY <1>7 DEF HA!ServerChange, HA!store, HA!ghost, HA!ha
  <2>2. s \subseteq Ids
    BY HomeAssumption
  <2>3. server' \subseteq Ids
    BY <2>1, <2>2
  <2> QED
    BY <2>1, <2>3, ElsewhereStep
<1>8. CASE UNCHANGED ha
  <2>1. UNCHANGED <<fault, server, nvs, token, favs, entities, selected, pending, browse,
                    wizard, stack, agreed, refined>>
    BY <1>8 DEF ha
  <2>2. server \subseteq Ids
    BY DataTypes, Zenon
  <2>3. server' \subseteq Ids
    BY <2>1, <2>2
  <2> QED
    BY <2>1, <2>3, ElsewhereStep
<1>9. CASE HA!Next
  BY <1>1, <1>2, <1>3, <1>4, <1>5, <1>6, <1>7, <1>9, EnterStep, ExitStep, BackStep, EditStep,
     BrowseOpenStep, FilterMenuStep, SearchStartStep, HostCancelStep, TokenStep, Zenon
     DEF HA!Next
<1> QED
  BY <1>8, <1>9


-----------------------------------------------------------------------------
(* home_assistant: the rows of the home list.                              *)

\* An entity of the server and a row have these fields.
Real(e)  == {"state", "level"} \subseteq DOMAIN e /\ e.level \in 0..100
Row(row) == {"domain", "state", "pct"} \subseteq DOMAIN row /\ row.pct \in Int
Reals(list) == DOMAIN list = DOMAIN rowFavs /\ \A n \in DOMAIN rowFavs : Real(list[n])

\* A row that is not excused has the domain of its favourite and, but for what
\* only runs, the state of its entity; its percentage is the entity's, or left
\* out.
RowTrue(row, d, e) ==
    /\ row.domain = d
    /\ HS!Runs(d) \/ row.state = e.state
    /\ d = "cover" => row.pct = e.level
    /\ d = "light" => row.pct \in {0, e.level}

RowInv ==
    /\ rowFavs \in Seq(STRING)
    /\ Reals(actual)
    /\ DOMAIN rowEntities \subseteq DOMAIN rowFavs
    /\ \A n \in DOMAIN rowEntities :
         /\ Row(rowEntities[n])
         /\ n \notin rowExcused => RowTrue(rowEntities[n], rowFavs[n], actual[n])

\* A percentage survives Home Assistant's 0..255.
LEMMA PctOfRaw == \A l \in 0..100 : HS!Pct(HS!Raw(l)) = l
<1> TAKE l \in 0..100
<1> DEFINE r == (l * 255 + 50) \div 100
<1>1. r \in Int /\ 100 * r <= l * 255 + 50 /\ l * 255 + 50 < 100 * r + 100
  OBVIOUS
<1> HIDE DEF r
<1>2. l * 255 <= r * 100 + 127 /\ r * 100 + 127 < l * 255 + 255
  BY <1>1
<1>3. (r * 100 + 127) \div 255 = l
  BY <1>1, <1>2
<1> QED
  BY <1>3 DEF HS!Pct, HS!Raw, r

\* home_render over what the server has by then.
LEMMA RowsRendered ==
    ASSUME rowFavs \in Seq(STRING), rowFavs' = rowFavs,
           Reals(actual'), HS!HomeRender
    PROVE  RowInv'
<1>1. PICK n \in 0..Len(rowFavs) :
          /\ rowEntities' = [i \in DOMAIN rowFavs |->
                                IF i <= n THEN HS!Fetched(i) ELSE HS!Placeholder(i)]
          /\ rowExcused' = (n + 1)..Len(rowFavs)
  BY DEF HS!HomeRender
<1>2. DOMAIN rowFavs = 1..Len(rowFavs) /\ Len(rowFavs) \in Nat
  OBVIOUS
<1>3. DOMAIN rowEntities' = DOMAIN rowFavs
  BY <1>1
<1>4. ASSUME NEW i \in DOMAIN rowFavs
      PROVE  Row(HS!Fetched(i)) /\ RowTrue(HS!Fetched(i), rowFavs[i], actual'[i])
  <2>1. Real(actual'[i])
    BY DEF Reals
  <2>2. HS!Pct(HS!Raw(actual'[i].level)) = actual'[i].level
    BY <2>1, PctOfRaw DEF Real
  <2> DEFINE p == IF rowFavs[i] = "cover" THEN actual'[i].level
                  ELSE IF rowFavs[i] = "light" /\ actual'[i].state = "on"
                       THEN actual'[i].level ELSE 0
  <2>3. /\ p = actual'[i].level \/ p = 0
        /\ rowFavs[i] = "cover" => p = actual'[i].level
    OBVIOUS
  <2>4. rowFavs[i] = "light" => p \in {0, actual'[i].level}
    OBVIOUS
  <2>5. HS!Fetched(i) = [domain |-> rowFavs[i], state |-> actual'[i].state, pct |-> p]
    BY <2>2 DEF HS!Fetched
  <2> HIDE DEF p
  <2>6. p \in Int
    BY <2>1, <2>3 DEF Real
  <2> QED
    BY <2>3, <2>4, <2>5, <2>6 DEF Row, RowTrue
<1>5. ASSUME NEW i \in DOMAIN rowFavs PROVE Row(HS!Placeholder(i))
  BY DEF HS!Placeholder, Row
<1>6. ASSUME NEW i \in DOMAIN rowFavs, i \notin rowExcused' PROVE i <= n
  BY <1>1, <1>2, <1>6
<1>7. \A i \in DOMAIN rowEntities' :
          /\ Row(rowEntities'[i])
          /\ i \notin rowExcused' => RowTrue(rowEntities'[i], rowFavs[i], actual'[i])
  BY <1>1, <1>3, <1>4, <1>5, <1>6
<1> QED
  BY <1>3, <1>7 DEF RowInv, Reals

\* A service leaves an entity with a state and a level.
LEMMA ServedReal ==
    \A e, d, service : \A level \in 0..100 :
        Real(e) => Real(HS!Served(e, d, service, level))
BY DEF HS!Served, Real

\* The rows of the entities that a call did not touch stay true.
LEMMA RowsKept ==
    ASSUME RowInv, NEW n, rowFavs' = rowFavs, NEW e,
           actual' = [actual EXCEPT ![n] = e] \/ actual' = actual,
           n \in DOMAIN rowFavs => Real(e),
           DOMAIN rowEntities' = DOMAIN rowEntities,
           \A i \in DOMAIN rowEntities : i # n => rowEntities'[i] = rowEntities[i],
           n \in DOMAIN rowEntities => Row(rowEntities'[n]),
           \A i : i # n /\ i \in rowExcused => i \in rowExcused',
           n \in DOMAIN rowEntities /\ n \notin rowExcused'
               => RowTrue(rowEntities'[n], rowFavs[n], actual'[n])
    PROVE  RowInv'
<1>1. Reals(actual)
  BY DEF RowInv, Reals
<1>2. Reals(actual') /\ \A i \in DOMAIN rowFavs : i # n => actual'[i] = actual[i]
  BY <1>1 DEF Reals
<1>3. ASSUME NEW i \in DOMAIN rowEntities
      PROVE  /\ Row(rowEntities'[i])
             /\ i \notin rowExcused' => RowTrue(rowEntities'[i], rowFavs[i], actual'[i])
  BY <1>2 DEF RowInv, Reals
<1> QED
  BY <1>2, <1>3 DEF RowInv, Reals

\* A call without an answer excuses the row of its entity.
LEMMA UnansweredStep ==
    ASSUME RowInv, NEW n \in DOMAIN rowFavs, NEW service, NEW level \in 0..100,
           HS!Unanswered(n, service, level), rowFavs' = rowFavs
    PROVE  RowInv'
<1> DEFINE e == HS!Served(actual[n], rowFavs[n], service, level)
<1>1. Real(actual[n])
  BY DEF RowInv, Reals
<1>2. Real(e)
  BY <1>1, ServedReal
<1>3. /\ actual' = [actual EXCEPT ![n] = e] \/ actual' = actual
      /\ rowExcused' = IF actual' = actual THEN rowExcused ELSE rowExcused \cup {n}
      /\ rowEntities' = rowEntities
  BY DEF HS!Unanswered, HS!Arrives
<1> HIDE DEF e
<1>4. ASSUME n \in DOMAIN rowEntities, n \notin rowExcused'
      PROVE  RowTrue(rowEntities'[n], rowFavs[n], actual'[n])
  BY <1>3, <1>4 DEF RowInv, Reals
<1>5. n \in DOMAIN rowEntities => Row(rowEntities'[n])
  BY <1>3 DEF RowInv, Reals
<1> QED
  BY <1>2, <1>3, <1>4, <1>5, RowsKept

\* home_handle_select: what the row says after a toggle is what the server has.
LEMMA SelectRow ==
    ASSUME RowInv, NEW n \in DOMAIN rowFavs, HS!Select(n)
    PROVE  RowInv'
<1> DEFINE service == HS!PrimaryService(rowEntities[n].domain)
           e == HS!Served(actual[n], rowFavs[n], service, 0)
<1>1. n \in DOMAIN rowEntities /\ rowFavs' = rowFavs
  BY DEF HS!Select
<1>2. Real(actual[n]) /\ Row(rowEntities[n])
  BY <1>1 DEF RowInv, Reals
<1>3. CASE HS!Unanswered(n, service, 0)
  BY <1>1, <1>3, UnansweredStep
<1>4. CASE /\ HS!Arrives(n, service, 0)
           /\ rowEntities' = [rowEntities EXCEPT ![n] = HS!Toggled(@)]
           /\ rowExcused' = IF HS!Misjudged(n) THEN rowExcused \cup {n} ELSE rowExcused
  <2>1. Real(e) /\ actual' = [actual EXCEPT ![n] = e]
    BY <1>2, <1>4, ServedReal DEF HS!Arrives
  <2>2. /\ DOMAIN rowEntities' = DOMAIN rowEntities
        /\ rowEntities'[n] = HS!Toggled(rowEntities[n])
        /\ \A i \in DOMAIN rowEntities : i # n => rowEntities'[i] = rowEntities[i]
    BY <1>1, <1>4
  <2>3. /\ Row(HS!Toggled(rowEntities[n]))
        /\ HS!Toggled(rowEntities[n]).domain = rowEntities[n].domain
        /\ HS!Toggled(rowEntities[n]).pct = rowEntities[n].pct
        /\ HS!Toggled(rowEntities[n]).state =
               IF HS!Toggleable(rowEntities[n].domain)
               THEN IF rowEntities[n].state = "on" THEN "off" ELSE "on"
               ELSE rowEntities[n].state
    BY <1>2 DEF HS!Toggled, Row
  <2>4. ASSUME n \notin rowExcused' PROVE RowTrue(rowEntities'[n], rowFavs[n], actual'[n])
    <3>1. n \notin rowExcused /\ ~HS!Misjudged(n)
      BY <1>4, <2>4
    <3>2. RowTrue(rowEntities[n], rowFavs[n], actual[n])
      BY <1>1, <3>1 DEF RowInv, Reals
    <3>3. actual'[n] = e
      BY <2>1 DEF RowInv, Reals
    <3>4. e.level = actual[n].level
      BY <1>2 DEF HS!Served, HS!PrimaryService, Real
    <3>5. CASE HS!Toggleable(rowFavs[n])
      <4>1. service = "toggle"
        BY <3>2, <3>5 DEF RowTrue, HS!PrimaryService
      <4>2. e.state = IF actual[n].state = "on" THEN "off" ELSE "on"
        <5>1. actual[n].state \notin {"gone", "unavailable"}
          BY <3>1, <3>5 DEF HS!Misjudged
        <5>2. e = [actual[n] EXCEPT !.state = IF @ = "on" THEN "off" ELSE "on"]
          BY <4>1, <5>1 DEF HS!Served
        <5> QED
          BY <1>2, <5>2 DEF Real
      <4>3. ~HS!Runs(rowFavs[n])
        BY <3>5 DEF HS!Toggleable, HS!Runs
      <4> QED
        BY <2>2, <2>3, <3>2, <3>3, <3>4, <3>5, <4>2, <4>3 DEF RowTrue
    <3>6. CASE HS!Runs(rowFavs[n])
      <4>1. ~HS!Toggleable(rowFavs[n])
        BY <3>6 DEF HS!Toggleable, HS!Runs
      <4> QED
        BY <2>2, <2>3, <3>2, <3>3, <3>4, <3>6, <4>1 DEF RowTrue
    <3>7. CASE ~HS!Toggleable(rowFavs[n]) /\ ~HS!Runs(rowFavs[n])
      <4>1. service = "press" /\ rowFavs[n] = "button"
        <5>1. rowEntities[n].domain = rowFavs[n]
          BY <3>2 DEF RowTrue
        <5>2. service # ""
          BY Zenon DEF HS!Select
        <5> QED
          BY <3>7, <5>1, <5>2, Zenon DEF HS!PrimaryService
      <4>2. e.state = actual[n].state
        <5>1. actual[n].state # "unknown"
          BY <3>1, <4>1 DEF HS!Misjudged
        <5>2. e = actual[n] \/ e = [actual[n] EXCEPT !.state = actual[n].state]
          BY <4>1, <5>1 DEF HS!Served
        <5> QED
          BY <1>2, <5>2 DEF Real
      <4> QED
        BY <2>2, <2>3, <3>2, <3>3, <3>4, <3>7, <4>2 DEF RowTrue
    <3> QED
      BY <3>5, <3>6, <3>7
  <2>5. \A i : i # n /\ i \in rowExcused => i \in rowExcused'
    BY <1>4
  <2> HIDE DEF e, service
  <2> QED
    BY <1>1, <2>1, <2>2, <2>3, <2>4, <2>5, RowsKept
<1> QED
  BY <1>3, <1>4 DEF HS!Select

\* The editors: the call, and the list fetched again.
LEMMA EditedRow ==
    ASSUME RowInv, NEW n \in DOMAIN rowFavs, NEW service, NEW level \in 0..100,
           HS!Edited(n, service, level)
    PROVE  RowInv'
<1>1. rowFavs' = rowFavs /\ rowFavs \in Seq(STRING) /\ Reals(actual)
  BY DEF HS!Edited, RowInv
<1>2. CASE HS!Unanswered(n, service, level)
  BY <1>1, <1>2, UnansweredStep
<1>3. CASE HS!Arrives(n, service, level) /\ HS!HomeRender
  <2> DEFINE e == HS!Served(actual[n], rowFavs[n], service, level)
  <2>1. Real(e)
    BY <1>1, ServedReal DEF Reals
  <2>2. actual' = [actual EXCEPT ![n] = e]
    BY <1>3 DEF HS!Arrives
  <2> HIDE DEF e
  <2>3. Reals(actual')
    BY <1>1, <2>1, <2>2 DEF Reals
  <2> QED
    BY <1>1, <1>3, <2>3, RowsRendered
<1> QED
  BY <1>2, <1>3 DEF HS!Edited

\* Somebody else switches an entity.
LEMMA ElsewhereRow ==
    ASSUME RowInv, NEW n \in DOMAIN rowFavs, NEW s, HS!Elsewhere(n, s)
    PROVE  RowInv'
<1> DEFINE e == [actual[n] EXCEPT !.state = s]
<1>1. /\ actual' = [actual EXCEPT ![n] = e] /\ rowExcused' = rowExcused \cup {n}
      /\ rowFavs' = rowFavs /\ rowEntities' = rowEntities
  BY DEF HS!Elsewhere
<1>2. Real(actual[n])
  BY DEF RowInv, Reals
<1>3. Real(e)
  BY <1>2 DEF Real
<1> HIDE DEF e
<1>4. n \in DOMAIN rowEntities => Row(rowEntities'[n])
  BY <1>1 DEF RowInv, Reals
<1> QED
  BY <1>1, <1>3, <1>4, RowsKept

\* Each action keeps the rows true.
LEMMA RowStep ==
    ASSUME RowInv, HS!Next
    PROVE  RowInv'
<1>1. CASE HS!Render
  <2>1. /\ rowFavs' = rowFavs /\ rowFavs \in Seq(STRING)
        /\ Reals(actual') /\ HS!HomeRender
    BY <1>1 DEF HS!Render, RowInv, Reals
  <2> QED
    BY <2>1, RowsRendered
<1>2. ASSUME NEW n \in DOMAIN rowFavs,
             \E s \in HS!AllStates : HS!Elsewhere(n, s)
      PROVE  RowInv'
  BY <1>2, ElsewhereRow
<1>3. ASSUME NEW n \in DOMAIN rowFavs, NEW black, HS!SetColor(n, black) PROVE RowInv'
  <2>1. \E service : HS!Edited(n, service, 0)
    BY <1>3 DEF HS!SetColor
  <2>2. 0 \in 0..100
    OBVIOUS
  <2> QED
    BY <2>1, <2>2, EditedRow
<1>4. ASSUME NEW n \in DOMAIN rowFavs, NEW level \in Levels,
             HS!SetLight(n, level) \/ HS!SetCover(n, level)
      PROVE  RowInv'
  <2>1. \E service : HS!Edited(n, service, level)
    BY <1>4 DEF HS!SetLight, HS!SetCover
  <2>2. level \in 0..100
    BY RowsAssumption
  <2> QED
    BY <2>1, <2>2, EditedRow
<1> QED
  BY <1>1, <1>2, <1>3, <1>4, SelectRow DEF HS!Next

\* Nothing is shown at the start.
LEMMA RowInit == HS!Init => RowInv
<1> SUFFICES ASSUME HS!Init PROVE RowInv
  OBVIOUS
<1>1. rowFavs \in Seq(STRING) /\ rowEntities = <<>>
  BY RowsAssumption DEF HS!Init
<1>2. Reals(actual)
  <2>1. actual \in [DOMAIN rowFavs -> [state : HS!AllStates, level : {100}]]
    BY DEF HS!Init
  <2>2. \A e \in [state : HS!AllStates, level : {100}] : Real(e)
    BY DEF Real
  <2> QED
    BY <2>1, <2>2 DEF Reals
<1>3. DOMAIN rowEntities = {}
  BY <1>1, EmptyFacts
<1> QED
  BY <1>1, <1>2, <1>3 DEF RowInv, Reals

\* The invariant is what a row says.
LEMMA RowsTrue == RowInv => HS!LabelTrue
<1> SUFFICES ASSUME RowInv, NEW n \in DOMAIN rowEntities \ rowExcused
             PROVE  LET says == HS!Label(rowEntities[n].domain, rowEntities[n].state,
                                         rowEntities[n].pct)
                        real  == HS!Label(rowFavs[n], actual[n].state, actual[n].level)
                    IN  /\ says.glyph = real.glyph
                        /\ says.pct # -1 => says.pct = real.pct
  BY DEF HS!LabelTrue
<1>1. /\ RowTrue(rowEntities[n], rowFavs[n], actual[n])
      /\ Row(rowEntities[n]) /\ Real(actual[n])
  BY DEF RowInv, Reals
<1>2. HS!Runs(rowFavs[n]) => ~HS!Readonly(rowFavs[n]) /\ rowFavs[n] # "light"
  BY DEF HS!Runs, HS!Readonly
<1> QED
  BY <1>1, <1>2 DEF RowTrue, Row, Real, HS!Label, HS!Glyph


-----------------------------------------------------------------------------
(* home_assistant: the modes the climate editor offers.                    *)

\* The slots of an open editor are those of the device.
SlotsInv == st.open => "slots" \in DOMAIN st /\ st.slots = CL!Slots(dev.modes)

\* resolve_mode_slots takes a preferred mode that the device has.
LEMMA FirstKnown ==
    \A prefs, modes : DOMAIN prefs \subseteq Nat =>
        \/ CL!FirstOf(prefs, modes) = CL!NoMode
        \/ \E n \in DOMAIN prefs : CL!FirstOf(prefs, modes) = prefs[n] /\ prefs[n] \in modes
<1> TAKE prefs, modes
<1> HAVE DOMAIN prefs \subseteq Nat
<1> DEFINE known == {n \in DOMAIN prefs : prefs[n] \in modes}
<1>1. CASE known = {}
  BY <1>1 DEF CL!FirstOf
<1>2. CASE known # {}
  <2>1. \E n \in known : \A k \in known : n <= k
    BY <1>2, LeastOf
  <2> DEFINE first == CHOOSE n \in known : \A k \in known : n <= k
  <2>2. first \in known
    BY <2>1
  <2>3. CL!FirstOf(prefs, modes) = prefs[first]
    BY <1>2 DEF CL!FirstOf
  <2> HIDE DEF first
  <2> QED
    BY <2>2, <2>3
<1> QED
  BY <1>1, <1>2

\* The slots offer different modes, and but for off those of the device.
LEMMA SlotsDiffer ==
    \A modes : LET s == CL!Slots(modes)
               IN  /\ \A i, j \in 1..3 : i # j /\ s[i] # CL!NoMode => s[i] # s[j]
                   /\ \A i \in 2..3 : s[i] \in modes \cup {CL!NoMode}
<1> TAKE modes
<1> DEFINE heats == <<"heat", "heat_cool", "auto", "dry", "fan_only">>
           cools == <<"cool", "auto", "heat_cool", "dry", "fan_only">>
           heat  == CL!FirstOf(heats, modes)
           cool  == CL!FirstOf(cools, modes \ ({heat} \ {"cool"}))
<1>1. CL!Slots(modes) = <<"off", heat, cool>>
  BY DEF CL!Slots
<1>2. DOMAIN heats \subseteq Nat /\ DOMAIN cools \subseteq Nat
  OBVIOUS
<1>3. /\ \A n \in DOMAIN heats : heats[n] \in {"heat", "heat_cool", "auto", "dry", "fan_only"}
      /\ \A n \in DOMAIN cools : cools[n] \in {"cool", "auto", "heat_cool", "dry", "fan_only"}
  OBVIOUS
<1> HIDE DEF heats, cools
<1>4. \/ heat = CL!NoMode
      \/ heat \in modes /\ heat \in {"heat", "heat_cool", "auto", "dry", "fan_only"}
  BY <1>2, <1>3, FirstKnown
<1> HIDE DEF heat
<1>5. \/ cool = CL!NoMode
      \/ /\ cool \in modes \ ({heat} \ {"cool"})
         /\ cool \in {"cool", "auto", "heat_cool", "dry", "fan_only"}
  BY <1>2, <1>3, FirstKnown
<1> HIDE DEF cool
<1>6. heat # "cool" /\ heat # "off" /\ cool # "off" /\ (cool # CL!NoMode => cool # heat)
  BY <1>4, <1>5 DEF CL!NoMode
<1>7. /\ CL!Slots(modes)[1] = "off" /\ CL!Slots(modes)[2] = heat
      /\ CL!Slots(modes)[3] = cool
  BY <1>1
<1>8. \A i \in 1..3 : i = 1 \/ i = 2 \/ i = 3
  OBVIOUS
<1>9. \A i \in 2..3 : i = 2 \/ i = 3
  OBVIOUS
<1>10. \A i, j \in 1..3 : i # j /\ CL!Slots(modes)[i] # CL!NoMode
                          => CL!Slots(modes)[i] # CL!Slots(modes)[j]
  BY <1>6, <1>7, <1>8
<1>11. \A i \in 2..3 : CL!Slots(modes)[i] \in modes \cup {CL!NoMode}
  BY <1>4, <1>5, <1>7, <1>9
<1> QED
  BY <1>10, <1>11

\* The device's modes stay while the editor is open.
LEMMA SlotsStep ==
    ASSUME SlotsInv, CL!Next
    PROVE  SlotsInv'
<1>1. CASE CL!Open
  BY <1>1 DEF CL!Open, CL!Opened, SlotsInv
<1>2. CASE st' = CL!NoClimate
  BY <1>2 DEF CL!NoClimate, SlotsInv
<1>3. ASSUME dev' = dev, st.open, NEW x,
             st' = [st EXCEPT !.mode = x] \/ st' = [st EXCEPT !.fan = x] \/ st' = st
      PROVE  SlotsInv'
  BY <1>3 DEF SlotsInv
<1>4. \/ CL!Open \/ st' = CL!NoClimate
      \/ /\ dev' = dev /\ st.open
         /\ \E x : st' = [st EXCEPT !.mode = x] \/ st' = [st EXCEPT !.fan = x] \/ st' = st
  BY DEF CL!Next, CL!NextFan, CL!Cancel, CL!Close, CL!Slide, CL!PickMode, CL!Commit
<1> QED
  BY <1>1, <1>2, <1>3, <1>4

\* What the user presses on the home list and the browse list, removes, sends
\* and keeps is what was seen and chosen; a row of the home list says what its
\* entity is, but for the rows LabelTrue excuses; the climate editor offers
\* different modes of its device.  For any entities, hosts, filters and
\* searches, and any number of them.
THEOREM HomeIsAsSeen == Spec => []HomeAsSeen
<1> DEFINE Inv == HomeInv /\ RowInv /\ SlotsInv
<1>1. Init => Inv
  <2>1. Init => HA!Init /\ HS!Init /\ CL!Init
    BY DEF Init
  <2>2. CL!Init => SlotsInv
    BY DEF CL!Init, CL!NoClimate, SlotsInv
  <2> QED
    BY <2>1, <2>2, HomeInit, RowInit
<1>2. Inv /\ [Next]_vars => Inv'
  <2> SUFFICES ASSUME Inv, [Next]_vars PROVE Inv'
    OBVIOUS
  <2>1. HomeInv'
    BY HomeStep, StepOfEach
  <2>2. RowInv'
    <3>1. CASE UNCHANGED hs
      BY <3>1 DEF hs, RowInv, Reals
    <3> QED
      BY <3>1, RowStep, StepOfEach
  <2>3. SlotsInv'
    <3>1. CASE UNCHANGED cl
      BY <3>1 DEF cl, SlotsInv
    <3> QED
      BY <3>1, SlotsStep, StepOfEach
  <2> QED
    BY <2>1, <2>2, <2>3
<1>3. Inv => HomeAsSeen
  <2> SUFFICES ASSUME Inv PROVE HomeAsSeen
    OBVIOUS
  <2>1. CL!SlotsDistinct
    BY SlotsDiffer DEF SlotsInv, CL!SlotsDistinct
  <2> QED
    BY <2>1, HomeInvSeen, RowsTrue DEF HomeAsSeen
<1> QED
  BY <1>1, <1>2, <1>3, PTL DEF Spec
=============================================================================
