--------------------------- MODULE ResolverProofs ---------------------------
(***************************************************************************)
(* What HandleRequest promises about its answers, for every set of names   *)
(* and records, every number of concurrent changes and every cap.          *)
(***************************************************************************)
EXTENDS Resolver, TLAPS

\* A leaf goes to Zenon unless it names SMT, for arithmetic and for records and
\* functions given by their values, or PTL, for the temporal steps.
USE ZenonT(60)

\* The name being looked up is the question's, or an alias in the answer led to it.
Led == currentQName = qname \/ \E c \in answer : c.type = "CNAME" /\ c.data = currentQName

\* Before the response is sent nothing has failed or been denied, the answer
\* holds CNAMEs only, and none at all with flattening; the current name is in
\* the zone unless an alias or a swap led out of it.
Open ==
    pc # "done" =>
        /\ res = "Success" /\ ~failed /\ authority = {}
        /\ \A rr \in answer : rr.type = "CNAME"
        /\ flat => answer = {}
        /\ flat \/ Led
        /\ pc \in {"idle", "zone"} => answer = {} /\ currentQName = qname
        /\ pc # "idle" /\ answer = {} /\ swaps = 0 => FindZone(currentQName) = zoneName
        /\ pc # "idle" => zoneName # Nil
        /\ pc = "caa" => qtype = "CAA"
        /\ pc = "aname" => qtype = "A"

AnswerInv == Open /\ AnswerIsConnected /\ NegativeAnswerHasSOA /\ FailureIsReported

\* What the tail of HandleRequest may do to the sections and the rcode: it adds
\* signatures and an NSEC, and an NXDOMAIN may become NOERROR.
LEMMA FinishFacts ==
    ASSUME NEW STATE ans, NEW STATE auth, NEW STATE add, NEW STATE r,
           Finish(ans, auth, add, r)
    PROVE  /\ pc' = "done"
           /\ ans \subseteq answer'
           /\ ans = {} => answer' = {}
           /\ \A rr \in answer' : rr \in ans \/ rr.type = "RRSIG"
           /\ auth \subseteq authority'
           /\ \A rr \in authority' : rr \in auth \/ rr.type \in {"NSEC", "RRSIG"}
           /\ r # "NameError" => res' = r
           /\ res' \in {r, "Success"}
<1> DEFINE signed == do /\ dnssec
           denial == signed /\ (r = "NameError" \/ (r = "Success" /\ ans = {}))
           S(rrs) == IF signed THEN Sign(rrs) ELSE rrs
<1>1. /\ answer' = S(ans)
      /\ authority' = S(auth \cup (IF denial THEN {NSec} ELSE {}))
      /\ res' = IF signed /\ r = "NameError" THEN "Success" ELSE r
      /\ pc' = "done"
  BY DEF Finish
<1>2. \A rrs : rrs \subseteq S(rrs)
  BY DEF Sign
<1>3. \A rrs : \A rr \in S(rrs) : rr \in rrs \/ rr.type = "RRSIG"
  BY SMT DEF Sign, RR
<1>4. ans = {} => S(ans) = {}
  BY DEF Sign
<1>5. auth \subseteq authority'
  BY <1>1, <1>2
<1>6. \A rr \in authority' : rr \in auth \/ rr.type \in {"NSEC", "RRSIG"}
  <2>1. NSec.type = "NSEC"
    BY SMT DEF NSec, RR
  <2> QED  BY <1>1, <1>3, <2>1
<1> QED  BY <1>1, <1>2, <1>3, <1>4, <1>5, <1>6

-----------------------------------------------------------------------------
\* Where the request stands decides which of its variables are filled in.
Placed ==
    /\ pc # "idle" => qname \in Names /\ currentQName \in Names
    /\ pc \notin {"idle", "done"} => zoneName \in ZoneNames
    /\ pc = "load" => location \in Labels
    /\ pc = "aname" => target \in Names
    /\ pc = "caa" => target \in Labels /\ up \in Ups

TypeInv == TypeOK /\ Placed

\* FindZone returns a listed zone or Nil, and a zone only for a dotted name.
LEMMA FindZoneFacts ==
    ASSUME NEW n \in Names, zones \subseteq ZoneNames
    PROVE  /\ FindZone(n) \in ZoneNames \cup {Nil}
           /\ FindZone(n) # Nil => Fqdn[n] = n
<1>1. CASE zones \cap Enclosing[n] = {}
  BY <1>1 DEF FindZone
<1>2. CASE zones \cap Enclosing[n] # {}
  <2> DEFINE found == zones \cap Enclosing[n]
  <2>0. found \in SUBSET Enclosing[n] /\ found # {}
    BY <1>2
  <2>1. PICK z \in found : found \subseteq Enclosing[z]
    <3> HIDE DEF found
    <3> QED  BY SMT, <2>0, EnclosingAssumption
  <2>2. FindZone(n) \in zones \cap Enclosing[n]
    BY <1>2, <2>1 DEF FindZone
  <2>3. Fqdn[n] = n
    BY <1>2, EnclosingAssumption
  <2> QED  BY <2>2, <2>3
<1> QED  BY <1>1, <1>2

\* The tail of HandleRequest builds well-formed sections from well-formed ones.
LEMMA FinishType ==
    ASSUME NEW STATE ans, NEW STATE auth, NEW STATE add, NEW STATE r,
           qname \in Names, ans \subseteq RRs, auth \subseteq RRs, add \subseteq RRs, r \in Rcodes,
           Finish(ans, auth, add, r)
    PROVE  /\ answer' \subseteq RRs /\ authority' \subseteq RRs /\ additional' \subseteq RRs
           /\ res' \in Rcodes /\ pc' = "done"
<1> DEFINE signed == do /\ dnssec
           denial == signed /\ (r = "NameError" \/ (r = "Success" /\ ans = {}))
           S(rrs) == IF signed THEN Sign(rrs) ELSE rrs
<1>1. /\ answer' = S(ans)
      /\ authority' = S(auth \cup (IF denial THEN {NSec} ELSE {}))
      /\ additional' = S(add)
      /\ res' = IF signed /\ r = "NameError" THEN "Success" ELSE r
      /\ pc' = "done"
  BY DEF Finish
<1>2. ASSUME NEW rrs, rrs \subseteq RRs  PROVE S(rrs) \subseteq RRs
  BY SMT, <1>2 DEF Sign, RR, RRs, RRTypes
<1>3. NSec \in RRs
  BY DEF NSec, RR, RRs, RRTypes
<1>4. auth \cup (IF denial THEN {NSec} ELSE {}) \subseteq RRs
  BY <1>3
<1>5. authority' \subseteq RRs
  BY <1>1, <1>2, <1>4
<1> QED  BY <1>1, <1>2, <1>5 DEF Rcodes

\* The same for an answer of one type, whose data are names or labels.
LEMMA AnswerWithType ==
    ASSUME NEW STATE type, NEW STATE data, NEW STATE r, TypeInv, pc \notin {"idle", "done"},
           type \in RRTypes, data \subseteq Names \cup Labels, r \in Rcodes,
           AnswerWith(type, data, r)
    PROVE  /\ answer' \subseteq RRs /\ authority' \subseteq RRs /\ additional' \subseteq RRs
           /\ res' \in Rcodes /\ pc' = "done"
<1> DEFINE owner == IF flat THEN qname ELSE currentQName
           ans == answer \cup {RR(owner, type, d) : d \in data}
           auth == IF data = {} /\ r = "Success" THEN {SOA} ELSE authority
<1>1. Finish(ans, auth, additional, r)
  BY DEF AnswerWith
<1>2. qname \in Names /\ owner \in Names /\ zoneName \in Names
  BY NamesAssumption DEF TypeInv, Placed
<1>3. ans \subseteq RRs
  BY SMT, <1>2 DEF TypeInv, TypeOK, RR, RRs
<1>4. auth \subseteq RRs
  BY SMT, <1>2 DEF TypeInv, TypeOK, SOA, RR, RRs, RRTypes
<1>5. additional \subseteq RRs
  BY DEF TypeInv, TypeOK
<1> HIDE DEF ans, auth
<1> QED  BY <1>1, <1>2, <1>3, <1>4, <1>5, FinishType

\* A step that sends the response keeps the types if it builds well-formed sections.
LEMMA DoneType ==
    ASSUME TypeInv, pc \notin {"idle", "done"}, pc' = "done",
           UNCHANGED <<environment, question, zoneVars, currentQName>>,
           answer' \subseteq RRs, authority' \subseteq RRs, additional' \subseteq RRs, res' \in Rcodes,
           loopCount' \in 0 .. MaxLoop + 1, target' = target, up' = up, failed' \in BOOLEAN
    PROVE  TypeInv'
BY DEF TypeInv, TypeOK, Placed, environment, question, zoneVars

\* The initial states are well-typed.
LEMMA TypeInit == Init => TypeInv
<1> SUFFICES ASSUME Init PROVE TypeInv
  OBVIOUS
<1>1. db \in [Labels -> Record]
  BY LocationAssumption DEF Init
<1>2. swaps \in Nat /\ writes \in Nat /\ swaps + writes <= MaxChanges
      /\ loopCount \in 0 .. MaxLoop + 1
  BY SMT, BoundAssumption DEF Init
<1>3. Placed
  BY DEF Init, Placed
<1> QED  BY <1>1, <1>2, <1>3 DEF Init, TypeInv, TypeOK, Rcodes

\* Every step keeps the types: HandleRequest, its loop, FindANAME and FindCAA.
LEMMA TypeNext == TypeInv /\ [Next]_vars => TypeInv'
<1> SUFFICES ASSUME TypeInv, [Next]_vars PROVE TypeInv'
  OBVIOUS
<1> DEFINE Sections == /\ answer' \subseteq RRs /\ authority' \subseteq RRs
                       /\ additional' \subseteq RRs /\ res' \in Rcodes /\ pc' = "done"
<1> USE BoundAssumption
<1>0. /\ zones \subseteq ZoneNames /\ db \in [Labels -> Record] /\ loopCount \in 0 .. MaxLoop + 1
      /\ answer \subseteq RRs /\ authority \subseteq RRs /\ additional \subseteq RRs /\ res \in Rcodes
  BY DEF TypeInv, TypeOK
<1>1. ASSUME NEW n \in Names, NEW t \in QTypes, NEW d \in BOOLEAN, HandleRequest(n, t, d)
      PROVE  TypeInv'
  <2>1. FindZone(n) \in ZoneNames \cup {Nil}
    BY <1>0, FindZoneFacts
  <2> QED  BY <1>1, <2>1 DEF HandleRequest, TypeInv, TypeOK, Placed, Rcodes, environment
<1>2. CASE LoadZone
  <2>1. /\ pc = "zone" /\ pc' \in {"done", "loop"} /\ res' \in Rcodes
        /\ UNCHANGED <<environment, question, zoneName, cursor, answer, authority, additional>>
    BY <1>0, <1>2 DEF LoadZone, Rcodes
  <2>2. flat' \in BOOLEAN /\ dnssec' \in BOOLEAN /\ failed' \in BOOLEAN
    BY <1>2 DEF LoadZone, TypeInv, TypeOK
  <2> QED
    BY <2>1, <2>2 DEF TypeInv, TypeOK, Placed, environment, question, cursor
<1>3. CASE FindLocation
  <2>1. pc = "loop" /\ qname \in Names /\ currentQName \in Names /\ zoneName \in ZoneNames
    BY <1>3 DEF FindLocation, LoopHead, TypeInv, Placed
  <2>2. {SOA} \subseteq RRs
    BY SMT, <2>1, NamesAssumption DEF SOA, RR, RRs, RRTypes
  <2>3. UNCHANGED <<environment, question, zoneVars, currentQName, target, up, failed>>
    BY <1>3 DEF FindLocation, LoopHead
  <2>4. loopCount' \in 0 .. MaxLoop + 1
    BY SMT, <1>0, <1>3 DEF FindLocation, LoopHead
  <2>5. CASE pc' = "load" /\ UNCHANGED sections /\ location # Nil
    <3>1. location \in Labels /\ location' = location
      BY <2>1, <2>3, <2>5, LocationAssumption DEF location, zoneVars
    <3> QED
      BY <2>1, <2>3, <2>4, <2>5, <3>1
      DEF TypeInv, TypeOK, Placed, environment, question, zoneVars, sections
  <2>6. CASE \/ Finish({}, authority, additional, "ServFail")
             \/ Finish(answer, authority, additional, "Success")
             \/ Finish(answer, {SOA}, additional, "NameError")
    <3>1. "ServFail" \in Rcodes /\ "Success" \in Rcodes /\ "NameError" \in Rcodes /\ {} \subseteq RRs
      BY DEF Rcodes
    <3>2. Sections
      BY SMT, <1>0, <2>1, <2>2, <2>6, <3>1, FinishType
    <3>3. failed \in BOOLEAN
      BY DEF TypeInv, TypeOK
    <3> QED  BY <2>1, <2>3, <2>4, <3>2, <3>3, DoneType
  <2> QED  BY <1>3, <2>5, <2>6 DEF FindLocation, LoopHead
<1>4. CASE LoadFails
  <2>1. Sections
    BY <1>0, <1>4, FinishType DEF LoadFails, TypeInv, Placed, Rcodes
  <2> QED  BY <1>0, <1>4, <2>1, DoneType DEF LoadFails, cursor
<1>5. ASSUME pc = "load"
      PROVE  /\ qname \in Names /\ currentQName \in Names /\ zoneName \in ZoneNames
             /\ zoneName \in Names /\ location \in Labels
             /\ currentRecord \in Record
  BY <1>0, <1>5, NamesAssumption DEF TypeInv, Placed, currentRecord
<1>6. CASE FollowCNAME
  <2> DEFINE host == currentRecord.cname
             ans(n) == answer \cup {RR(n, "CNAME", Fqdn[host])}
  <2>1. pc = "load" /\ host \in Names /\ Fqdn[host] \in Names
    BY <1>5, <1>6, NamesAssumption DEF FollowCNAME, IsAlias, Record
  <2>2. ans(qname) \subseteq RRs /\ ans(currentQName) \subseteq RRs
    BY SMT, <1>0, <1>5, <2>1 DEF RR, RRs, RRTypes
  <2>3. UNCHANGED <<environment, question, zoneVars, loopCount, target, up, failed>>
    BY <1>6 DEF FollowCNAME
  <2>4. CASE Finish(ans(qname), authority, additional, res) /\ UNCHANGED currentQName
    <3>1. Sections
      BY SMTT(30), <1>0, <1>5, <2>1, <2>2, <2>4, FinishType
    <3>2. failed \in BOOLEAN
      BY DEF TypeInv, TypeOK
    <3> QED  BY <1>0, <2>1, <2>3, <2>4, <3>1, <3>2, DoneType
  <2>5. CASE /\ answer' = answer \/ answer' = ans(currentQName)
             /\ currentQName' = Fqdn[host] /\ pc' = "loop"
             /\ UNCHANGED <<authority, additional, res>>
    BY SMT, <1>0, <1>5, <2>1, <2>2, <2>3, <2>5
    DEF TypeInv, TypeOK, Placed, environment, question, zoneVars
  <2> QED  BY <1>6, <2>4, <2>5 DEF FollowCNAME
<1>7. CASE Delegation
  <2> DEFINE glue == {h \in Names : Location[zoneName][h] \in Labels}
  <2>1. pc = "load" /\ Hosts \subseteq Names
    BY <1>5, <1>7 DEF Delegation, Hosts, Record
  <2>2. PICK given \in SUBSET glue :
          Finish(answer, authority \cup {RR(currentQName, "NS", Fqdn[h]) : h \in Hosts},
                 additional \cup {RR(h, "A", Location[zoneName][h]) : h \in given}, res)
    <3> DEFINE inside == {h \in Hosts : Location[zoneName][h] # Nil}
               Given(loaded) == {g \in loaded : db[Location[zoneName][g]].a = "some"}
    <3>1. PICK loaded \in (IF Fails THEN SUBSET inside ELSE {inside}) :
          Finish(answer, authority \cup {RR(currentQName, "NS", Fqdn[h]) : h \in Hosts},
                 additional \cup {RR(h, "A", Location[zoneName][h]) : h \in Given(loaded)}, res)
      BY <1>7 DEF Delegation
    <3>2. inside \subseteq glue
      BY SMT, <1>5, <2>1, LocationAssumption
    <3>3. Given(loaded) \in SUBSET glue
      BY <3>1, <3>2
    <3> HIDE DEF Given
    <3> QED  BY <3>1, <3>3
  <2>3. authority \cup {RR(currentQName, "NS", Fqdn[h]) : h \in Hosts} \subseteq RRs
    BY SMT, <1>0, <1>5, <2>1, NamesAssumption DEF RR, RRs, RRTypes
  <2>4. additional \cup {RR(h, "A", Location[zoneName][h]) : h \in given} \subseteq RRs
    BY SMT, <1>0 DEF RR, RRs, RRTypes
  <2>5. Sections
    BY SMT, <1>0, <1>5, <2>1, <2>2, <2>3, <2>4, FinishType
  <2>6. failed' \in BOOLEAN
    BY <1>7 DEF Delegation, TypeInv, TypeOK
  <2> QED  BY <1>0, <1>7, <2>1, <2>5, <2>6, DoneType DEF Delegation, cursor
<1>8. CASE Answer
  <2>1. pc = "load" /\ UNCHANGED <<environment, question, zoneVars, cursor, failed>>
    BY <1>8 DEF Answer
  <2> DEFINE hosts == {Fqdn[h] : h \in {currentRecord.cname} \ {Nil}}
             servers == {Fqdn[h] : h \in Hosts}
  <2>2. hosts \subseteq Names /\ servers \subseteq Names
    BY SMT, <1>5, <2>1, NamesAssumption DEF Record, Hosts
  <2>3. {location} \subseteq Names \cup Labels /\ {} \subseteq Names \cup Labels
        /\ hosts \subseteq Names \cup Labels /\ servers \subseteq Names \cup Labels
    BY <1>5, <2>1, <2>2
  <2>4. {"A", "CNAME", "NS", "TXT", "CAA"} \subseteq RRTypes /\ "NotImplemented" \in Rcodes
    BY DEF RRTypes, Rcodes
  <2>5. CASE \/ AnswerWith("A", {location}, res) \/ AnswerWith("A", {}, res)
             \/ AnswerWith("CNAME", hosts, res) \/ AnswerWith("NS", servers, res)
             \/ AnswerWith("TXT", {location}, res) \/ AnswerWith("TXT", {}, res)
             \/ AnswerWith("CAA", {location}, res)
    <3>1. Sections
      <4> HIDE DEF hosts, servers
      <4> QED  BY <1>0, <2>1, <2>3, <2>4, <2>5, AnswerWithType
    <3> QED  BY <1>0, <2>1, <3>1, DoneType DEF TypeInv, TypeOK, cursor
  <2>6. CASE \/ Finish(answer \cup {SOA}, authority, additional, res)
             \/ Finish(answer \cup {RR(zoneName, "DNSKEY", Nil)}, authority, additional, res)
             \/ Finish(answer, {SOA}, additional, res)
             \/ Finish({}, {SOA}, additional, "NotImplemented")
    <3>1. SOA \in RRs /\ RR(zoneName, "DNSKEY", Nil) \in RRs
      BY <1>5, <2>1 DEF SOA, RR, RRs, RRTypes
    <3>2. /\ answer \cup {SOA} \subseteq RRs /\ answer \cup {RR(zoneName, "DNSKEY", Nil)} \subseteq RRs
          /\ {SOA} \subseteq RRs /\ {} \subseteq RRs
      BY <1>0, <3>1
    <3>3. Sections
      BY SMT, <1>0, <1>5, <2>1, <2>4, <2>6, <3>2, FinishType
    <3> QED  BY <1>0, <2>1, <3>3, DoneType DEF TypeInv, TypeOK, cursor
  <2> QED  BY <1>8, <2>5, <2>6 DEF Answer
<1>9. CASE StartANAME
  <2>1. pc = "load" /\ currentRecord.aname \in Names
    BY <1>5, <1>9 DEF StartANAME, Record
  <2> QED
    BY SMT, <1>5, <1>9, <2>1
    DEF StartANAME, TypeInv, TypeOK, Placed, environment, question, zoneVars, sections
<1>10. CASE FindANAME
  <2>1. /\ pc = "aname" /\ target \in Names
        /\ UNCHANGED <<environment, question, zoneVars, currentQName, up>>
    BY <1>10 DEF FindANAME, ANAMEStep, TypeInv, Placed
  <2>2. loopCount' \in 0 .. MaxLoop + 1
    <3>1. loopCount' = IF loopCount > MaxLoop THEN loopCount ELSE loopCount + 1
      BY <1>10 DEF FindANAME, ANAMEStep
    <3> QED  BY SMT, <1>0, <3>1
  <2> DEFINE z == FindZone(target)
             l == IF z = Nil THEN Nil ELSE Location[z][target]
             r == db[l]
  <2>3. l \in Labels \cup {Nil} /\ (l # Nil => r \in Record)
    BY SMT, <1>0, <2>1, FindZoneFacts, LocationAssumption
  <2>4. CASE /\ \E ips \in SUBSET (Names \cup Labels), c \in {"ServFail", "Success"} :
                   AnswerWith("A", ips, c)
             /\ target' = target /\ failed' \in BOOLEAN
    <3>1. "A" \in RRTypes /\ "ServFail" \in Rcodes /\ "Success" \in Rcodes
      BY DEF RRTypes, Rcodes
    <3>2. Sections
      BY <2>1, <2>4, <3>1, AnswerWithType
    <3> QED  BY <2>1, <2>2, <2>4, <3>2, DoneType
  <2>5. CASE target' \in Names /\ UNCHANGED <<pc, sections, failed>>
    BY <1>0, <2>1, <2>2, <2>5
    DEF TypeInv, TypeOK, Placed, environment, question, zoneVars, sections
  <2>6. failed \in BOOLEAN /\ {} \in SUBSET (Names \cup Labels)
        /\ {target} \in SUBSET (Names \cup Labels) /\ (l # Nil => {l} \in SUBSET (Names \cup Labels))
    BY <2>1, <2>3 DEF TypeInv, TypeOK
  <2>7. l # Nil /\ (r.cname # Nil \/ r.aname # Nil) =>
          (IF r.cname # Nil THEN r.cname ELSE r.aname) \in Names
    BY <2>3 DEF Record
  <2>8. \/ /\ AnswerWith("A", {}, "ServFail")
           /\ target' = target /\ (failed' = failed \/ failed' = TRUE)
        \/ /\ \E ips \in {{}, {target}} : AnswerWith("A", ips, "Success")
           /\ target' = target /\ failed' = failed
        \/ /\ l # Nil /\ (r.cname # Nil \/ r.aname # Nil)
           /\ target' = IF r.cname # Nil THEN r.cname ELSE r.aname
           /\ UNCHANGED <<pc, sections, failed>>
        \/ /\ l # Nil /\ AnswerWith("A", IF r.a = "some" THEN {l} ELSE {}, "Success")
           /\ target' = target /\ failed' = failed
    BY <1>10 DEF FindANAME, ANAMEStep
  <2> HIDE DEF z, l, r
  <2> QED  BY <2>4, <2>5, <2>6, <2>7, <2>8
<1>11. CASE StartCAA
  <2>1. pc = "load" /\ location \in Labels
    BY <1>5, <1>11 DEF StartCAA
  <2> QED
    BY <1>5, <1>11, <2>1
    DEF StartCAA, TypeInv, TypeOK, Placed, environment, question, zoneVars, sections
<1>12. CASE FindCAA
  <2> DEFINE parent == up[target]
             l == IF parent = Top THEN Location[zoneName][zoneName] ELSE parent
  <2>1. /\ pc = "caa" /\ target \in Labels /\ up \in Ups
        /\ UNCHANGED <<environment, question, zoneVars, loopCount, currentQName, up>>
    BY <1>12 DEF FindCAA, CAAStep, TypeInv, Placed
  <2>2. parent # Nil => l \in Labels
    BY <2>1, LocationAssumption, UpsAssumption DEF TypeInv, Placed
  <2>3. failed \in BOOLEAN /\ "CAA" \in RRTypes /\ {} \subseteq Names \cup Labels
        /\ (parent # Nil => {l} \subseteq Names \cup Labels)
    BY <2>2 DEF TypeInv, TypeOK, RRTypes
  <2>4. CASE /\ AnswerWith("CAA", {}, res) \/ (parent # Nil /\ AnswerWith("CAA", {l}, res))
             /\ target' = target /\ (failed' = failed \/ failed' = TRUE)
    <3>1. Sections
      <4> HIDE DEF parent, l
      <4> QED  BY <1>0, <2>1, <2>3, <2>4, AnswerWithType
    <3> QED  BY <1>0, <2>1, <2>3, <2>4, <3>1, DoneType
  <2>5. CASE parent # Nil /\ target' = l /\ UNCHANGED <<pc, sections, failed>>
    BY <2>1, <2>2, <2>5
    DEF TypeInv, TypeOK, Placed, environment, question, zoneVars, sections
  <2> QED  BY <1>12, <2>4, <2>5 DEF FindCAA, CAAStep
<1>13. CASE SwapZones
  <2>1. zones' \subseteq ZoneNames /\ swaps' \in Nat /\ swaps' + writes <= MaxChanges
    BY SMT, <1>13 DEF SwapZones, TypeInv, TypeOK
  <2>2. location' = location
    BY <1>13 DEF SwapZones, location, zoneVars, cursor
  <2> QED
    BY SMT, <1>13, <2>1, <2>2
    DEF SwapZones, TypeInv, TypeOK, Placed, question, zoneVars, cursor, sections
<1>14. ASSUME NEW l \in Labels, WriteRecord(l)  PROVE TypeInv'
  <2>1. writes' \in Nat /\ swaps + writes' <= MaxChanges
    BY SMT, <1>14 DEF WriteRecord, TypeInv, TypeOK
  <2>2. db' \in [Labels -> Record]
    BY <1>0, <1>14, LocationAssumption DEF WriteRecord
  <2>3. location' = location
    BY <1>14 DEF WriteRecord, location, zoneVars, cursor
  <2> QED
    BY SMTT(30), <1>14, <2>1, <2>2, <2>3
    DEF WriteRecord, TypeInv, TypeOK, Placed, question, zoneVars, cursor, sections
<1>15. CASE UNCHANGED vars
  <2>1. location' = location
    BY <1>15 DEF vars, location, zoneVars, cursor
  <2> QED
    BY SMT, <1>15, <2>1 DEF vars, TypeInv, TypeOK, Placed, environment, question, zoneVars, cursor, sections
<1> HIDE DEF TypeInv
<1> QED
  BY <1>1, <1>2, <1>3, <1>4, <1>6, <1>7, <1>8, <1>9, <1>10, <1>11, <1>12, <1>13, <1>14, <1>15
  DEF Next, Ask, Step

\* Type correctness of HandleRequest's state, the bound on its loop counters included.
THEOREM TypeCorrect == Spec => []TypeOK
<1>1. TypeInv => TypeOK
  BY DEF TypeInv
<1> QED  BY <1>1, TypeInit, TypeNext, PTL DEF Spec

-----------------------------------------------------------------------------
\* A step that leaves the world, the question and the current name alone looks
\* at the same record.
LEMMA SameRecord ==
    ASSUME UNCHANGED <<environment, question, zoneVars, currentQName>>
    PROVE  (IsAlias' <=> IsAlias) /\ (IsDelegated' <=> IsDelegated) /\ Hosts' = Hosts
BY DEF environment, question, zoneVars, IsAlias, IsDelegated, Hosts, currentRecord, location

\* An authority section that refers to every name server of the current name.
RefersBy(auth) ==
    /\ ~IsAlias /\ IsDelegated
    /\ SOA \notin auth
    /\ \A h \in Hosts : RR(currentQName, "NS", Fqdn[h]) \in auth

\* A response keeps the promises if what the loop hands to the tail of
\* HandleRequest does: connected RRs, an SOA or a referral with an empty answer,
\* SERVFAIL or a referral after a failure.
LEMMA FinishKeeps ==
    ASSUME NEW STATE ans, NEW STATE auth, NEW STATE add, NEW STATE r,
           Finish(ans, auth, add, r), UNCHANGED <<environment, question, zoneVars, currentQName>>,
           \A rr \in ans : rr.type \notin {"SOA", "DNSKEY", "RRSIG"} =>
               \/ rr.owner = qname
               \/ ~flat /\ \E c \in ans : c.type = "CNAME" /\ c.data = rr.owner,
           r \in {"Success", "NameError"} /\ ans = {} /\ swaps = 0 =>
               \/ \E rr \in auth : rr = SOA \/ rr.type = "NS"
               \/ ~IsAlias /\ IsDelegated /\ Hosts = {},
           failed' /\ qtype # "CAA" => r = "ServFail" \/ (r = "Success" /\ RefersBy(auth))
    PROVE  AnswerInv'
<1>1. /\ pc' = "done"
      /\ ans \subseteq answer'
      /\ ans = {} => answer' = {}
      /\ \A rr \in answer' : rr \in ans \/ rr.type = "RRSIG"
      /\ auth \subseteq authority'
      /\ \A rr \in authority' : rr \in auth \/ rr.type \in {"NSEC", "RRSIG"}
      /\ r # "NameError" => res' = r
      /\ res' \in {r, "Success"}
  BY FinishFacts
<1>2. /\ qname' = qname /\ qtype' = qtype /\ flat' = flat /\ zoneName' = zoneName /\ swaps' = swaps
      /\ SOA' = SOA /\ currentQName' = currentQName
  BY DEF environment, question, zoneVars, SOA
<1>a. (IsAlias' <=> IsAlias) /\ (IsDelegated' <=> IsDelegated) /\ Hosts' = Hosts
  BY SameRecord
<1>3. Open'
  BY <1>1 DEF Open
<1>4. AnswerIsConnected'
  BY <1>1, <1>2 DEF AnswerIsConnected
<1>5. NegativeAnswerHasSOA'
  <2> SUFFICES ASSUME res' \in {"Success", "NameError"}, answer' = {}, swaps' = 0
               PROVE  \/ \E rr \in authority' : rr = SOA' \/ rr.type = "NS"
                      \/ ~IsAlias' /\ IsDelegated' /\ Hosts' = {}
    BY DEF NegativeAnswerHasSOA
  <2>1. r \in {"Success", "NameError"} /\ ans = {} /\ swaps = 0
    BY <1>1, <1>2
  <2> QED  BY <1>1, <1>2, <1>a, <2>1
<1>6. FailureIsReported'
  <2> SUFFICES ASSUME failed', qtype' # "CAA"
               PROVE  res' = "ServFail" \/ (res' = "Success" /\ IsReferral')
    BY DEF FailureIsReported
  <2>1. CASE r = "ServFail"
    BY <1>1, <2>1
  <2>2. CASE r = "Success" /\ RefersBy(auth)
    <3>1. SOA.type = "SOA"
      BY SMT DEF SOA, RR
    <3>2. SOA \notin authority'
      BY <1>1, <2>2, <3>1 DEF RefersBy
    <3>3. \A h \in Hosts : RR(currentQName, "NS", Fqdn[h]) \in authority'
      BY <1>1, <2>2 DEF RefersBy
    <3>4. IsReferral'
      BY <1>2, <1>a, <2>2, <3>2, <3>3 DEF IsReferral, RefersBy
    <3> QED  BY <1>1, <2>2, <3>4
  <2> QED  BY <1>2, <2>1, <2>2
<1> QED  BY <1>3, <1>4, <1>5, <1>6 DEF AnswerInv

\* An answer of one type keeps the promises: its owner is the question's name or
\* the end of the alias chain, and without data comes the SOA.
LEMMA AnswerWithKeeps ==
    ASSUME NEW STATE type, NEW STATE data, NEW STATE r,
           AnswerInv, pc # "done", AnswerWith(type, data, r),
           UNCHANGED <<environment, question, zoneVars, currentQName>>,
           r \in {"Success", "ServFail"},
           failed' /\ qtype # "CAA" => r = "ServFail"
    PROVE  AnswerInv'
<1> DEFINE owner == IF flat THEN qname ELSE currentQName
           new == {RR(owner, type, d) : d \in data}
           auth == IF data = {} /\ r = "Success" THEN {SOA} ELSE authority
<1>1. Finish(answer \cup new, auth, additional, r)
  BY DEF AnswerWith
<1>2. \A rr \in new : \/ rr.owner = qname
                      \/ ~flat /\ \E c \in answer : c.type = "CNAME" /\ c.data = rr.owner
  BY SMT DEF AnswerInv, Open, Led, RR
<1>3. \A rr \in answer \cup new : rr.type \notin {"SOA", "DNSKEY", "RRSIG"} =>
         \/ rr.owner = qname
         \/ ~flat /\ \E c \in answer \cup new : c.type = "CNAME" /\ c.data = rr.owner
  BY <1>2 DEF AnswerInv, AnswerIsConnected
<1>4. answer \cup new = {} => data = {}
  OBVIOUS
<1>5. r \in {"Success", "NameError"} /\ answer \cup new = {} /\ swaps = 0 =>
         \E rr \in auth : rr = SOA \/ rr.type = "NS"
  BY <1>4
<1> HIDE DEF new, auth
<1> QED  BY <1>1, <1>3, <1>5, FinishKeeps

\* No request has been read yet in the initial states.
LEMMA AnswerInit == Init => AnswerInv
BY DEF Init, AnswerInv, Open, Led, AnswerIsConnected, NegativeAnswerHasSOA, FailureIsReported

\* Every step of HandleRequest, FindANAME, FindCAA and of the environment keeps
\* the promises.
LEMMA AnswerNext == TypeInv /\ AnswerInv /\ [Next]_vars => AnswerInv'
<1> SUFFICES ASSUME TypeInv, AnswerInv, [Next]_vars PROVE AnswerInv'
  OBVIOUS
<1>0. ASSUME pc # "done"
      PROVE  /\ res = "Success" /\ ~failed /\ authority = {}
             /\ \A rr \in answer : rr.type = "CNAME"
             /\ flat => answer = {}
             /\ flat \/ Led
             /\ pc \in {"idle", "zone"} => answer = {} /\ currentQName = qname
             /\ pc # "idle" /\ answer = {} /\ swaps = 0 => FindZone(currentQName) = zoneName
             /\ pc # "idle" => zoneName # Nil
             /\ pc = "caa" => qtype = "CAA"
             /\ pc = "aname" => qtype = "A"
  BY <1>0 DEF AnswerInv, Open
<1> DEFINE Connected(ans) ==
             \A rr \in ans : rr.type \notin {"SOA", "DNSKEY", "RRSIG"} =>
                \/ rr.owner = qname
                \/ ~flat /\ \E c \in ans : c.type = "CNAME" /\ c.data = rr.owner
<1>a. Connected(answer) /\ Connected({})
  BY DEF AnswerInv, AnswerIsConnected
\* A step inside the loop that changes nothing the invariant is about but pc.
<1>b. ASSUME pc \notin {"idle", "done"}, pc' \notin {"idle", "zone", "done"},
             pc' = "caa" => qtype = "CAA", pc' = "aname" => qtype = "A",
             UNCHANGED <<environment, question, zoneVars, currentQName, sections, failed>>
      PROVE  AnswerInv'
  <2>1. FindZone(currentQName)' = FindZone(currentQName)
    BY SMT, <1>b DEF FindZone, environment
  <2>2. Open'
    BY <1>b, <1>0, <2>1 DEF Open, Led, environment, question, zoneVars, sections
  <2>3. AnswerIsConnected'
    BY <1>a, <1>b DEF AnswerIsConnected, question, zoneVars, sections
  <2> QED
    BY <1>b, <2>2, <2>3 DEF AnswerInv, NegativeAnswerHasSOA, FailureIsReported
<1>1. ASSUME NEW n \in Names, NEW t \in QTypes, NEW d \in BOOLEAN, HandleRequest(n, t, d)
      PROVE  AnswerInv'
  <2>1. /\ pc = "idle" /\ qname' = n /\ currentQName' = n /\ zoneName' = FindZone(n)
        /\ \/ pc' = "done" /\ res' = "NotAuth"
           \/ pc' = "zone" /\ res' = "Success" /\ zoneName' # Nil
        /\ UNCHANGED <<environment, flat, answer, authority, failed>>
    BY <1>1 DEF HandleRequest
  <2>2. FindZone(currentQName)' = zoneName'
    BY SMT, <2>1 DEF FindZone, environment
  <2>3. answer' = {} /\ ~failed' /\ authority' = {}
    BY <1>0, <2>1
  <2> QED
    BY <2>1, <2>2, <2>3
    DEF AnswerInv, Open, Led, AnswerIsConnected, NegativeAnswerHasSOA, FailureIsReported
<1>2. CASE LoadZone
  <2>1. /\ pc = "zone"
        /\ \/ pc' = "done" /\ res' = "ServFail"
           \/ pc' = "loop" /\ UNCHANGED <<failed, res>>
        /\ UNCHANGED <<environment, question, zoneName, cursor, answer, authority>>
    BY <1>2 DEF LoadZone
  <2>2. FindZone(currentQName)' = FindZone(currentQName)
    BY SMT, <2>1 DEF FindZone, environment, cursor
  <2>3. answer = {} /\ currentQName = qname
    BY <1>0, <2>1
  <2> QED
    BY SMTT(30), <1>0, <2>1, <2>2, <2>3
    DEF AnswerInv, Open, Led, AnswerIsConnected, NegativeAnswerHasSOA, FailureIsReported,
        environment, question, cursor
<1>3. CASE FindLocation
  <2>1. pc = "loop" /\ UNCHANGED <<environment, question, zoneVars, currentQName, target, up, failed>>
    BY <1>3 DEF FindLocation, LoopHead
  <2>2. swaps' = swaps /\ ~failed'
    BY <1>0, <2>1 DEF environment
  <2>3. CASE Finish({}, authority, additional, "ServFail")
    BY SMT, <1>a, <2>1, <2>2, <2>3, FinishKeeps
  <2>4. CASE FindZone(currentQName) # zoneName /\ Finish(answer, authority, additional, "Success")
    <3>1. ~(answer = {} /\ swaps = 0)
      BY <1>0, <2>1, <2>4
    <3> QED  BY <1>a, <2>1, <2>2, <2>4, <3>1, FinishKeeps
  <2>5. CASE Finish(answer, {SOA}, additional, "NameError")
    BY <1>a, <2>1, <2>2, <2>5, FinishKeeps
  <2>6. CASE pc' = "load" /\ UNCHANGED sections
    BY <1>b, <2>1, <2>6
  <2> QED  BY <1>3, <2>3, <2>4, <2>5, <2>6 DEF FindLocation, LoopHead
<1>4. CASE LoadFails
  BY <1>4, <1>a, FinishKeeps DEF LoadFails, cursor
<1>6. CASE FollowCNAME
  <2> DEFINE host == currentRecord.cname
             ans(n) == answer \cup {RR(n, "CNAME", Fqdn[host])}
  <2>1. /\ pc = "load" /\ host # Nil
        /\ UNCHANGED <<environment, question, zoneVars, failed>>
    BY <1>6 DEF FollowCNAME, IsAlias
  <2>2. swaps' = swaps /\ ~failed' /\ res = "Success"
    BY <1>0, <2>1 DEF environment
  <2>3. CASE Finish(ans(qname), authority, additional, res) /\ UNCHANGED currentQName
    <3>0. RR(qname, "CNAME", Fqdn[host]) \in ans(qname)
      OBVIOUS
    <3>1. Connected(ans(qname))
      BY SMT, <1>a DEF RR
    <3> HIDE DEF ans
    <3> QED  BY <2>1, <2>2, <2>3, <3>0, <3>1, FinishKeeps
  <2>4. CASE /\ ~flat /\ answer' = ans(currentQName) /\ currentQName' = Fqdn[host]
             /\ pc' = "loop" /\ UNCHANGED <<authority, additional, res>>
    <3>1. Connected(answer')
      BY SMT, <1>0, <1>a, <2>1, <2>4 DEF Led, RR
    <3>2. AnswerIsConnected'
      BY <2>1, <3>1 DEF AnswerIsConnected, question, zoneVars
    <3>0. RR(currentQName, "CNAME", Fqdn[host]) \in answer'
      BY <2>4
    <3>a. Led'
      BY <2>4, <3>0 DEF Led, RR
    <3>b. \A rr \in answer' : rr.type = "CNAME"
      BY SMT, <1>0, <2>1, <2>4 DEF RR
    <3>4. Open'
      BY <1>0, <2>1, <2>2, <2>4, <3>0, <3>a, <3>b DEF Open, zoneVars
    <3> QED  BY <2>4, <3>2, <3>4 DEF AnswerInv, NegativeAnswerHasSOA, FailureIsReported
  <2>5. CASE /\ flat /\ FindZone(host) = zoneName /\ answer' = answer
             /\ currentQName' = Fqdn[host] /\ pc' = "loop" /\ UNCHANGED <<authority, additional, res>>
    <3>1. host \in Names /\ zones \subseteq ZoneNames
      BY <2>1 DEF TypeInv, TypeOK, Placed, currentRecord, Record
    <3>2. currentQName' = host
      BY <1>0, <2>1, <2>5, <3>1, FindZoneFacts
    <3>3. FindZone(currentQName)' = zoneName'
      BY SMT, <2>1, <2>5, <3>2 DEF FindZone, environment, zoneVars
    <3>4. Open'
      BY <1>0, <2>1, <2>2, <2>5, <3>3 DEF Open, zoneVars
    <3>5. AnswerIsConnected'
      BY <1>a, <2>1, <2>5 DEF AnswerIsConnected, question, zoneVars
    <3> QED  BY <2>5, <3>4, <3>5 DEF AnswerInv, NegativeAnswerHasSOA, FailureIsReported
  <2> QED  BY <1>6, <2>3, <2>4, <2>5 DEF FollowCNAME
<1>7. CASE Delegation
  <2>1. /\ pc = "load" /\ ~IsAlias /\ IsDelegated /\ res = "Success" /\ authority = {}
        /\ UNCHANGED <<environment, question, zoneVars, currentQName>>
    BY <1>0, <1>7 DEF Delegation, cursor
  <2> DEFINE auth == authority \cup {RR(currentQName, "NS", Fqdn[h]) : h \in Hosts}
  <2>2. PICK given :
          Finish(answer, auth,
                 additional \cup {RR(h, "A", Location[zoneName][h]) : h \in given}, res)
    BY <1>7 DEF Delegation
  <2>3. RefersBy(auth)
    <3>1. \A rr \in auth : rr.type = "NS"
      BY SMT, <2>1 DEF RR
    <3>2. SOA.type = "SOA"
      BY SMT DEF SOA, RR
    <3>3. SOA \notin auth
      BY <3>1, <3>2
    <3> QED  BY <2>1, <3>3 DEF RefersBy
  <2>4. (\E rr \in auth : rr.type = "NS") \/ Hosts = {}
    <3>1. ASSUME NEW h \in Hosts  PROVE \E rr \in auth : rr.type = "NS"
      <4>1. RR(currentQName, "NS", Fqdn[h]) \in auth
        OBVIOUS
      <4> QED  BY <4>1 DEF RR
    <3> QED  BY <3>1
  <2> HIDE DEF auth
  <2> QED  BY <1>a, <2>1, <2>2, <2>3, <2>4, FinishKeeps
<1>8. CASE Answer
  <2>1. pc = "load" /\ UNCHANGED <<environment, question, zoneVars, currentQName, failed>>
    BY <1>8 DEF Answer, cursor
  <2>2. swaps' = swaps /\ ~failed' /\ res = "Success"
    BY <1>0, <2>1 DEF environment
  <2>3. ASSUME NEW STATE type, NEW STATE data, AnswerWith(type, data, res)  PROVE AnswerInv'
    BY <2>1, <2>2, <2>3, AnswerWithKeeps
  <2>4. ASSUME NEW STATE rr, rr.type \in {"SOA", "DNSKEY"},
               Finish(answer \cup {rr}, authority, additional, res)
        PROVE  AnswerInv'
    <3>1. Connected(answer \cup {rr})
      BY <1>a, <2>4
    <3> QED  BY <2>1, <2>2, <2>4, <3>1, FinishKeeps
  <2>5. SOA.type = "SOA" /\ RR(zoneName, "DNSKEY", Nil).type = "DNSKEY"
    BY DEF SOA, RR
  <2>6. CASE \/ Finish(answer, {SOA}, additional, res)
             \/ Finish({}, {SOA}, additional, "NotImplemented")
    BY SMT, <1>a, <2>1, <2>2, <2>6, FinishKeeps
  <2>7. CASE AnswerWith("A", IF currentRecord.a = "some" THEN {location} ELSE {}, res)
    BY <2>3, <2>7
  <2>8. CASE AnswerWith("CNAME", {Fqdn[h] : h \in {currentRecord.cname} \ {Nil}}, res)
    BY <2>3, <2>8
  <2>9. CASE AnswerWith("NS", {Fqdn[h] : h \in Hosts}, res)
    BY <2>3, <2>9
  <2>10. CASE AnswerWith("TXT", IF currentRecord.txt THEN {location} ELSE {}, res)
    BY <2>3, <2>10
  <2>11. CASE AnswerWith("CAA", {location}, res)
    BY <2>3, <2>11
  <2>12. CASE \/ Finish(answer \cup {SOA}, authority, additional, res)
              \/ Finish(answer \cup {RR(zoneName, "DNSKEY", Nil)}, authority, additional, res)
    BY SMT, <2>4, <2>5, <2>12
  <2> HIDE DEF AnswerInv
  <2> QED  BY <1>8, <2>6, <2>7, <2>8, <2>9, <2>10, <2>11, <2>12 DEF Answer
<1>9. CASE StartANAME
  BY <1>9, <1>b DEF StartANAME
<1>10. CASE FindANAME
  <2>1. pc = "aname" /\ UNCHANGED <<environment, question, zoneVars, currentQName>>
    BY <1>10 DEF FindANAME, ANAMEStep
  <2>2. swaps' = swaps /\ ~failed
    BY <1>0, <2>1 DEF environment
  <2>3. ASSUME NEW STATE data, NEW STATE r, AnswerWith("A", data, r),
               r = "ServFail" \/ (r = "Success" /\ failed' = failed)
        PROVE  AnswerInv'
    BY SMT, <2>1, <2>2, <2>3, AnswerWithKeeps
  <2>4. CASE UNCHANGED <<pc, sections, failed>>
    BY <1>0, <1>b, <2>1, <2>4
  <2> QED  BY <1>10, <2>3, <2>4 DEF FindANAME, ANAMEStep
<1>11. CASE StartCAA
  BY <1>11, <1>b DEF StartCAA
<1>12. CASE FindCAA
  <2>1. pc = "caa" /\ UNCHANGED <<environment, question, zoneVars, currentQName>>
    BY <1>12 DEF FindCAA, CAAStep
  <2>2. swaps' = swaps /\ res = "Success"
    BY <1>0, <2>1 DEF environment
  <2>3. ASSUME NEW STATE data, AnswerWith("CAA", data, res)  PROVE AnswerInv'
    BY <1>0, <2>1, <2>2, <2>3, AnswerWithKeeps
  <2>4. CASE UNCHANGED <<pc, sections, failed>>
    BY <1>0, <1>b, <2>1, <2>4
  <2> QED  BY <1>12, <2>3, <2>4 DEF FindCAA, CAAStep
<1>13. CASE SwapZones
  <2>1. /\ pc \notin {"idle", "done"} /\ swaps' = swaps + 1
        /\ UNCHANGED <<pc, question, zoneVars, cursor, sections, failed>>
    BY <1>13 DEF SwapZones
  <2>2. swaps' # 0
    BY SMT, <2>1 DEF TypeInv, TypeOK
  <2>3. Open'
    BY <1>0, <2>1, <2>2 DEF Open, Led, question, zoneVars, cursor, sections
  <2>4. AnswerIsConnected'
    BY <1>a, <2>1 DEF AnswerIsConnected, question, zoneVars, sections
  <2> QED  BY <2>1, <2>3, <2>4 DEF AnswerInv, NegativeAnswerHasSOA, FailureIsReported
<1>14. ASSUME NEW l \in Labels, WriteRecord(l)  PROVE AnswerInv'
  <2>1. /\ pc \notin {"idle", "done"}
        /\ UNCHANGED <<zones, swaps, pc, question, zoneVars, cursor, sections, failed>>
    BY <1>14 DEF WriteRecord
  <2>2. FindZone(currentQName)' = FindZone(currentQName)
    BY SMT, <2>1 DEF FindZone, cursor
  <2>3. Open'
    BY <1>0, <2>1, <2>2 DEF Open, Led, question, zoneVars, cursor, sections
  <2>4. AnswerIsConnected'
    BY <1>a, <2>1 DEF AnswerIsConnected, question, zoneVars, sections
  <2> QED  BY <2>1, <2>3, <2>4 DEF AnswerInv, NegativeAnswerHasSOA, FailureIsReported
<1>15. CASE UNCHANGED vars
  <2>1. UNCHANGED <<zones, swaps, pc, question, zoneVars, cursor, sections, failed>>
    BY <1>15 DEF vars, environment
  <2>2. FindZone(currentQName)' = FindZone(currentQName) /\ SOA' = SOA
    BY SMT, <2>1 DEF FindZone, cursor, SOA, zoneVars
  <2>3. Open'
    BY <2>1, <2>2 DEF AnswerInv, Open, Led, question, zoneVars, cursor, sections
  <2>4. AnswerIsConnected'
    BY <1>a, <2>1 DEF AnswerIsConnected, question, zoneVars, sections
  <2>a. (IsAlias' <=> IsAlias) /\ (IsDelegated' <=> IsDelegated) /\ Hosts' = Hosts
    BY <1>15, SameRecord DEF vars, cursor
  <2>b. IsReferral' <=> IsReferral
    BY <2>1, <2>2, <2>a DEF IsReferral, cursor, sections
  <2>5. NegativeAnswerHasSOA' /\ FailureIsReported'
    BY <2>1, <2>2, <2>a, <2>b DEF AnswerInv, NegativeAnswerHasSOA, FailureIsReported, question, sections
  <2> QED  BY <2>3, <2>4, <2>5 DEF AnswerInv
<1> HIDE DEF TypeInv, AnswerInv
<1> QED
  BY <1>1, <1>2, <1>3, <1>4, <1>6, <1>7, <1>8, <1>9, <1>10, <1>11, <1>12, <1>13, <1>14, <1>15
  DEF Next, Ask, Step

\* The invariant of a request, from its arrival to its response.
LEMMA AnswerInvariant == Spec => []AnswerInv
BY TypeInit, TypeNext, AnswerInit, AnswerNext, PTL DEF Spec

\* HandleRequest's answers hang together, whatever changes under the request.
THEOREM AnswerIsConnectedHolds == Spec => []AnswerIsConnected
<1>1. AnswerInv => AnswerIsConnected
  BY DEF AnswerInv
<1> QED  BY <1>1, AnswerInvariant, PTL

\* HandleRequest's negative answers carry the SOA unless the zone list was swapped.
THEOREM NegativeAnswerHasSOAHolds == Spec => []NegativeAnswerHasSOA
<1>1. AnswerInv => NegativeAnswerHasSOA
  BY DEF AnswerInv
<1> QED  BY <1>1, AnswerInvariant, PTL

\* HandleRequest and FindANAME report failures as SERVFAIL.
THEOREM FailureIsReportedHolds == Spec => []FailureIsReported
<1>1. AnswerInv => FailureIsReported
  BY DEF AnswerInv
<1> QED  BY <1>1, AnswerInvariant, PTL
-----------------------------------------------------------------------------
\* A step that leaves the world, the question and the current name alone looks
\* at the same record of the same zone.
LEMMA SameView ==
    ASSUME UNCHANGED <<environment, question, zoneVars, currentQName>>
    PROVE  /\ location' = location /\ db' = db /\ zones' = zones
           /\ FindZone(currentQName)' = FindZone(currentQName)
           /\ zoneName' = zoneName /\ flat' = flat /\ qname' = qname /\ qtype' = qtype
           /\ swaps' = swaps /\ writes' = writes
BY SMT DEF environment, question, zoneVars, location, FindZone

\* A change of the world disturbs the request.
LEMMA Disturbed ==
    ASSUME TypeInv, SwapZones \/ \E l \in Labels : WriteRecord(l)
    PROVE  ~Undisturbed' /\ pc' = pc /\ pc \notin {"idle", "done"}
<1>1. swaps \in Nat /\ writes \in Nat
  BY DEF TypeInv, TypeOK
<1>2. CASE SwapZones
  BY SMT, <1>1, <1>2 DEF SwapZones, Undisturbed
<1>3. CASE \E l \in Labels : WriteRecord(l)
  BY SMT, <1>1, <1>3 DEF WriteRecord, Undisturbed
<1> QED  BY <1>2, <1>3

\* FindCAA's climb: of the locations from the question's up to the current one
\* none has a CAA, and all but the last have handed on to another.
Climbed ==
    pc = "caa" /\ Undisturbed =>
        \E S \in SUBSET Labels :
            /\ location \in S /\ target \in S
            /\ \A l \in S : /\ ~db[l].caa
                            /\ l # target => up[l] # Top /\ (up[l] \in Labels => up[l] \in S)

\* Every step of HandleRequest and FindCAA keeps the climb and the truth of the denial.
LEMMA CAANext == TypeInv /\ AnswerInv /\ Climbed /\ CAADenialIsTrue /\ [Next]_vars
                    => Climbed' /\ CAADenialIsTrue'
<1> SUFFICES ASSUME TypeInv, AnswerInv, Climbed, CAADenialIsTrue, [Next]_vars
             PROVE  Climbed' /\ CAADenialIsTrue'
  OBVIOUS
<1>0. /\ pc # "done" => res = "Success"
      /\ pc \in {"load", "caa"} => location \in Labels \cup {Nil}
      /\ pc = "load" => location \in Labels
      /\ pc = "caa" => target \in Labels /\ up \in Ups /\ zoneName \in ZoneNames
  BY SMT, NamesAssumption, LocationAssumption DEF AnswerInv, Open, TypeInv, Placed, location
<1>a. ASSUME pc' \notin {"caa", "done"}  PROVE Climbed' /\ CAADenialIsTrue'
  BY <1>a DEF Climbed, CAADenialIsTrue, CAADenied
<1>b. ASSUME pc' = "done", qtype' # "CAA" \/ res' # "Success" \/ failed' \/ IsDelegated'
                           \/ \E rr \in answer' : rr.type = "CAA"
      PROVE  Climbed' /\ CAADenialIsTrue'
  BY <1>b DEF Climbed, CAADenialIsTrue, CAADenied, Undisturbed
<1>c. ASSUME NEW STATE type, NEW STATE data, NEW STATE r, AnswerWith(type, data, r),
             qtype' = qtype, qtype # "CAA" \/ (type = "CAA" /\ data # {})
      PROVE  Climbed' /\ CAADenialIsTrue'
  <2> DEFINE owner == IF flat THEN qname ELSE currentQName
             new == {RR(owner, type, d) : d \in data}
             auth == IF data = {} /\ r = "Success" THEN {SOA} ELSE authority
  <2>1. Finish(answer \cup new, auth, additional, r)
    BY <1>c DEF AnswerWith
  <2>2. ASSUME NEW d \in data  PROVE \E rr \in new : rr.type = type
    <3>1. RR(owner, type, d) \in new
      OBVIOUS
    <3> QED  BY <3>1 DEF RR
  <2> HIDE DEF new, auth
  <2>3. pc' = "done" /\ answer \cup new \subseteq answer'
    BY <2>1, FinishFacts
  <2> QED  BY <1>b, <1>c, <2>2, <2>3
<1>1. ASSUME NEW n \in Names, NEW t \in QTypes, NEW d \in BOOLEAN, HandleRequest(n, t, d)
      PROVE  Climbed' /\ CAADenialIsTrue'
  BY <1>1, <1>a, <1>b DEF HandleRequest
<1>2. CASE LoadZone
  BY <1>2, <1>a, <1>b DEF LoadZone
<1>3. CASE FindLocation
  <2>1. UNCHANGED <<environment, question, zoneVars, currentQName>>
    BY <1>3 DEF FindLocation, LoopHead
  <2>2. CASE Finish({}, authority, additional, "ServFail")
    <3>1. pc' = "done" /\ res' = "ServFail"
      BY <2>2, FinishFacts
    <3> QED  BY <1>b, <3>1
  <2>3. CASE /\ FindZone(currentQName) # zoneName \/ location = Nil
             /\ \/ Finish(answer, authority, additional, "Success")
                \/ Finish(answer, {SOA}, additional, "NameError")
    <3>1. pc' = "done"
      BY <2>3, FinishFacts
    <3>2. FindZone(currentQName)' # zoneName' \/ location' = Nil
      BY <2>1, <2>3, SameView
    <3> QED  BY <3>1, <3>2 DEF Climbed, CAADenialIsTrue, CAADenied
  <2>4. CASE pc' = "load"
    BY <1>a, <2>4
  <2> QED  BY <1>3, <2>2, <2>3, <2>4 DEF FindLocation, LoopHead
<1>4. CASE LoadFails
  <2>1. pc' = "done" /\ res' = "ServFail"
    BY <1>4, FinishFacts DEF LoadFails
  <2> QED  BY <1>b, <2>1
<1>5. CASE FollowCNAME
  <2>1. CASE pc' = "loop"
    BY <1>a, <2>1
  <2>2. CASE pc' # "loop"
    <3> DEFINE rr == RR(qname, "CNAME", Fqdn[currentRecord.cname])
    <3>1. flat /\ Finish(answer \cup {rr}, authority, additional, res) /\ flat' = flat
      BY <1>5, <2>2 DEF FollowCNAME, zoneVars
    <3>2. pc' = "done" /\ answer \cup {rr} \subseteq answer'
      BY <3>1, FinishFacts
    <3>3. flat' /\ rr \in answer' /\ rr.type = "CNAME"
      BY <3>1, <3>2 DEF RR
    <3> HIDE DEF rr
    <3> QED  BY <3>2, <3>3 DEF Climbed, CAADenialIsTrue, CAADenied
  <2> QED  BY <2>1, <2>2
<1>6. CASE Delegation
  <2>1. PICK auth, add : Finish(answer, auth, add, res)
    BY <1>6 DEF Delegation
  <2>2. pc' = "done"
    BY <2>1 DEF Finish
  <2>3. IsDelegated'
    BY <1>6, SameRecord DEF Delegation, cursor
  <2> QED  BY <1>b, <2>2, <2>3
<1>7. CASE Answer
  <2>1. qtype' = qtype
    BY <1>7 DEF Answer, question
  <2>2. CASE qtype = "CAA"
    <3>1. AnswerWith("CAA", {location}, res)
      BY <1>7, <2>2 DEF Answer
    <3> QED  BY <1>c, <2>1, <3>1
  <2>3. CASE qtype # "CAA"
    <3>1. pc' = "done"
      BY <1>7 DEF Answer, AnswerWith, Finish
    <3> QED  BY <1>b, <2>1, <2>3, <3>1
  <2> QED  BY <2>2, <2>3
<1>8. CASE StartANAME
  BY <1>8, <1>a DEF StartANAME
<1>9. CASE FindANAME
  <2>1. pc' \in {"aname", "done"}
    BY <1>9 DEF FindANAME, ANAMEStep, AnswerWith, Finish
  <2>2. qtype = "A" /\ qtype' = qtype
    BY <1>9 DEF FindANAME, ANAMEStep, AnswerInv, Open, question
  <2> QED  BY <1>a, <1>b, <2>1, <2>2
<1>10. CASE StartCAA
  <2>1. /\ pc = "load" /\ pc' = "caa" /\ target' = location /\ ~db[location].caa
        /\ location' = location /\ db' = db
    BY <1>10, SameView DEF StartCAA, currentRecord
  <2>2. Climbed'
    <3> DEFINE S == {location}
    <3>1. /\ S \in SUBSET Labels /\ location' \in S /\ target' \in S
          /\ \A l \in S : ~db'[l].caa /\ ~(l # target')
      BY <1>0, <2>1
    <3> HIDE DEF S
    <3> QED  BY <3>1 DEF Climbed
  <2> QED  BY <2>1, <2>2 DEF CAADenialIsTrue, CAADenied
<1>11. CASE FindCAA
  <2> DEFINE parent == up[target]
             l == IF parent = Top THEN apex ELSE parent
  <2>1. /\ pc = "caa" /\ target \in Labels /\ up \in Ups /\ zoneName \in ZoneNames
        /\ UNCHANGED <<environment, question, zoneVars, currentQName, up>>
    BY <1>0, <1>11 DEF FindCAA, CAAStep
  <2>2. /\ location' = location /\ db' = db /\ zoneName' = zoneName /\ qtype' = qtype
        /\ swaps' = swaps /\ writes' = writes /\ up' = up /\ apex' = apex
    BY <2>1, SameView DEF apex
  <2>3. parent \in Labels \cup {Nil, Top}
    BY <2>1, UpsAssumption
  <2>4. CASE AnswerWith("CAA", {l}, res)
    <3> HIDE DEF l
    <3> QED  BY <1>c, <2>2, <2>4
  <2>5. CASE failed'
    <3>1. pc' \in {"caa", "done"}
      BY <1>11 DEF FindCAA, CAAStep, AnswerWith, Finish
    <3> QED  BY <2>5, <3>1 DEF Climbed, CAADenialIsTrue, CAADenied, Undisturbed
  <2>6. CASE /\ parent = Nil \/ (parent = Top /\ ~db[l].caa)
             /\ AnswerWith("CAA", {}, res) /\ failed' = failed /\ target' = target
    <3>1. pc' = "done"
      BY <2>6 DEF AnswerWith, Finish
    <3> SUFFICES ASSUME Undisturbed'
                 PROVE  /\ \E S \in SUBSET Labels :
                              /\ location \in S /\ target \in S
                              /\ \A k \in S : ~db[k].caa /\ (up[k] \in Labels => up[k] \in S)
                        /\ ~db[apex].caa \/ (target # apex /\ up[target] = Nil)
      BY <2>2, <2>6, <3>1 DEF Climbed, CAADenialIsTrue, CAADenied
    <3>2. Undisturbed
      BY <2>2, <2>6 DEF Undisturbed
    <3>3. PICK S \in SUBSET Labels :
             /\ location \in S /\ target \in S
             /\ \A k \in S : /\ ~db[k].caa
                             /\ k # target => up[k] # Top /\ (up[k] \in Labels => up[k] \in S)
      BY <2>1, <3>2 DEF Climbed
    <3>4. up[target] \notin Labels /\ (up[target] = Nil \/ ~db[apex].caa)
      BY <2>6, NamesAssumption
    <3>5. ~db[target].caa
      BY <3>3
    <3> QED  BY <3>3, <3>4, <3>5
  <2>7. CASE /\ parent \notin {Nil, Top} /\ ~db[l].caa
             /\ target' = l /\ UNCHANGED <<pc, sections, failed>>
    <3>1. l \in Labels /\ l = up[target] /\ up[target] # Top
      BY <2>3, <2>7
    <3>2. CAADenialIsTrue'
      BY <2>1, <2>7 DEF CAADenialIsTrue, CAADenied
    <3>3. Climbed'
      <4> SUFFICES ASSUME Undisturbed'
                   PROVE  \E S \in SUBSET Labels :
                             /\ location \in S /\ target' \in S
                             /\ \A k \in S : /\ ~db[k].caa
                                             /\ k # target' => /\ up[k] # Top
                                                               /\ up[k] \in Labels => up[k] \in S
        BY <2>2 DEF Climbed
      <4>1. Undisturbed
        BY <2>2, <2>7 DEF Undisturbed
      <4>2. PICK S \in SUBSET Labels :
               /\ location \in S /\ target \in S
               /\ \A k \in S : /\ ~db[k].caa
                               /\ k # target => up[k] # Top /\ (up[k] \in Labels => up[k] \in S)
        BY <2>1, <4>1 DEF Climbed
      <4> DEFINE T == S \cup {target'}
      <4>3. T \in SUBSET Labels /\ location \in T /\ target' \in T
        BY <2>7, <3>1, <4>2
      <4>4. ASSUME NEW k \in T
            PROVE  /\ ~db[k].caa
                   /\ k # target' => up[k] # Top /\ (up[k] \in Labels => up[k] \in T)
        BY <2>7, <3>1, <4>2
      <4> HIDE DEF T
      <4> QED  BY <4>3, <4>4
    <3> QED  BY <3>2, <3>3
  <2>8. \/ AnswerWith("CAA", {l}, res)
        \/ failed'
        \/ /\ parent = Nil \/ (parent = Top /\ ~db[l].caa)
           /\ AnswerWith("CAA", {}, res) /\ failed' = failed /\ target' = target
        \/ /\ parent \notin {Nil, Top} /\ ~db[l].caa
           /\ target' = l /\ UNCHANGED <<pc, sections, failed>>
    BY <1>11 DEF FindCAA, CAAStep, apex
  <2> HIDE DEF parent, l
  <2> QED  BY <2>4, <2>5, <2>6, <2>7, <2>8
<1>12. CASE SwapZones \/ \E l \in Labels : WriteRecord(l)
  BY <1>12, Disturbed DEF Climbed, CAADenialIsTrue, CAADenied
<1>13. CASE UNCHANGED vars
  <2>1. UNCHANGED <<pc, target, up, failed, answer, authority, res>>
        /\ UNCHANGED <<environment, question, zoneVars, currentQName>>
    BY <1>13 DEF vars, cursor, sections
  <2>2. /\ location' = location /\ db' = db
        /\ FindZone(currentQName)' = FindZone(currentQName)
        /\ zoneName' = zoneName /\ flat' = flat /\ qtype' = qtype
        /\ swaps' = swaps /\ writes' = writes
    BY <2>1, SameView
  <2>3. (IsDelegated' <=> IsDelegated) /\ apex' = apex /\ (Undisturbed' <=> Undisturbed)
    BY <2>1, <2>2, SameRecord DEF apex, Undisturbed
  <2>4. CAADenied' <=> CAADenied
    BY <2>1, <2>2, <2>3 DEF CAADenied
  <2> QED  BY <2>1, <2>2, <2>3, <2>4 DEF Climbed, CAADenialIsTrue
<1> HIDE DEF Climbed, CAADenialIsTrue, CAADenied
<1> QED
  BY <1>1, <1>2, <1>3, <1>4, <1>5, <1>6, <1>7, <1>8, <1>9, <1>10, <1>11, <1>12, <1>13
  DEF Next, Ask, Step

\* HandleRequest denies a CAA only if no location FindCAA comes to has one, nor
\* the apex, unless a parent is unknown to the record's zone object, for every
\* such object.
THEOREM CAADenialIsTrueHolds == Spec => []CAADenialIsTrue
<1>1. Init => Climbed /\ CAADenialIsTrue
  BY DEF Init, Climbed, CAADenialIsTrue, CAADenied
<1> QED  BY <1>1, TypeInit, TypeNext, AnswerInvariant, CAANext, PTL DEF Spec
-----------------------------------------------------------------------------
\* The loop of HandleRequest goes from n on to another name.
Continues(n) ==
    /\ FindZone(n) = zoneName /\ Location[zoneName][n] # Nil
    /\ LET host == db[Location[zoneName][n]].cname
       IN  host # Nil /\ (flat => FindZone(host) = zoneName)

\* rank counts the aliases that follow a name, where they end at all.
Ranks(rank) ==
    \A n \in Names : Continues(n) /\ ~Unending(n) =>
        rank[Fqdn[db[Location[zoneName][n]].cname]] < rank[n]

\* No chain of aliases that ends has more of them than the cap allows.
ShortChains == \E rank \in [Names -> 0 .. MaxLoop] : Ranks(rank)

\* The loop follows the question's name: along unending aliases if it has them,
\* along aliases that end otherwise, and then no further than their rank.
Follows ==
    /\ pc \in {"idle", "zone"} => loopCount = 0
    /\ pc = "load" /\ swaps = 0 => FindZone(currentQName) = zoneName
    /\ zoneName # Nil /\ qtype # "CNAME" /\ Undisturbed =>
         /\ pc \in {"loop", "load"} => (Unending(currentQName) <=> Unending(qname))
         /\ Unending(qname) => /\ pc \notin {"aname", "caa"}
                               /\ pc = "done" => res = "ServFail" /\ answer = {}
         /\ ~Unending(qname) => \A rank \in [Names -> 0 .. MaxLoop] : Ranks(rank) =>
              /\ pc = "loop" => loopCount + rank[currentQName] <= MaxLoop
              /\ pc = "load" => loopCount + rank[currentQName] <= MaxLoop + 1
              /\ pc = "done" /\ qtype # "A" => res # "ServFail"

\* Unending and Ranks depend on the zone list, the records and the zone only.
LEMMA SameAliases ==
    ASSUME UNCHANGED <<environment, zoneVars>>
    PROVE  /\ \A n : Unending(n)' <=> Unending(n)
           /\ \A rank : Ranks(rank)' <=> Ranks(rank)
<1>1. zones' = zones /\ db' = db /\ zoneName' = zoneName /\ flat' = flat
  BY DEF environment, zoneVars
<1>2. ASSUME NEW n  PROVE FindZone(n)' = FindZone(n)
  BY SMT, <1>1 DEF FindZone
<1>3. ASSUME NEW n  PROVE Unending(n)' <=> Unending(n)
  BY <1>1, <1>2 DEF Unending
<1>4. ASSUME NEW n  PROVE Continues(n)' <=> Continues(n)
  BY <1>1, <1>2 DEF Continues
<1>5. ASSUME NEW rank  PROVE Ranks(rank)' <=> Ranks(rank)
  BY <1>1, <1>3, <1>4 DEF Ranks
<1> QED  BY <1>3, <1>5

\* A name has unending aliases iff it is an alias in the zone whose target has.
LEMMA UnendingStep ==
    ASSUME NEW n \in Names
    PROVE  Unending(n) <=> /\ Continues(n)
                           /\ Unending(Fqdn[db[Location[zoneName][n]].cname])
<1> DEFINE Host(m) == db[Location[zoneName][m]].cname
           Good(S) == \A m \in S : /\ FindZone(m) = zoneName /\ Location[zoneName][m] # Nil
                                   /\ Host(m) # Nil /\ Fqdn[Host(m)] \in S
                                   /\ flat => FindZone(Host(m)) = zoneName
<1>0. \A m : Unending(m) <=> \E S \in SUBSET Names : m \in S /\ Good(S)
  BY DEF Unending
<1>1. \A m : Continues(m) <=> /\ FindZone(m) = zoneName /\ Location[zoneName][m] # Nil
                              /\ Host(m) # Nil /\ (flat => FindZone(Host(m)) = zoneName)
  BY DEF Continues
<1>2. ASSUME Unending(n)  PROVE Continues(n) /\ Unending(Fqdn[Host(n)])
  <2>1. PICK S \in SUBSET Names : n \in S /\ Good(S)
    BY <1>0, <1>2
  <2>2. Fqdn[Host(n)] \in S
    BY <2>1
  <2> QED  BY <1>0, <1>1, <2>1, <2>2
<1>3. ASSUME Continues(n), Unending(Fqdn[Host(n)])  PROVE Unending(n)
  <2>1. PICK S \in SUBSET Names : Fqdn[Host(n)] \in S /\ Good(S)
    BY <1>0, <1>3
  <2>2. Good(S \cup {n})
    BY <1>1, <1>3, <2>1
  <2>3. S \cup {n} \in SUBSET Names
    OBVIOUS
  <2> HIDE DEF Good
  <2> QED  BY <1>0, <2>2, <2>3
<1> HIDE DEF Host
<1> QED  BY <1>2, <1>3 DEF Host

\* Within a request, a step that only moves pc between the phases after the loop,
\* or ends the request in the right way, keeps the invariant.
LEMMA FollowsEnd ==
    ASSUME Follows, pc \notin {"idle", "zone"}, pc' \in {"aname", "caa", "done"},
           UNCHANGED <<environment, question, zoneVars>>,
           Undisturbed' => Undisturbed,
           Undisturbed' /\ zoneName # Nil /\ qtype # "CNAME" =>
              /\ Unending(qname) => pc' = "done" /\ res' = "ServFail" /\ answer' = {}
              /\ ~Unending(qname) => \A rank \in [Names -> 0 .. MaxLoop] : Ranks(rank) =>
                    (pc' = "done" /\ qtype # "A" => res' # "ServFail")
    PROVE  Follows'
<1>1. /\ qname' = qname /\ qtype' = qtype /\ zoneName' = zoneName
      /\ (Unending(qname)' <=> Unending(qname))
      /\ \A rank : Ranks(rank)' <=> Ranks(rank)
  BY SameAliases DEF question, zoneVars
<1> QED  BY <1>1 DEF Follows

\* A name with unending aliases is an alias: the type switch is not reached.
LEMMA UnendingIsAlias ==
    ASSUME TypeInv, pc = "load", qtype # "CNAME", ~IsAlias
    PROVE  ~Unending(currentQName)
<1>1. currentQName \in Names
  BY DEF TypeInv, Placed
<1>2. ~Continues(currentQName)
  BY DEF Continues, IsAlias, currentRecord, location
<1> QED  BY <1>1, <1>2, UnendingStep

\* Every step of HandleRequest and of the searches it starts keeps to the chain.
LEMMA FollowsNext == TypeInv /\ AnswerInv /\ Follows /\ [Next]_vars => Follows'
<1> SUFFICES ASSUME TypeInv, AnswerInv, Follows, [Next]_vars  PROVE Follows'
  OBVIOUS
<1> USE BoundAssumption
<1>0. /\ pc # "done" => res = "Success" /\ ~failed
      /\ pc \in {"idle", "zone"} => currentQName = qname /\ loopCount = 0
      /\ pc = "aname" => qtype = "A"
      /\ pc # "idle" => qname \in Names /\ currentQName \in Names
      /\ pc = "load" /\ swaps = 0 => FindZone(currentQName) = zoneName
      /\ loopCount \in Nat /\ swaps \in Nat /\ writes \in Nat
  BY SMT DEF AnswerInv, Open, TypeInv, TypeOK, Placed, Follows
<1>a. ASSUME UNCHANGED environment, pc # "done", Undisturbed'  PROVE Undisturbed /\ swaps = 0
  BY SMT, <1>0, <1>a DEF Undisturbed, environment
<1>b. ASSUME pc \in {"loop", "load"}, Undisturbed, zoneName # Nil, qtype # "CNAME"
      PROVE  Unending(currentQName) <=> Unending(qname)
  BY <1>b DEF Follows
\* The loop ends with an answer, at a name that is no alias to go on from.
<1>c. ASSUME pc \in {"loop", "load"}, pc' \in {"aname", "caa", "done"},
             UNCHANGED <<environment, question, zoneVars>>,
             failed' \/ qtype = "CNAME" \/ (~Unending(currentQName) /\ res' # "ServFail")
      PROVE  Follows'
  <2>1. pc \notin {"idle", "zone"} /\ (Undisturbed' => Undisturbed)
    BY <1>a, <1>c
  <2>2. Undisturbed' => ~failed'
    BY DEF Undisturbed
  <2>3. ASSUME Undisturbed', zoneName # Nil, qtype # "CNAME"
        PROVE  /\ ~Unending(qname) /\ res' # "ServFail"
    BY <1>b, <1>c, <2>1, <2>2, <2>3
  <2> QED  BY <1>c, <2>1, <2>3, FollowsEnd
<1>1. ASSUME NEW n \in Names, NEW t \in QTypes, NEW d \in BOOLEAN, HandleRequest(n, t, d)
      PROVE  Follows'
  <2>1. /\ loopCount' = 0
        /\ pc' = "zone" \/ (pc' = "done" /\ zoneName' = Nil)
    BY <1>0, <1>1 DEF HandleRequest
  <2> QED  BY <2>1 DEF Follows
<1>2. CASE LoadZone
  <2>1. /\ loopCount' = 0 /\ currentQName' = qname' /\ qname' \in Names
        /\ pc' = "loop" \/ (pc' = "done" /\ failed')
    BY <1>0, <1>2 DEF LoadZone, question, cursor
  <2>2. \A rank \in [Names -> 0 .. MaxLoop] : loopCount' + rank[currentQName'] <= MaxLoop
    BY SMT, <2>1
  <2>3. CASE pc' = "done" /\ failed'
    BY <2>3 DEF Follows, Undisturbed
  <2>4. CASE pc' = "loop"
    <3>1. Unending(currentQName)' <=> Unending(qname)'
      BY <2>1
    <3> QED  BY <2>2, <2>4, <3>1 DEF Follows
  <2> QED  BY <2>1, <2>3, <2>4
<1>3. CASE FindLocation
  <2>1. pc = "loop" /\ UNCHANGED <<environment, question, zoneVars, currentQName, target, up, failed>>
    BY <1>3 DEF FindLocation, LoopHead
  <2>2. CASE loopCount > MaxLoop
    <3>1. Finish({}, authority, additional, "ServFail")
      BY <1>3, <2>2 DEF FindLocation, LoopHead
    <3>2. pc' = "done" /\ res' = "ServFail" /\ answer' = {}
      BY <3>1, FinishFacts
    <3>3. Undisturbed' => Undisturbed
      BY <1>a, <2>1
    <3>4. ASSUME Undisturbed', zoneName # Nil, qtype # "CNAME", ~Unending(qname),
                 NEW rank \in [Names -> 0 .. MaxLoop], Ranks(rank)
          PROVE  FALSE
      <4>1. loopCount + rank[currentQName] <= MaxLoop
        BY <2>1, <3>3, <3>4 DEF Follows
      <4>2. rank[currentQName] \in Nat
        BY SMT, <1>0, <2>1
      <4> QED  BY SMT, <1>0, <2>2, <4>1, <4>2
    <3> QED  BY <2>1, <3>2, <3>3, <3>4, FollowsEnd
  <2>3. CASE /\ FindZone(currentQName) # zoneName \/ location = Nil
             /\ \/ Finish(answer, authority, additional, "Success")
                \/ Finish(answer, {SOA}, additional, "NameError")
    <3>1. pc' = "done" /\ res' # "ServFail"
      BY SMT, <2>3, FinishFacts
    <3>2. ~Unending(currentQName)
      BY <1>0, <2>1, <2>3, UnendingStep DEF Continues, location
    <3> QED  BY <1>c, <2>1, <3>1, <3>2
  <2>4. CASE pc' = "load" /\ loopCount' = loopCount + 1 /\ FindZone(currentQName) = zoneName
    <3>1. /\ qtype' = qtype /\ zoneName' = zoneName /\ qname' = qname
          /\ FindZone(currentQName)' = zoneName'
          /\ Unending(qname)' <=> Unending(qname)
          /\ Unending(currentQName)' <=> Unending(currentQName)
          /\ \A rank : Ranks(rank)' <=> Ranks(rank)
      BY <2>1, <2>4, SameView, SameAliases
    <3> SUFFICES ASSUME Undisturbed', zoneName # Nil, qtype # "CNAME"
                 PROVE  /\ Unending(currentQName) <=> Unending(qname)
                        /\ ~Unending(qname) => \A rank \in [Names -> 0 .. MaxLoop] : Ranks(rank) =>
                               loopCount' + rank[currentQName'] <= MaxLoop + 1
      BY <2>4, <3>1 DEF Follows
    <3>2. Undisturbed
      BY <1>a, <2>1
    <3>3. ASSUME ~Unending(qname), NEW rank \in [Names -> 0 .. MaxLoop], Ranks(rank)
          PROVE  loopCount' + rank[currentQName'] <= MaxLoop + 1
      <4>1. loopCount + rank[currentQName] <= MaxLoop
        BY <2>1, <3>2, <3>3 DEF Follows
      <4>2. rank[currentQName] \in Nat /\ currentQName' = currentQName
        BY SMT, <1>0, <2>1
      <4> QED  BY SMT, <1>0, <2>4, <4>1, <4>2
    <3> QED  BY <1>b, <2>1, <3>2, <3>3
  <2> QED  BY <1>3, <2>2, <2>3, <2>4 DEF FindLocation, LoopHead
<1>4. CASE LoadFails
  <2>1. pc' = "done"
    BY <1>4, FinishFacts DEF LoadFails
  <2> QED  BY <1>4, <1>c, <2>1 DEF LoadFails
<1>5. CASE FollowCNAME
  <2> DEFINE host == currentRecord.cname
             next == Fqdn[host]
  <2>1. /\ pc = "load" /\ host # Nil /\ qtype # "CNAME"
        /\ UNCHANGED <<environment, question, zoneVars, loopCount, target, up, failed>>
    BY <1>5 DEF FollowCNAME, IsAlias
  <2>2. CASE /\ flat /\ FindZone(host) # zoneName
             /\ Finish(answer \cup {RR(qname, "CNAME", Fqdn[host])}, authority, additional, res)
    <3>1. pc' = "done" /\ res' # "ServFail"
      BY <1>0, <2>1, <2>2, FinishFacts
    <3>2. ~Unending(currentQName)
      BY <1>0, <2>1, <2>2, UnendingStep DEF Continues, currentRecord, location
    <3> QED  BY <1>c, <2>1, <3>1, <3>2
  <2>3. CASE (flat => FindZone(host) = zoneName) /\ currentQName' = next /\ pc' = "loop"
    <3>1. /\ qtype' = qtype /\ zoneName' = zoneName /\ qname' = qname
          /\ Unending(qname)' <=> Unending(qname)
          /\ Unending(currentQName)' <=> Unending(next)
          /\ \A rank : Ranks(rank)' <=> Ranks(rank)
      BY <2>1, <2>3, SameAliases DEF question, zoneVars
    <3> SUFFICES ASSUME Undisturbed', zoneName # Nil
                 PROVE  /\ Unending(next) <=> Unending(qname)
                        /\ ~Unending(qname) => \A rank \in [Names -> 0 .. MaxLoop] : Ranks(rank) =>
                               loopCount' + rank[next] <= MaxLoop
      <4> HIDE DEF next
      <4> QED  BY <2>1, <2>3, <3>1 DEF Follows
    <3>2. Undisturbed /\ swaps = 0
      BY <1>a, <2>1
    <3>3. Continues(currentQName)
      <4>1. Location[zoneName][currentQName] # Nil
        BY <2>1, NamesAssumption DEF TypeInv, Placed, location
      <4> QED  BY <1>0, <2>1, <2>3, <3>2, <4>1 DEF Continues, currentRecord, location
    <3>4. Unending(currentQName) <=> Unending(next)
      BY <1>0, <2>1, <3>3, UnendingStep DEF currentRecord, location
    <3>5. ASSUME ~Unending(qname), NEW rank \in [Names -> 0 .. MaxLoop], Ranks(rank)
          PROVE  loopCount' + rank[next] <= MaxLoop
      <4>1. loopCount + rank[currentQName] <= MaxLoop + 1
        BY <2>1, <3>2, <3>5 DEF Follows
      <4>2. ~Unending(currentQName)
        BY <1>b, <2>1, <3>2, <3>5
      <4>3. rank[next] < rank[currentQName]
        BY <1>0, <2>1, <3>3, <3>5, <4>2 DEF Ranks, currentRecord, location
      <4>4. next \in Names
        BY <1>0, <2>1, NamesAssumption DEF TypeInv, TypeOK, Placed, currentRecord, Record
      <4>5. rank[next] \in Nat /\ rank[currentQName] \in Nat
        BY SMT, <1>0, <2>1, <4>4
      <4> QED  BY SMT, <1>0, <2>1, <4>1, <4>3, <4>5
    <3> QED  BY <1>b, <2>1, <3>2, <3>4, <3>5
  <2> QED  BY <1>5, <2>2, <2>3 DEF FollowCNAME
<1>6. CASE Delegation
  <2>1. pc' = "done" /\ res' = res
    <3>1. PICK auth, add : Finish(answer, auth, add, res)
      BY <1>6 DEF Delegation
    <3>2. res = "Success"
      BY <1>0, <1>6 DEF Delegation
    <3> QED  BY <3>1, <3>2, FinishFacts
  <2>2. pc = "load" /\ ~IsAlias /\ UNCHANGED <<environment, question, zoneVars>>
    BY <1>6 DEF Delegation
  <2> QED  BY <1>0, <1>c, <2>1, <2>2, UnendingIsAlias
<1>7. CASE Answer
  <2>1. pc = "load" /\ ~IsAlias /\ UNCHANGED <<environment, question, zoneVars>>
    BY <1>7 DEF Answer
  <2>2. PICK ans, auth, add : Finish(ans, auth, add, res) \/ Finish(ans, auth, add, "NotImplemented")
    BY <1>7 DEF Answer, AnswerWith
  <2>3. pc' = "done" /\ res' # "ServFail"
    BY SMT, <1>0, <2>1, <2>2, FinishFacts
  <2> QED  BY <1>c, <2>1, <2>3, UnendingIsAlias
<1>8. CASE StartANAME \/ StartCAA
  <2>1. /\ pc = "load" /\ ~IsAlias /\ pc' \in {"aname", "caa"} /\ res' = res
        /\ UNCHANGED <<environment, question, zoneVars>>
    BY <1>8 DEF StartANAME, StartCAA, sections
  <2> QED  BY <1>0, <1>c, <2>1, UnendingIsAlias
<1>9. CASE FindANAME
  <2>1. pc = "aname" /\ qtype = "A" /\ UNCHANGED <<environment, question, zoneVars>>
    BY <1>0, <1>9 DEF FindANAME, ANAMEStep
  <2>2. pc' \in {"aname", "done"}
    BY <1>9 DEF FindANAME, ANAMEStep, AnswerWith, Finish
  <2>3. Undisturbed' => Undisturbed
    BY <1>a, <2>1
  <2>4. Undisturbed /\ zoneName # Nil => ~Unending(qname)
    BY <2>1 DEF Follows
  <2> QED  BY <2>1, <2>2, <2>3, <2>4, FollowsEnd
<1>10. CASE FindCAA
  <2>1. pc = "caa" /\ UNCHANGED <<environment, question, zoneVars>>
    BY <1>10 DEF FindCAA, CAAStep
  <2>2. pc' \in {"caa", "done"} /\ res' # "ServFail"
    <3>1. CASE UNCHANGED <<pc, sections>>
      BY <1>0, <2>1, <3>1 DEF sections
    <3>2. CASE \E ans, auth, add : Finish(ans, auth, add, res)
      BY <1>0, <2>1, <3>2, FinishFacts
    <3> QED  BY <1>10, <3>1, <3>2 DEF FindCAA, CAAStep, AnswerWith
  <2>3. Undisturbed' => Undisturbed
    BY <1>a, <2>1
  <2>4. Undisturbed /\ zoneName # Nil /\ qtype # "CNAME" => ~Unending(qname)
    BY <2>1 DEF Follows
  <2> QED  BY <2>1, <2>2, <2>3, <2>4, FollowsEnd
<1>11. CASE SwapZones \/ \E l \in Labels : WriteRecord(l)
  <2>1. ~Undisturbed' /\ pc' = pc
    BY <1>11, Disturbed
  <2>2. loopCount' = loopCount
    BY <1>11 DEF SwapZones, WriteRecord, cursor
  <2>3. ASSUME pc = "load", swaps' = 0  PROVE FindZone(currentQName)' = zoneName'
    <3>1. UNCHANGED <<zones, currentQName, zoneName, swaps>>
      BY SMT, <1>0, <1>11, <2>3 DEF SwapZones, WriteRecord, cursor, zoneVars
    <3>2. FindZone(currentQName)' = FindZone(currentQName)
      BY SMT, <3>1 DEF FindZone
    <3> QED  BY <1>0, <2>3, <3>1, <3>2
  <2> QED  BY <1>0, <2>1, <2>2, <2>3 DEF Follows
<1>12. CASE UNCHANGED vars
  <2>1. /\ UNCHANGED <<pc, loopCount, failed, answer, res, currentQName>>
        /\ UNCHANGED <<environment, question, zoneVars>>
    BY <1>12 DEF vars, cursor, sections
  <2>2. /\ qtype' = qtype /\ zoneName' = zoneName /\ qname' = qname
        /\ FindZone(currentQName)' = FindZone(currentQName)
        /\ swaps' = swaps /\ (Undisturbed' <=> Undisturbed)
        /\ Unending(qname)' <=> Unending(qname)
        /\ Unending(currentQName)' <=> Unending(currentQName)
        /\ \A rank : Ranks(rank)' <=> Ranks(rank)
    BY <2>1, SameView, SameAliases DEF Undisturbed
  <2> QED  BY <2>1, <2>2 DEF Follows
<1> HIDE DEF Follows
<1> QED
  BY <1>1, <1>2, <1>3, <1>4, <1>5, <1>6, <1>7, <1>8, <1>9, <1>10, <1>11, <1>12
  DEF Next, Ask, Step

\* The loop of HandleRequest follows its chain from the first name to the last.
LEMMA FollowsInvariant == Spec => []Follows
<1>1. Init => Follows
  BY DEF Init, Follows
<1> QED  BY <1>1, TypeInit, TypeNext, AnswerInvariant, FollowsNext, PTL DEF Spec

\* The half of LoopsAreRefused that needs no bound on the chains: a loop is cut.
LoopsAreCut ==
    pc = "done" /\ zoneName # Nil /\ qtype # "CNAME" /\ Undisturbed /\ Unending(qname) =>
        res = "ServFail" /\ answer = {}

\* HandleRequest answers aliases that never end with an empty SERVFAIL, however
\* they loop and whatever the cap is.
THEOREM LoopsAreCutHolds == Spec => []LoopsAreCut
<1>1. Follows => LoopsAreCut
  BY DEF Follows, LoopsAreCut
<1> QED  BY <1>1, FollowsInvariant, PTL

\* Where no chain is longer than the cap of HandleRequest, the cap refuses the
\* questions with unending aliases and no others.
THEOREM LoopsAreRefusedHolds == Spec => [](ShortChains => LoopsAreRefused)
<1>1. Follows => (ShortChains => LoopsAreRefused)
  BY DEF Follows, ShortChains, LoopsAreRefused
<1> QED  BY <1>1, FollowsInvariant, PTL
-----------------------------------------------------------------------------
\* A bound on the way up: depth counts the labels a location has below the apex,
\* and every pass of FindCAA strips one (FindCAA, at most 127 in a DNS name).
Climbs(depth, deepest) ==
    /\ deepest \in Nat /\ depth \in [Labels -> 0 .. deepest]
    /\ \A u \in Ups, l \in Labels : u[l] \in Labels => depth[u[l]] < depth[l]

\* The steps a request has left at most, at p with loopCount = c and d labels
\* below the apex: the two loops are left at their caps.
LeftAt(p, c, d, deepest) ==
    CASE p = "idle"  -> 3 * MaxLoop + deepest + 9
      [] p = "zone"  -> 3 * MaxLoop + deepest + 8
      [] p = "loop"  -> MaxLoop + deepest + 3 + 2 * (MaxLoop + 2 - c)
      [] p = "load"  -> MaxLoop + deepest + 4 + 2 * (MaxLoop + 2 - c)
      [] p = "aname" -> MaxLoop + 2 - c
      [] p = "caa"   -> d + 1
      [] OTHER       -> 0
Left(depth, deepest) ==
    LeftAt(pc, loopCount, IF pc = "caa" THEN depth[target] ELSE 0, deepest)

\* Every step of the request brings the response closer, and neither LoadZones
\* nor a rewritten record sets it back.
StepCounts(depth, deepest) ==
    /\ Left(depth, deepest) \in 0 .. 3 * MaxLoop + deepest + 9
    /\ Left(depth, deepest)' <= Left(depth, deepest)
    /\ Ask \/ Step => Left(depth, deepest)' < Left(depth, deepest)

\* The values of LeftAt.
LEMMA LeftValues ==
    ASSUME NEW c, NEW d, NEW deepest
    PROVE  /\ LeftAt("idle", c, d, deepest) = 3 * MaxLoop + deepest + 9
           /\ LeftAt("zone", c, d, deepest) = 3 * MaxLoop + deepest + 8
           /\ LeftAt("loop", c, d, deepest) = MaxLoop + deepest + 3 + 2 * (MaxLoop + 2 - c)
           /\ LeftAt("load", c, d, deepest) = MaxLoop + deepest + 4 + 2 * (MaxLoop + 2 - c)
           /\ LeftAt("aname", c, d, deepest) = MaxLoop + 2 - c
           /\ LeftAt("caa", c, d, deepest) = d + 1
           /\ LeftAt("done", c, d, deepest) = 0
  BY SMT DEF LeftAt

\* Both loops count from zero: HandleRequest's when the zone is loaded, and
\* there has been a pass when a record is.
Counted ==
    /\ pc \in {"idle", "zone"} => loopCount = 0
    /\ pc = "load" => loopCount >= 1

\* The moves of a request (HandleRequest, FindANAME, FindCAA).
Moved ==
    \/ pc = "idle" /\ pc' \in {"zone", "done"} /\ loopCount' = loopCount
    \/ pc = "zone" /\ pc' \in {"loop", "done"} /\ loopCount' = loopCount
    \/ pc = "loop" /\ pc' = "load" /\ loopCount <= MaxLoop /\ loopCount' = loopCount + 1
    \/ pc = "load" /\ pc' = "loop" /\ loopCount' = loopCount
    \/ pc = "load" /\ pc' = "aname" /\ loopCount' = 0
    \/ pc = "load" /\ pc' = "caa" /\ target' \in Labels
    \/ pc = "aname" /\ pc' = "aname" /\ loopCount <= MaxLoop /\ loopCount' = loopCount + 1
    \/ pc = "caa" /\ pc' = "caa" /\ target' = up[target] /\ up[target] \in Labels
    \/ pc \in {"loop", "load", "aname", "caa"} /\ pc' = "done"

\* Every step of a request is one of these.
LEMMA Moves ==
    ASSUME TypeInv, Ask \/ Step
    PROVE  Moved
  <1>a. ASSUME NEW ans, NEW auth, NEW add, NEW r, Finish(ans, auth, add, r)
        PROVE  pc' = "done"
    BY <1>a DEF Finish
  <1>b. ASSUME NEW type, NEW data, NEW r, AnswerWith(type, data, r)
        PROVE  pc' = "done"
    BY <1>b DEF AnswerWith, Finish
  <1>1. ASSUME NEW n \in Names, NEW t \in QTypes, NEW d \in BOOLEAN, HandleRequest(n, t, d)
        PROVE  Moved
    BY <1>1 DEF HandleRequest, Moved
  <1>2. CASE LoadZone
    BY <1>2 DEF LoadZone, Moved, cursor
  <1>3. CASE FindLocation
    <2>1. pc = "loop"
      BY <1>3 DEF FindLocation, LoopHead
    <2>2. CASE loopCount > MaxLoop
      BY <1>3, <2>1, <2>2, <1>a DEF FindLocation, LoopHead, Moved
    <2>3. CASE ~(loopCount > MaxLoop)
      <3>1. loopCount' = loopCount + 1 /\ loopCount <= MaxLoop
        BY SMT, <1>3, <2>3, BoundAssumption DEF FindLocation, LoopHead, TypeInv, TypeOK
      <3>2. pc' \in {"done", "load"}
        BY <1>3, <2>3, <1>a DEF FindLocation, LoopHead
      <3> QED BY <2>1, <3>1, <3>2 DEF Moved
    <2> QED BY <2>2, <2>3
  <1>4. CASE LoadFails
    BY <1>4, <1>a DEF LoadFails, Moved
  <1>5. CASE FollowCNAME
    <2>1. pc = "load" /\ pc' \in {"done", "loop"} /\ loopCount' = loopCount
      BY <1>5, <1>a DEF FollowCNAME
    <2> QED BY <2>1 DEF Moved
  <1>6. CASE Delegation
    BY <1>6, <1>a DEF Delegation, Moved
  <1>7. CASE Answer
    <2>1. pc = "load" /\ pc' = "done"
      BY <1>7, <1>a, <1>b DEF Answer
    <2> QED BY <2>1 DEF Moved
  <1>8. CASE StartANAME
    BY <1>8 DEF StartANAME, Moved
  <1>9. CASE FindANAME
    <2>1. /\ pc = "aname" /\ pc' \in {"aname", "done"}
          /\ pc' = "aname" => loopCount <= MaxLoop
      BY <1>9, <1>b DEF FindANAME, ANAMEStep
    <2>2. loopCount <= MaxLoop => loopCount' = loopCount + 1
      BY SMT, <1>9, BoundAssumption DEF FindANAME, ANAMEStep, TypeInv, TypeOK
    <2> QED BY <2>1, <2>2 DEF Moved
  <1>10. CASE StartCAA
    BY <1>10 DEF StartCAA, Moved, TypeInv, Placed
  <1>11. CASE FindCAA
    <2>1. target \in Labels /\ up[target] \in Labels \cup {Nil, Top}
      BY <1>11, UpsAssumption DEF FindCAA, CAAStep, TypeInv, Placed
    <2>2. /\ pc = "caa"
          /\ \/ pc' = "done"
             \/ pc' = pc /\ up[target] \notin {Nil, Top} /\ target' = up[target]
      BY <1>11, <1>b DEF FindCAA, CAAStep
    <2> QED BY <2>1, <2>2 DEF Moved
  <1> QED
    BY <1>1, <1>2, <1>3, <1>4, <1>5, <1>6, <1>7, <1>8, <1>9, <1>10, <1>11 DEF Ask, Step

\* LoadZones and the writers of redis do not move a request.
LEMMA StaysPut ==
    ASSUME [Next]_vars, ~(Ask \/ Step)
    PROVE  UNCHANGED <<pc, loopCount, target>>
  BY DEF Next, SwapZones, WriteRecord, vars, cursor

\* Counted is inductive.
LEMMA CountedNext == TypeInv /\ Counted /\ [Next]_vars => Counted'
  <1> SUFFICES ASSUME TypeInv, Counted, [Next]_vars PROVE Counted'
    OBVIOUS
  <1>1. loopCount \in Nat
    BY SMT, BoundAssumption DEF TypeInv, TypeOK
  <1>2. CASE Ask \/ Step
    <2>1. Moved
      BY <1>2, Moves
    <2> QED BY SMT, <1>1, <2>1 DEF Counted, Moved
  <1>3. CASE ~(Ask \/ Step)
    BY <1>3, StaysPut DEF Counted
  <1> QED BY <1>2, <1>3

\* Left is a natural number below the bound.
LEMMA LeftBounds ==
    ASSUME TypeInv, Counted, NEW depth, NEW deepest, Climbs(depth, deepest)
    PROVE  Left(depth, deepest) \in 0 .. 3 * MaxLoop + deepest + 9
  <1> DEFINE d == IF pc = "caa" THEN depth[target] ELSE 0
  <1>1. /\ loopCount \in 0 .. MaxLoop + 1 /\ MaxLoop \in Nat /\ deepest \in Nat
        /\ pc \in {"idle", "zone", "loop", "load", "aname", "caa", "done"}
        /\ pc = "load" => loopCount >= 1
    BY BoundAssumption DEF TypeInv, TypeOK, Climbs, Counted
  <1>2. d \in 0 .. deepest
    BY SMT, <1>1 DEF TypeInv, Placed, Climbs
  <1>3. Left(depth, deepest) = LeftAt(pc, loopCount, d, deepest)
    BY DEF Left
  <1> HIDE DEF d
  <1> QED
    BY SMT, <1>1, <1>2, <1>3, LeftValues

\* A move lowers Left.
LEMMA MoveLowers ==
    ASSUME TypeInv, TypeInv', Counted, Moved, NEW depth, NEW deepest, Climbs(depth, deepest)
    PROVE  /\ Left(depth, deepest)' < Left(depth, deepest)
           /\ Left(depth, deepest)' <= Left(depth, deepest)
  <1> DEFINE d == IF pc = "caa" THEN depth[target] ELSE 0
             e == IF pc' = "caa" THEN depth[target'] ELSE 0
  <1>1. /\ loopCount \in 0 .. MaxLoop + 1 /\ MaxLoop \in Nat /\ deepest \in Nat
        /\ pc \in {"idle", "zone"} => loopCount = 0
    BY BoundAssumption DEF TypeInv, TypeOK, Climbs, Counted
  <1>2. d \in 0 .. deepest /\ e \in 0 .. deepest
    BY SMT, <1>1 DEF TypeInv, Placed, Climbs
  <1>3. pc = "caa" /\ pc' = "caa" => e < d
    BY DEF Moved, TypeInv, Placed, Climbs
  <1>4. /\ Left(depth, deepest) = LeftAt(pc, loopCount, d, deepest)
        /\ Left(depth, deepest)' = LeftAt(pc', loopCount', e, deepest)
    BY DEF Left
  <1> HIDE DEF d, e
  <1>5. CASE pc' = "done"
    BY SMT, <1>1, <1>2, <1>4, <1>5, LeftValues DEF Moved
  <1>6. CASE pc \in {"idle", "zone"} /\ pc' # "done"
    BY SMT, <1>1, <1>2, <1>4, <1>6, LeftValues DEF Moved
  <1>7. CASE pc \in {"loop", "load"} /\ pc' # "done"
    BY SMT, <1>1, <1>2, <1>4, <1>7, LeftValues DEF Moved
  <1>8. CASE pc \in {"aname", "caa"} /\ pc' # "done"
    BY SMT, <1>1, <1>2, <1>3, <1>4, <1>8, LeftValues DEF Moved
  <1> QED
    BY <1>5, <1>6, <1>7, <1>8 DEF Moved

\* A request takes at most 3 * MaxLoop + deepest + 9 steps, however its aliases
\* and ANAMEs loop, and however often zones and records change under it: neither
\* the loop of HandleRequest nor that of FindANAME can keep the goroutine.
THEOREM StepsCount ==
    ASSUME NEW CONSTANT depth, NEW CONSTANT deepest, Climbs(depth, deepest)
    PROVE  Spec => [][StepCounts(depth, deepest)]_vars
  <1>1. Init => Counted
    BY DEF Init, Counted
  <1>2. ASSUME TypeInv, TypeInv', Counted, [Next]_vars
        PROVE  StepCounts(depth, deepest)
    <2>1. Left(depth, deepest) \in 0 .. 3 * MaxLoop + deepest + 9
      BY <1>2, LeftBounds
    <2>2. ASSUME Ask \/ Step
          PROVE  /\ Left(depth, deepest)' < Left(depth, deepest)
                 /\ Left(depth, deepest)' <= Left(depth, deepest)
      BY <1>2, <2>2, Moves, MoveLowers
    <2>3. ASSUME ~(Ask \/ Step) PROVE Left(depth, deepest)' = Left(depth, deepest)
      BY <1>2, <2>3, StaysPut DEF Left
    <2>4. Left(depth, deepest)' <= Left(depth, deepest)
      <3>1. Left(depth, deepest) <= Left(depth, deepest)
        BY SMT, <2>1, BoundAssumption DEF Climbs
      <3> QED BY <2>2, <2>3, <3>1
    <2> QED BY <2>1, <2>2, <2>4 DEF StepCounts
  <1> QED
    BY <1>1, <1>2, TypeInit, TypeNext, CountedNext, PTL DEF Spec
=============================================================================
