----------------------------- MODULE PolicyProofs -----------------------------
(***************************************************************************)
(* What holds of requests and grants for any number of ids and whatever    *)
(* the files and the configurations say.  The argument: a row whose        *)
(* request is not blocked holds the whole request, as its rules spell it;  *)
(* a grant is a copy of the row it was created from; and that row, once    *)
(* approved, stays as it is, while the configuration changes freely.       *)
(***************************************************************************)
EXTENDS Policy, WellFoundedInduction, TLAPS

(* A row is written under rules the program has loaded, for a file that    *)
(* has passed ValidateBasic.                                               *)
Vetted ==
    \A i \in Ids : rows[i] # NoRow =>
        asked[i] \in Asks /\ under[i] \in Rules /\ ValidateBasic(asked[i])

(* A grant and the approved row it was created from agree.                 *)
GrantsCopied ==
    \A e \in Addresses : grants[e] # NoGrant =>
        /\ HasStatus(grants[e].from, "approved")
        /\ rows[grants[e].from].email = e
        /\ rows[grants[e].from].labels = grants[e].labels

(* A grant gives way to nothing but another grant.                         *)
ApprovedGranted ==
    \A i \in Ids : HasStatus(i, "approved") => grants[rows[i].email] # NoGrant

(* The inductive invariant.                                                *)
PolicyInv ==
    TypeOK /\ Vetted /\ NothingDropped /\ GrantsCopied /\ ApprovedGranted

-----------------------------------------------------------------------------
(* Lists of labels                                                         *)

LEMMA Least ==
    ASSUME NEW S \in SUBSET Nat, S # {}
    PROVE  \E m \in S : \A x \in S : m <= x
<1> DEFINE R == OpToRel(<, Nat)
<1>1. IsWellFoundedOn(R, Nat)
  BY NatLessThanWellFounded
<1>2. PICK m \in S : \A x \in S : ~(<<x, m>> \in R)
  <2> HIDE DEF R
  <2> QED
    BY <1>1, WFMin
<1>3. \A x \in S : ~(x < m)
  BY <1>2 DEF OpToRel
<1> QED
  BY <1>3

(* Numbers up to n have a largest one.                                     *)
LEMMA Largest ==
    ASSUME NEW n \in Nat, NEW S \in SUBSET (1..n), S # {}
    PROVE  \E m \in S : \A x \in S : x <= m
<1> DEFINE D == {n - x : x \in S}
<1>1. D \subseteq Nat
  <2>1. \A x \in S : n - x \in Nat
    OBVIOUS
  <2> QED
    BY <2>1
<1>2. D # {}
  OBVIOUS
<1>3. PICK d \in D : \A y \in D : d <= y
  <2> HIDE DEF D
  <2> QED
    BY <1>1, <1>2, Least
<1>4. PICK m \in S : d = n - m
  BY <1>3
<1>5. \A x \in S : d <= n - x
  BY <1>3
<1> QED
  BY <1>4, <1>5

(* A label of a list, with gaps or without, is filed under what it denotes *)
(* in one of the spellings that it has in the list.                        *)
LEMMA Spelling ==
    ASSUME NEW list, NEW n \in Nat, DOMAIN list \subseteq 1..n,
           NEW k \in DOMAIN Dedupe(list)
    PROVE  \E i \in DOMAIN list :
              Dedupe(list)[k] = list[i] /\ NormalizeLabel(list[i]) = k
<1> DEFINE S == {i \in DOMAIN list : NormalizeLabel(list[i]) = k}
<1>1. k \in {NormalizeLabel(list[i]) : i \in DOMAIN list}
  BY DEF Dedupe
<1>2. S \in SUBSET (1..n) /\ S # {}
  BY <1>1
<1>3. PICK m \in S : \A x \in S : x <= m
  <2> HIDE DEF S
  <2> QED
    BY <1>2, Largest
<1>4. LastWith(list, k) \in S
  <2>1. \E i \in DOMAIN list :
           /\ NormalizeLabel(list[i]) = k
           /\ \A j \in DOMAIN list : NormalizeLabel(list[j]) = k => j <= i
    BY <1>3
  <2> QED
    BY <2>1 DEF LastWith
<1>5. Dedupe(list)[k] = list[LastWith(list, k)]
  BY <1>1 DEF Dedupe
<1> QED
  BY <1>4, <1>5

(* A file lists the labels it asks for and no others.                      *)
LEMMA AskedLabels ==
    ASSUME NEW list
    PROVE  DOMAIN NormalizeLabels(list) = {NormalizeLabel(list[i]) : i \in DOMAIN list}
BY DEF NormalizeLabels, Dedupe

(* The rules file what they allow under what it denotes.                   *)
LEMMA RulesSpelled ==
    ASSUME NEW c \in Rules, NEW k \in DOMAIN c.allowed
    PROVE  NormalizeLabel(c.allowed[k]) = k
<1>0. c # Default
  BY DEF Default
<1>1. PICK f \in Configs \cup {Sample} : c = Loaded(f)
  BY <1>0 DEF Rules
<1> DEFINE kept == [i \in {n \in DOMAIN f.allowed : f.allowed[n] # Blank} |-> f.allowed[i]]
<1>2. c.allowed = Dedupe(kept)
  BY <1>1 DEF Loaded, NormalizeLabelList
<1>3. f.allowed \in Seq(Entries(f.allowed))
  BY ListsAssumption
<1>4. Len(f.allowed) \in Nat /\ DOMAIN f.allowed = 1..Len(f.allowed)
  BY <1>3
<1>5. DOMAIN kept \subseteq 1..Len(f.allowed)
  BY <1>4
<1> HIDE DEF kept
<1>6. PICK i \in DOMAIN kept : Dedupe(kept)[k] = kept[i] /\ NormalizeLabel(kept[i]) = k
  BY <1>2, <1>4, <1>5, Spelling
<1> QED
  BY <1>2, <1>6

(* What Evaluate leaves of a request is spelled and allowed by the rules,  *)
(* and is all of it unless the request is blocked.                         *)
LEMMA Judgement ==
    ASSUME NEW c \in Rules, NEW a
    PROVE  LET labels == Evaluate(c, a).labels
               names == {NormalizeLabel(a.labels[i]) : i \in DOMAIN a.labels}
           IN  /\ labels \in LabelLists
               /\ DOMAIN labels \subseteq DOMAIN c.allowed
               /\ \A k \in DOMAIN labels : labels[k] = c.allowed[k]
               /\ ~Evaluate(c, a).blocked =>
                     DOMAIN labels = names /\ NormalizeLabel(c.visibility) \notin names
<1> DEFINE names == {NormalizeLabel(a.labels[i]) : i \in DOMAIN a.labels}
           labels == NormalizeLabels(a.labels)
           visible == NormalizeLabel(c.visibility)
           kept == (DOMAIN labels \cap DOMAIN c.allowed) \ {visible}
           reserved == {[why |-> "visibility", label |-> Blank] :
                           k \in DOMAIN labels \cap {visible}}
           unlisted == {[why |-> "unlisted", label |-> labels[k]] :
                           k \in DOMAIN labels \ (kept \cup {visible})}
           sensitive == {[why |-> "sensitive", label |-> c.allowed[k]] :
                           k \in kept \cap DOMAIN c.sensitive}
           reasons == reserved \cup unlisted \cup sensitive
<1>1. /\ Evaluate(c, a).blocked = HasBlockingReason(reasons)
      /\ Evaluate(c, a).labels = [k \in kept |-> c.allowed[k]]
  BY DEF Evaluate
<1>2. DOMAIN labels = names
  BY AskedLabels
<1>3. Evaluate(c, a).labels \in LabelLists
  BY <1>1 DEF LabelLists
<1>4. ASSUME ~HasBlockingReason(reasons)
      PROVE  visible \notin DOMAIN labels /\ DOMAIN labels \subseteq DOMAIN c.allowed
  <2>1. ASSUME visible \in DOMAIN labels
        PROVE  FALSE
    <3>1. [why |-> "visibility", label |-> Blank] \in reasons
      BY <2>1
    <3> QED
      BY <1>4, <3>1 DEF HasBlockingReason
  <2>2. ASSUME NEW k \in DOMAIN labels, k \notin DOMAIN c.allowed
        PROVE  FALSE
    <3>1. [why |-> "unlisted", label |-> labels[k]] \in reasons
      BY <2>1, <2>2
    <3> QED
      BY <1>4, <3>1 DEF HasBlockingReason
  <2> QED
    BY <2>1, <2>2
<1> HIDE DEF reasons
<1>5. DOMAIN Evaluate(c, a).labels = kept
  BY <1>1
<1>6. ~Evaluate(c, a).blocked => kept = names /\ visible \notin names
  BY <1>1, <1>2, <1>4
<1>7. \A k \in kept : Evaluate(c, a).labels[k] = c.allowed[k]
  BY <1>1
<1> QED
  BY <1>3, <1>5, <1>6, <1>7

-----------------------------------------------------------------------------
(* The steps of the owner and the processes                                *)

(* Rules in use are valid.                                                 *)
LEMMA LoadedRules ==
    ASSUME TypeOK
    PROVE  \A c \in Load : c \in Rules /\ Valid(c)
BY DEF TypeOK, Load, Rules

LEMMA PlainAddress ==
    ASSUME NEW e \in Addresses
    PROVE  NormalizeEmail(e) \in Addresses /\ NormalizeEmail(NormalizeEmail(e)) = NormalizeEmail(e)
<1>1. NormalizeEmail(NormalizeEmail(e)) = NormalizeEmail(e)
  BY DEF NormalizeEmail
<1>2. \A a \in Asks : NormalizeEmail(NormalizeEmail(a.email)) = NormalizeEmail(a.email)
  BY DEF NormalizeEmail
<1> QED
  BY <1>1, <1>2 DEF Addresses

(* The owner's edits and the daemon's starts and stops leave the tables    *)
(* alone.                                                                  *)
LEMMA TablesKept ==
    ASSUME PolicyInv, UNCHANGED <<rows, grants, history>>,
           file' \in Configs \cup {Sample, NoFile},
           daemon' \in Rules \cup {NoConfig},
           daemon' # NoConfig => ValidateDaemon(daemon')
    PROVE  PolicyInv'
<1>1. TypeOK'
  BY DEF PolicyInv, TypeOK, history
<1>2. Vetted' /\ NothingDropped' /\ GrantsCopied' /\ ApprovedGranted'
  BY DEF PolicyInv, Vetted, NothingDropped, GrantsCopied, ApprovedGranted,
         HasStatus, AskedFor, history
<1> QED
  BY <1>1, <1>2 DEF PolicyInv

LEMMA InitStep ==
    Init => PolicyInv
<1> SUFFICES ASSUME Init PROVE PolicyInv
  OBVIOUS
<1>1. TypeOK
  BY DEF Init, TypeOK
<1>2. Vetted /\ NothingDropped /\ GrantsCopied /\ ApprovedGranted
  BY DEF Init, Vetted, NothingDropped, GrantsCopied, ApprovedGranted, HasStatus
<1> QED
  BY <1>1, <1>2 DEF PolicyInv

(* A new row holds what the judgement left of its request.                 *)
LEMMA SubmitStep ==
    ASSUME PolicyInv, NEW i \in Ids, NEW a \in Asks, NEW c \in Rules, Submit(i, a, c)
    PROVE  PolicyInv'
<1> DEFINE eval == Evaluate(c, a)
           state == IF eval.blocked THEN "blocked" ELSE "pending"
           row == [status |-> state, action |-> a.action,
                   email |-> NormalizeEmail(a.email), labels |-> eval.labels]
           names == {NormalizeLabel(a.labels[n]) : n \in DOMAIN a.labels}
<1> USE DEF PolicyInv
<1>1. /\ eval.labels \in LabelLists
      /\ DOMAIN eval.labels \subseteq DOMAIN c.allowed
      /\ \A k \in DOMAIN eval.labels : eval.labels[k] = c.allowed[k]
      /\ ~eval.blocked => DOMAIN eval.labels = names /\ NormalizeLabel(c.visibility) \notin names
  BY Judgement
<1>2. /\ state \in {"pending", "blocked"}
      /\ state # "blocked" => ~eval.blocked
  OBVIOUS
<1>3. a.email \in Addresses /\ NormalizeEmail(a.email) \in Addresses
  BY DEF Addresses
<1>4. /\ rows[i] = NoRow /\ rows' = [rows EXCEPT ![i] = row]
      /\ asked' = [asked EXCEPT ![i] = a] /\ under' = [under EXCEPT ![i] = c]
      /\ file' = file /\ daemon' = daemon /\ grants' = grants
      /\ ValidateBasic(a)
  BY DEF Submit
<1> HIDE DEF eval, state
<1>5. /\ row.status = state /\ row.email = NormalizeEmail(a.email)
      /\ row.labels = eval.labels /\ row \in Rows
  BY <1>1, <1>2, <1>3 DEF Rows
<1> HIDE DEF row
<1>6. row # NoRow /\ a # NoFile
  BY <1>5, SentinelAssumption
<1>7. /\ rows'[i] = row /\ asked'[i] = a /\ under'[i] = c
      /\ \A x \in Ids \ {i} :
            rows'[x] = rows[x] /\ asked'[x] = asked[x] /\ under'[x] = under[x]
  BY <1>4 DEF TypeOK
<1>8. \A k \in DOMAIN row.labels : NormalizeLabel(row.labels[k]) = k
  BY <1>1, <1>5, RulesSpelled
<1>9. TypeOK'
  <2>1. /\ file' \in Configs \cup {Sample, NoFile}
        /\ daemon' \in Rules \cup {NoConfig}
        /\ daemon' # NoConfig => ValidateDaemon(daemon')
        /\ grants' \in [Addresses -> Grants \cup {NoGrant}]
    BY <1>4 DEF TypeOK
  <2>2. /\ rows' \in [Ids -> Rows \cup {NoRow}]
        /\ asked' \in [Ids -> Asks \cup {NoFile}]
        /\ under' \in [Ids -> Rules \cup {NoConfig}]
    BY <1>4, <1>5 DEF TypeOK
  <2>3. ASSUME NEW x \in Ids
        PROVE  /\ rows'[x] = NoRow <=> asked'[x] = NoFile
               /\ rows'[x] # NoRow =>
                     /\ rows'[x].email = NormalizeEmail(asked'[x].email)
                     /\ \A k \in DOMAIN rows'[x].labels :
                           NormalizeLabel(rows'[x].labels[k]) = k
    <3>1. CASE x = i
      BY <3>1, <1>5, <1>6, <1>7, <1>8
    <3>2. CASE x # i
      BY <3>2, <1>7 DEF TypeOK
    <3> QED
      BY <3>1, <3>2
  <2> QED
    BY <2>1, <2>2, <2>3 DEF TypeOK
<1>10. Vetted'
  <2>1. ASSUME NEW x \in Ids, rows'[x] # NoRow
        PROVE  asked'[x] \in Asks /\ under'[x] \in Rules /\ ValidateBasic(asked'[x])
    BY <2>1, <1>4, <1>7 DEF Vetted
  <2> QED
    BY <2>1 DEF Vetted
<1>11. NothingDropped'
  <2>1. ASSUME NEW x \in Ids, rows'[x] # NoRow, rows'[x].status # "blocked"
        PROVE  LET asks == {NormalizeLabel(asked'[x].labels[n]) : n \in DOMAIN asked'[x].labels}
               IN  /\ DOMAIN rows'[x].labels = asks
                   /\ NormalizeLabel(under'[x].visibility) \notin asks
                   /\ \A k \in asks : /\ k \in DOMAIN under'[x].allowed
                                      /\ rows'[x].labels[k] = under'[x].allowed[k]
    <3>1. CASE x = i
      <4>1. ~eval.blocked
        BY <2>1, <3>1, <1>2, <1>5, <1>7
      <4> QED
        BY <4>1, <3>1, <1>1, <1>5, <1>7
    <3>2. CASE x # i
      BY <2>1, <3>2, <1>7 DEF NothingDropped, HasStatus, AskedFor
    <3> QED
      BY <3>1, <3>2
  <2> QED
    BY <2>1 DEF NothingDropped, HasStatus, AskedFor
<1>12. \A x \in Ids : HasStatus(x, "approved") => x # i
  BY <1>4 DEF HasStatus
<1>13. GrantsCopied'
  <2>1. ASSUME NEW e \in Addresses, grants[e] # NoGrant
        PROVE  /\ grants[e].from \in Ids \ {i}
               /\ HasStatus(grants[e].from, "approved")
               /\ rows[grants[e].from].email = e
               /\ rows[grants[e].from].labels = grants[e].labels
    <3>1. grants[e] \in Grants
      BY <2>1 DEF TypeOK
    <3>2. grants[e].from \in Ids
      BY <3>1 DEF Grants
    <3> QED
      BY <2>1, <3>2, <1>12 DEF GrantsCopied
  <2> QED
    BY <2>1, <1>4, <1>7 DEF GrantsCopied, HasStatus
<1>14. ApprovedGranted'
  <2>1. ASSUME NEW x \in Ids, rows'[x] # NoRow, rows'[x].status = "approved"
        PROVE  grants[rows'[x].email] # NoGrant
    <3>1. x # i
      BY <2>1, <1>2, <1>5, <1>7
    <3> QED
      BY <2>1, <3>1, <1>7 DEF ApprovedGranted, HasStatus
  <2> QED
    BY <2>1, <1>4 DEF ApprovedGranted, HasStatus
<1> QED
  BY <1>9, <1>10, <1>11, <1>13, <1>14

(* A decision changes nothing of a row but its status.                     *)
LEMMA Decision ==
    ASSUME TypeOK, Vetted, NothingDropped, NEW i \in Ids, HasStatus(i, "pending"),
           NEW s \in {"approved", "denied"},
           rows' = [rows EXCEPT ![i].status = s], UNCHANGED <<file, daemon, history>>,
           grants' \in [Addresses -> Grants \cup {NoGrant}]
    PROVE  /\ TypeOK' /\ Vetted' /\ NothingDropped'
           /\ rows'[i].status = s /\ rows'[i] # NoRow
           /\ \A x \in Ids : /\ rows'[x].email = rows[x].email
                             /\ rows'[x].labels = rows[x].labels
                             /\ x # i => rows'[x] = rows[x]
<1> DEFINE row == [rows[i] EXCEPT !.status = s]
<1>1. rows[i] # NoRow /\ rows[i] \in Rows /\ rows[i].status = "pending"
  BY DEF HasStatus, TypeOK
<1>2. /\ row.status = s /\ row.email = rows[i].email /\ row.labels = rows[i].labels
      /\ row \in Rows
  BY <1>1 DEF Rows
<1>3. rows' = [rows EXCEPT ![i] = row]
  OBVIOUS
<1> HIDE DEF row
<1>4. row # NoRow
  BY <1>2, SentinelAssumption
<1>5. rows'[i] = row /\ \A x \in Ids \ {i} : rows'[x] = rows[x]
  BY <1>3 DEF TypeOK
<1>6. asked' = asked /\ under' = under /\ file' = file /\ daemon' = daemon
  BY DEF history
<1>7. \A x \in Ids : /\ rows'[x].email = rows[x].email
                     /\ rows'[x].labels = rows[x].labels
                     /\ rows'[x] = NoRow <=> rows[x] = NoRow
  BY <1>1, <1>2, <1>4, <1>5
<1>8. TypeOK'
  <2>1. /\ file' \in Configs \cup {Sample, NoFile}
        /\ daemon' \in Rules \cup {NoConfig}
        /\ daemon' # NoConfig => ValidateDaemon(daemon')
        /\ asked' \in [Ids -> Asks \cup {NoFile}]
        /\ under' \in [Ids -> Rules \cup {NoConfig}]
    BY <1>6 DEF TypeOK
  <2>2. rows' \in [Ids -> Rows \cup {NoRow}]
    BY <1>2, <1>3 DEF TypeOK
  <2>3. \A x \in Ids :
           /\ rows'[x] = NoRow <=> asked'[x] = NoFile
           /\ rows'[x] # NoRow =>
                 /\ rows'[x].email = NormalizeEmail(asked'[x].email)
                 /\ \A k \in DOMAIN rows'[x].labels :
                       NormalizeLabel(rows'[x].labels[k]) = k
    BY <1>6, <1>7 DEF TypeOK
  <2> QED
    BY <2>1, <2>2, <2>3 DEF TypeOK
<1>9. Vetted'
  BY <1>6, <1>7 DEF Vetted
<1>10. NothingDropped'
  <2>1. \A x \in Ids : rows'[x] # NoRow /\ rows'[x].status # "blocked"
                          => rows[x] # NoRow /\ rows[x].status # "blocked"
    BY <1>1, <1>5, <1>7
  <2> QED
    BY <2>1, <1>6, <1>7 DEF NothingDropped, HasStatus, AskedFor
<1> QED
  BY <1>2, <1>4, <1>5, <1>7, <1>8, <1>9, <1>10

(* The grant takes the place of the sender's earlier one.                  *)
LEMMA ApproveStep ==
    ASSUME PolicyInv, NEW i \in Ids, NEW c \in Rules, Approve(i, c)
    PROVE  PolicyInv'
<1> DEFINE e == rows[i].email
           g == [visibility |-> c.visibility, labels |-> rows[i].labels, from |-> i]
<1> USE DEF PolicyInv
<1>1. /\ HasStatus(i, "pending")
      /\ rows' = [rows EXCEPT ![i].status = "approved"]
      /\ grants' = [grants EXCEPT ![e] = g]
      /\ UNCHANGED <<file, daemon, history>>
  BY DEF Approve
<1>2. rows[i] \in Rows
  BY <1>1 DEF HasStatus, TypeOK
<1>3. e \in Addresses /\ g \in Grants
  BY <1>2 DEF Rows, Grants
<1>4. g.from = i /\ g.labels = rows[i].labels
  OBVIOUS
<1> HIDE DEF e, g
<1>5. g # NoGrant
  BY <1>3, SentinelAssumption
<1>6. grants' \in [Addresses -> Grants \cup {NoGrant}]
  BY <1>1, <1>3 DEF TypeOK
<1>7. grants'[e] = g /\ \A x \in Addresses \ {e} : grants'[x] = grants[x]
  BY <1>1, <1>3 DEF TypeOK
<1>8. /\ TypeOK' /\ Vetted' /\ NothingDropped'
      /\ rows'[i].status = "approved" /\ rows'[i] # NoRow
      /\ \A x \in Ids : /\ rows'[x].email = rows[x].email
                        /\ rows'[x].labels = rows[x].labels
                        /\ x # i => rows'[x] = rows[x]
  BY <1>1, <1>6, Decision
<1>9. GrantsCopied'
  <2>1. ASSUME NEW x \in Addresses, grants'[x] # NoGrant
        PROVE  LET r == grants'[x].from
               IN  /\ rows'[r] # NoRow /\ rows'[r].status = "approved"
                   /\ rows'[r].email = x /\ rows'[r].labels = grants'[x].labels
    <3>1. CASE x = e
      BY <3>1, <1>4, <1>7, <1>8 DEF e
    <3>2. CASE x # e
      <4>1. grants'[x] = grants[x] /\ grants[x] \in Grants
        BY <2>1, <3>2, <1>7 DEF TypeOK
      <4>2. grants[x].from \in Ids
        BY <4>1 DEF Grants
      <4>3. /\ HasStatus(grants[x].from, "approved") /\ rows[grants[x].from].email = x
            /\ rows[grants[x].from].labels = grants[x].labels
        BY <2>1, <4>1 DEF GrantsCopied
      <4>4. grants[x].from # i
        BY <4>3, <1>1 DEF HasStatus
      <4> QED
        BY <4>1, <4>2, <4>3, <4>4, <1>8 DEF HasStatus
    <3> QED
      BY <3>1, <3>2
  <2> QED
    BY <2>1 DEF GrantsCopied, HasStatus
<1>10. ApprovedGranted'
  <2>1. ASSUME NEW x \in Ids, rows'[x] # NoRow, rows'[x].status = "approved"
        PROVE  grants'[rows'[x].email] # NoGrant
    <3>1. CASE rows[x].email = e
      BY <3>1, <1>5, <1>7, <1>8
    <3>2. CASE rows[x].email # e
      <4>1. x # i /\ rows'[x] = rows[x]
        BY <3>2, <1>8 DEF e
      <4>2. rows[x] \in Rows
        BY <2>1, <4>1 DEF TypeOK
      <4>3. rows[x].email \in Addresses
        BY <4>2 DEF Rows
      <4> QED
        BY <2>1, <3>2, <4>1, <4>3, <1>7 DEF ApprovedGranted, HasStatus
    <3> QED
      BY <3>1, <3>2
  <2> QED
    BY <2>1 DEF ApprovedGranted, HasStatus
<1> QED
  BY <1>8, <1>9, <1>10

LEMMA DenyStep ==
    ASSUME PolicyInv, NEW i \in Ids, Deny(i)
    PROVE  PolicyInv'
<1> USE DEF PolicyInv
<1>1. /\ HasStatus(i, "pending") /\ grants' = grants
      /\ rows' = [rows EXCEPT ![i].status = "denied"]
      /\ UNCHANGED <<file, daemon, history>>
  BY DEF Deny
<1>2. grants' \in [Addresses -> Grants \cup {NoGrant}]
  BY <1>1 DEF TypeOK
<1>3. /\ TypeOK' /\ Vetted' /\ NothingDropped'
      /\ rows'[i].status = "denied" /\ rows'[i] # NoRow
      /\ \A x \in Ids : /\ rows'[x].email = rows[x].email
                        /\ rows'[x].labels = rows[x].labels
                        /\ x # i => rows'[x] = rows[x]
  BY <1>1, <1>2, Decision
<1>4. GrantsCopied'
  <2>1. ASSUME NEW x \in Addresses, grants[x] # NoGrant
        PROVE  LET r == grants[x].from
               IN  /\ rows'[r] # NoRow /\ rows'[r].status = "approved"
                   /\ rows'[r].email = x /\ rows'[r].labels = grants[x].labels
    <3>1. grants[x] \in Grants
      BY <2>1 DEF TypeOK
    <3>2. grants[x].from \in Ids
      BY <3>1 DEF Grants
    <3>3. /\ HasStatus(grants[x].from, "approved") /\ rows[grants[x].from].email = x
          /\ rows[grants[x].from].labels = grants[x].labels
      BY <2>1 DEF GrantsCopied
    <3>4. grants[x].from # i
      BY <3>3, <1>1 DEF HasStatus
    <3> QED
      BY <3>2, <3>3, <3>4, <1>3 DEF HasStatus
  <2> QED
    BY <2>1, <1>1 DEF GrantsCopied, HasStatus
<1>5. ApprovedGranted'
  <2>1. ASSUME NEW x \in Ids, rows'[x] # NoRow, rows'[x].status = "approved"
        PROVE  grants[rows'[x].email] # NoGrant
    <3>1. x # i
      BY <2>1, <1>3
    <3> QED
      BY <2>1, <3>1, <1>3 DEF ApprovedGranted, HasStatus
  <2> QED
    BY <2>1, <1>1 DEF ApprovedGranted, HasStatus
<1> QED
  BY <1>3, <1>4, <1>5

LEMMA StepKeepsPolicyInv ==
    PolicyInv /\ [Next]_vars => PolicyInv'
<1> SUFFICES ASSUME PolicyInv, [Next]_vars
             PROVE  PolicyInv'
  OBVIOUS
<1>1. TypeOK /\ \A c \in Load : c \in Rules /\ Valid(c)
  BY LoadedRules DEF PolicyInv
<1>2. daemon # NoConfig => daemon \in Rules
  BY <1>1 DEF TypeOK
<1>3. CASE InitConfig
  BY <1>1, <1>3, TablesKept DEF InitConfig, TypeOK
<1>4. CASE StartDaemon
  BY <1>1, <1>4, TablesKept DEF StartDaemon, TypeOK
<1>5. CASE StopDaemon
  BY <1>1, <1>5, TablesKept DEF StopDaemon, TypeOK
<1>6. ASSUME NEW c \in Configs, Edit(c)
      PROVE  PolicyInv'
  BY <1>1, <1>6, TablesKept DEF Edit, TypeOK
<1>7. ASSUME NEW i \in Ids, NEW a \in Asks, SubmitToDaemon(i, a)
      PROVE  PolicyInv'
  BY <1>2, <1>7, SubmitStep DEF SubmitToDaemon
<1>8. ASSUME NEW i \in Ids, NEW a \in Asks, SubmitLocally(i, a)
      PROVE  PolicyInv'
  BY <1>1, <1>8, SubmitStep DEF SubmitLocally
<1>9. ASSUME NEW i \in Ids, ApproveLocally(i)
      PROVE  PolicyInv'
  BY <1>1, <1>9, ApproveStep DEF ApproveLocally
<1>10. ASSUME NEW i \in Ids, Deny(i)
       PROVE  PolicyInv'
  BY <1>10, DenyStep
<1>11. ASSUME NEW i \in Ids, NEW user, NEW place, Command(i, user, place)
       PROVE  PolicyInv'
  BY <1>2, <1>11, ApproveStep, DenyStep DEF Command, Accepts
<1>12. CASE UNCHANGED vars
  BY <1>1, <1>12, TablesKept DEF vars, TypeOK
<1> QED
  BY <1>3, <1>4, <1>5, <1>6, <1>7, <1>8, <1>9, <1>10, <1>11, <1>12 DEF Next

(* The strengthened invariant of requests and grants.                      *)
THEOREM PolicyInvariant == Spec => []PolicyInv
<1>1. Init => PolicyInv
  BY InitStep
<1>2. PolicyInv /\ [Next]_vars => PolicyInv'
  BY StepKeepsPolicyInv
<1> QED
  BY <1>1, <1>2, PTL DEF Spec

-----------------------------------------------------------------------------
(* The properties                                                          *)

(* What a grant puts on mail has been allowed, and is what was asked for.  *)
LEMMA VettedGrants ==
    PolicyInv => GrantsAsVetted
<1> SUFFICES ASSUME PolicyInv, NEW e \in Addresses, grants[e] # NoGrant
             PROVE  LET g == grants[e] IN
                    /\ HasStatus(g.from, "approved")
                    /\ DOMAIN CompileGrant(g)
                          = AskedFor(g.from) \cup {NormalizeLabel(g.visibility)}
                    /\ AskedFor(g.from) \subseteq DOMAIN under[g.from].allowed
  BY DEF GrantsAsVetted
<1> DEFINE g == grants[e]
<1>1. g \in Grants
  BY DEF PolicyInv, TypeOK
<1>2. g.from \in Ids
  BY <1>1 DEF Grants
<1>3. HasStatus(g.from, "approved") /\ rows[g.from].labels = g.labels
  BY DEF PolicyInv, GrantsCopied
<1>4. rows[g.from] # NoRow /\ ~HasStatus(g.from, "blocked")
  BY <1>3 DEF HasStatus
<1>5. /\ DOMAIN rows[g.from].labels = AskedFor(g.from)
      /\ AskedFor(g.from) \subseteq DOMAIN under[g.from].allowed
  BY <1>2, <1>4 DEF PolicyInv, NothingDropped
<1>6. DOMAIN CompileGrant(g) = {NormalizeLabel(g.visibility)} \cup DOMAIN g.labels
  BY DEF CompileGrant
<1> QED
  BY <1>3, <1>5, <1>6

(* Addresses of one mailbox have one normal form, and only they.           *)
LEMMA Lookup ==
    PolicyInv => LookupFindsMailbox
<1> SUFFICES ASSUME PolicyInv, NEW e \in Addresses
             PROVE  LookupGrant(e) # NoGrant
                       <=> \E i \in Ids : HasStatus(i, "approved") /\ asked[i].email[1] = e[1]
  BY DEF LookupFindsMailbox
<1> USE DEF PolicyInv
<1>1. NormalizeEmail(e) \in Addresses
  BY PlainAddress
<1>2. \A i \in Ids : HasStatus(i, "approved") =>
         (rows[i].email = NormalizeEmail(e) <=> asked[i].email[1] = e[1])
  BY DEF TypeOK, HasStatus, NormalizeEmail
<1>3. ASSUME LookupGrant(e) # NoGrant
      PROVE  \E i \in Ids : HasStatus(i, "approved") /\ rows[i].email = NormalizeEmail(e)
  <2> DEFINE g == grants[NormalizeEmail(e)]
  <2>1. g # NoGrant /\ g \in Grants
    BY <1>1, <1>3 DEF LookupGrant, TypeOK
  <2>2. g.from \in Ids
    BY <2>1 DEF Grants
  <2> QED
    BY <1>1, <2>1, <2>2 DEF GrantsCopied
<1>4. ASSUME NEW i \in Ids, HasStatus(i, "approved"), rows[i].email = NormalizeEmail(e)
      PROVE  LookupGrant(e) # NoGrant
  BY <1>4 DEF ApprovedGranted, LookupGrant
<1> QED
  BY <1>2, <1>3, <1>4

(* A request for one label that the rules allow is blocked for the wording *)
(* of a sensitivity reason, if at all.                                     *)
LEMMA Honoured ==
    ASSUME NEW c \in Rules, Valid(c), NEW k \in DOMAIN c.allowed
    PROVE  Evaluate(c, [labels |-> <<c.allowed[k]>>]).blocked
              <=> k \in DOMAIN c.sensitive /\ c.allowed[k] \in Misread
<1> DEFINE l == c.allowed[k]
           labels == NormalizeLabels(<<l>>)
           visible == NormalizeLabel(c.visibility)
           kept == (DOMAIN labels \cap DOMAIN c.allowed) \ {visible}
           reasons ==
               {[why |-> "visibility", label |-> Blank] : x \in DOMAIN labels \cap {visible}}
               \cup {[why |-> "unlisted", label |-> labels[x]] :
                       x \in DOMAIN labels \ (kept \cup {visible})}
               \cup {[why |-> "sensitive", label |-> c.allowed[x]] :
                       x \in kept \cap DOMAIN c.sensitive}
<1>1. Evaluate(c, [labels |-> <<l>>]).blocked = HasBlockingReason(reasons)
  BY DEF Evaluate
<1>2. DOMAIN labels = {k}
  <2>1. NormalizeLabel(l) = k
    BY RulesSpelled
  <2>2. DOMAIN <<l>> = {1} /\ <<l>>[1] = l
    OBVIOUS
  <2>3. {NormalizeLabel(<<l>>[i]) : i \in DOMAIN <<l>>} = {k}
    BY <2>1, <2>2
  <2> QED
    BY <2>3, AskedLabels
<1>3. k # visible
  BY DEF Valid
<1> HIDE DEF labels, visible
<1>4. kept = {k}
  BY <1>2, <1>3
<1>5. reasons = {[why |-> "sensitive", label |-> c.allowed[x]] : x \in {k} \cap DOMAIN c.sensitive}
  BY <1>2, <1>3, <1>4
<1> HIDE DEF reasons
<1>6. \A r \in reasons : r.why = "sensitive" /\ r.label = l /\ k \in DOMAIN c.sensitive
  BY <1>5
<1>7. k \in DOMAIN c.sensitive => \E r \in reasons : r.label = l
  <2>1. ASSUME k \in DOMAIN c.sensitive
        PROVE  [why |-> "sensitive", label |-> l] \in reasons
    BY <2>1, <1>5
  <2> QED
    BY <2>1
<1>8. HasBlockingReason(reasons) <=> k \in DOMAIN c.sensitive /\ l \in Misread
  BY <1>6, <1>7 DEF HasBlockingReason
<1> QED
  BY <1>1, <1>8

(* The types; above all, every label is filed under what it denotes, and   *)
(* the daemon has loaded valid rules.                                      *)
THEOREM PolicyTypeCorrect == Spec => []TypeOK
<1>1. PolicyInv => TypeOK
  BY DEF PolicyInv
<1> QED
  BY <1>1, PolicyInvariant, PTL

(* A request that is not blocked is stored whole.                          *)
THEOREM NothingIsDropped == Spec => []NothingDropped
<1>1. PolicyInv => NothingDropped
  BY DEF PolicyInv
<1> QED
  BY <1>1, PolicyInvariant, PTL

(* A grant is what was vetted, however the configuration changes.          *)
THEOREM GrantsStayAsVetted == Spec => []GrantsAsVetted
BY PolicyInvariant, VettedGrants, PTL

(* A lookup finds the grant of a mailbox in any spelling of its address.   *)
THEOREM LookupsFindMailboxes == Spec => []LookupFindsMailbox
BY PolicyInvariant, Lookup, PTL

(* What the daemon announces it lets pass.                                 *)
THEOREM InfoIsAlwaysHonoured == Spec => []InfoIsHonoured
<1>1. ASSUME PolicyInv, daemon # NoConfig, NEW l \in Announced
      PROVE  Evaluate(daemon, [labels |-> <<l>>]).blocked
                <=> NormalizeLabel(l) \in DOMAIN daemon.sensitive /\ l \in Misread
  <2>1. daemon \in Rules /\ Valid(daemon)
    BY <1>1 DEF PolicyInv, TypeOK, ValidateDaemon
  <2>2. PICK k \in DOMAIN daemon.allowed : l = daemon.allowed[k]
    BY <1>1 DEF Announced
  <2>3. NormalizeLabel(l) = k
    BY <2>1, <2>2, RulesSpelled
  <2> QED
    BY <2>1, <2>2, <2>3, Honoured
<1>2. PolicyInv => InfoIsHonoured
  BY <1>1 DEF InfoIsHonoured
<1> QED
  BY <1>2, PolicyInvariant, PTL
=============================================================================
