-------------------------------- MODULE Policy --------------------------------
(***************************************************************************)
(* What a request asks for and what is granted in the end:                 *)
(* internal/request normalises, internal/config loads the owner's rules,   *)
(* internal/policy evaluates, internal/gmailfilter compiles a grant into   *)
(* the labels that Gmail is to add.                                        *)
(*                                                                         *)
(* The owner edits the configuration file at any time.  Each command reads *)
(* it anew, the daemon once, when it starts; a command without --config    *)
(* runs under the defaults, on the same tables.  So a request may be       *)
(* judged under one configuration and approved under another.              *)
(*                                                                         *)
(* An address and a label are pairs of what they denote and how they are   *)
(* written.  A list of labels without repetition, sorted by what they      *)
(* denote, is a function from that to the spelling.  Left out: blanks at   *)
(* the ends, lengths and control characters, the paths (those of the state *)
(* are the default ones, as in the sample), Gmail and keyring settings of  *)
(* the configuration, and what an approval does in Gmail,      *)
(* which is module Manager's.                                              *)
(***************************************************************************)
EXTENDS Naturals, Sequences

CONSTANTS
    Ids,             \* request ids
    Asks,            \* request files: address, action and list of labels
    Configs,         \* contents the owner may give to the configuration file
    Sample,          \* the one "config init" writes
    DefaultLabel,    \* DefaultVisibilityLabel
    Blank,           \* a label or an id of blanks only
    Misread,         \* spellings with "not allowlisted" or "visibility label"
    NoFile, NoConfig, NoRow, NoGrant, NoChannel, DirectMessage

VARIABLES
    file,            \* the configuration file
    daemon,          \* the configuration the daemon has loaded
    rows,            \* table requests: id -> row
    grants,          \* table grants: address -> grant
    asked, under     \* history: the file behind a row, and the rules it met

history == <<asked, under>>
vars == <<file, daemon, rows, grants, history>>

NormalizeLabel(l) == l[1]

LastWith(list, k) ==
    CHOOSE i \in DOMAIN list :
        /\ NormalizeLabel(list[i]) = k
        /\ \A j \in DOMAIN list : NormalizeLabel(list[j]) = k => j <= i

(* Of the spellings of one label the last one stays.                       *)
Dedupe(list) ==
    [k \in {NormalizeLabel(list[i]) : i \in DOMAIN list} |-> list[LastWith(list, k)]]

-----------------------------------------------------------------------------
(* internal/request                                                        *)

NormalizeEmailKeepingCase(e) == e

NormalizeEmail(e) == <<e[1], "plain">>

Addresses == {a.email : a \in Asks} \cup {NormalizeEmail(a.email) : a \in Asks}

(* Lists, patterns and display names are no single bare address.           *)
BareEmail(e) == e[2] \in {"plain", "capitals"}

NormalizeLabels(labels) == Dedupe(labels)

ValidateBasic(a) ==
    /\ BareEmail(a.email)
    /\ \A i \in DOMAIN a.labels : a.labels[i] # Blank

-----------------------------------------------------------------------------
(* internal/config                                                         *)

NormalizeLabelList(labels) ==
    Dedupe([i \in {n \in DOMAIN labels : labels[n] # Blank} |-> labels[i]])

(* applyDefaults.                                                          *)
Loaded(c) ==
    [visibility |-> IF c.visibility = Blank THEN DefaultLabel ELSE c.visibility,
     allowed    |-> NormalizeLabelList(c.allowed),
     sensitive  |-> NormalizeLabelList(c.sensitive),
     channel    |-> c.channel,
     users      |-> c.users \ {Blank},
     client     |-> c.client]

ValidUnseparated(c) ==
    /\ DOMAIN c.sensitive \subseteq DOMAIN c.allowed
    /\ c.channel # NoChannel => c.users # {}

(* Validate.                                                               *)
Valid(c) ==
    /\ NormalizeLabel(c.visibility) \notin DOMAIN c.allowed
    /\ DOMAIN c.sensitive \subseteq DOMAIN c.allowed
    /\ c.channel # NoChannel => c.users # {}

(* Sockets are opened to one known client user only.                       *)
ValidateDaemon(c) == Valid(c) /\ c.client

(* No label is allowed, and no client.                                     *)
Default ==
    [visibility |-> DefaultLabel, allowed |-> <<>>, sensitive |-> <<>>,
     channel |-> NoChannel, users |-> {}, client |-> FALSE]

(* What the owner can put into the file, as the program loads it.          *)
Rules == {Loaded(c) : c \in Configs \cup {Sample}} \cup {Default}

(* Load: what a process may find, with the file's path or with none.       *)
Load == {c \in {Loaded(f) : f \in {file} \ {NoFile}} \cup {Default} : Valid(c)}

-----------------------------------------------------------------------------
(* internal/policy and internal/gmailfilter                                *)

UnlistedPasses(reasons) == \E r \in reasons : r.why = "visibility"

(* A reason blocks by its wording, in which it quotes the label.           *)
HasBlockingReason(reasons) ==
    \E r \in reasons : r.why \in {"visibility", "unlisted"} \/ r.label \in Misread

Evaluate(c, a) ==
    LET labels == NormalizeLabels(a.labels)
        visible == NormalizeLabel(c.visibility)
        kept == (DOMAIN labels \cap DOMAIN c.allowed) \ {visible}
        reasons ==
            {[why |-> "visibility", label |-> Blank] : k \in DOMAIN labels \cap {visible}}
            \cup {[why |-> "unlisted", label |-> labels[k]] :
                    k \in DOMAIN labels \ (kept \cup {visible})}
            \cup {[why |-> "sensitive", label |-> c.allowed[k]] :
                    k \in kept \cap DOMAIN c.sensitive}
    IN  [blocked |-> HasBlockingReason(reasons),
         labels  |-> [k \in kept |-> c.allowed[k]]]

(* CompileGrant: the visibility label and the classification labels, each  *)
(* once.                                                                   *)
CompileGrant(g) ==
    [k \in {NormalizeLabel(g.visibility)} \cup DOMAIN g.labels |->
        IF k \in DOMAIN g.labels THEN g.labels[k] ELSE g.visibility]

-----------------------------------------------------------------------------
(* The tables                                                              *)

(* Some of the labels that a configuration allows, as it spells them.      *)
LabelLists == UNION {{[k \in K |-> c.allowed[k]] : K \in SUBSET DOMAIN c.allowed} : c \in Rules}

Rows == [status : {"pending", "blocked", "denied", "approved"},
         action : {a.action : a \in Asks}, email : Addresses, labels : LabelLists]

Grants == [visibility : {c.visibility : c \in Rules}, labels : LabelLists, from : Ids]

Entries(list) == {list[i] : i \in DOMAIN list}

(* The lists of the files are sequences, and the sentinels no records.     *)
ASSUME ListsAssumption ==
    \A list \in {a.labels : a \in Asks} \cup {c.allowed : c \in Configs \cup {Sample}} :
        list \in Seq(Entries(list))

ASSUME SentinelAssumption ==
    NoFile \notin Asks /\ NoRow \notin Rows /\ NoGrant \notin Grants

-----------------------------------------------------------------------------
(* The owner and the processes                                             *)

Init ==
    /\ file = NoFile /\ daemon = NoConfig
    /\ rows = [i \in Ids |-> NoRow]
    /\ grants = [e \in Addresses |-> NoGrant]
    /\ asked = [i \in Ids |-> NoFile] /\ under = [i \in Ids |-> NoConfig]

(* "config init" leaves an existing file alone.                            *)
InitConfig ==
    /\ file = NoFile
    /\ file' = Sample
    /\ UNCHANGED <<daemon, rows, grants, history>>

Edit(c) ==
    /\ file' = c
    /\ UNCHANGED <<daemon, rows, grants, history>>

StartDaemonUnchecked ==
    /\ daemon = NoConfig /\ file # NoFile
    /\ daemon' = Loaded(file)
    /\ UNCHANGED <<file, rows, grants, history>>

StartDaemon ==
    /\ daemon = NoConfig
    /\ daemon' \in {c \in Load : ValidateDaemon(c)}
    /\ UNCHANGED <<file, rows, grants, history>>

StopDaemon ==
    /\ daemon # NoConfig
    /\ daemon' = NoConfig
    /\ UNCHANGED <<file, rows, grants, history>>

(* Manager.Submit.  Under an id of its own; Intake has files that share    *)
(* one.                                                                    *)
Submit(i, a, c) ==
    /\ ValidateBasic(a)
    /\ rows[i] = NoRow
    /\ LET eval == Evaluate(c, a)
       IN  rows' = [rows EXCEPT ![i] =
                       [status |-> IF eval.blocked THEN "blocked" ELSE "pending",
                        action |-> a.action, email |-> NormalizeEmail(a.email),
                        labels |-> eval.labels]]
    /\ asked' = [asked EXCEPT ![i] = a]
    /\ under' = [under EXCEPT ![i] = c]
    /\ UNCHANGED <<file, daemon, grants>>

SubmitToDaemon(i, a) == daemon # NoConfig /\ Submit(i, a, daemon)

SubmitLocally(i, a) == \E c \in Load : Submit(i, a, c)

(* The labels that system.info tells the client it may ask for.            *)
Announced == {daemon.allowed[k] : k \in DOMAIN daemon.allowed}

LookupGrant(e) == grants[NormalizeEmail(e)]

HasStatus(i, status) == rows[i] # NoRow /\ rows[i].status = status

ApproveUndenied(i, c) ==
    LET e == rows[i].email IN
    /\ rows[i] # NoRow /\ rows[i].status \notin {"denied", "approved"}
    /\ rows[i].action = "update" => grants[e] # NoGrant
    /\ rows' = [rows EXCEPT ![i].status = "approved"]
    /\ grants' = [grants EXCEPT ![e] =
                     [visibility |-> c.visibility, labels |-> rows[i].labels, from |-> i]]
    /\ UNCHANGED <<file, daemon, history>>

(* Manager.Approve: the stored labels, with the visibility label of the    *)
(* approving process.  The policy is not asked again.                      *)
Approve(i, c) ==
    LET e == rows[i].email IN
    /\ HasStatus(i, "pending")
    /\ rows[i].action = "update" => grants[e] # NoGrant
    /\ rows' = [rows EXCEPT ![i].status = "approved"]
    /\ grants' = [grants EXCEPT ![e] =
                     [visibility |-> c.visibility, labels |-> rows[i].labels, from |-> i]]
    /\ UNCHANGED <<file, daemon, history>>

ApproveLocally(i) == \E c \in Load : Approve(i, c)

(* Also under the defaults: a command can always load them.                *)
Deny(i) ==
    /\ HasStatus(i, "pending")
    /\ rows' = [rows EXCEPT ![i].status = "denied"]
    /\ UNCHANGED <<file, daemon, grants, history>>

(* onMessage: in its channel, or else in direct messages, the bot listens  *)
(* to the users it knows.                                                  *)
Accepts(user, place) ==
    /\ daemon # NoConfig
    /\ user \in daemon.users
    /\ place = IF daemon.channel = NoChannel THEN DirectMessage ELSE daemon.channel

Command(i, user, place) ==
    /\ Accepts(user, place)
    /\ Approve(i, daemon) \/ Deny(i)

Users == UNION {c.users : c \in Configs}
Places == {c.channel : c \in Configs} \cup {DirectMessage}

Next ==
    \/ InitConfig \/ StartDaemon \/ StopDaemon
    \/ \E c \in Configs : Edit(c)
    \/ \E i \in Ids :
          \/ \E a \in Asks : SubmitToDaemon(i, a) \/ SubmitLocally(i, a)
          \/ ApproveLocally(i) \/ Deny(i)
          \/ \E user \in Users, place \in Places : Command(i, user, place)

Spec == Init /\ [][Next]_vars

-----------------------------------------------------------------------------
(* Properties                                                              *)

(* Only a valid configuration is in use, rows are written for normal       *)
(* addresses, and labels are filed under what they denote.                 *)
TypeOK ==
    /\ file \in Configs \cup {Sample, NoFile}
    /\ daemon \in Rules \cup {NoConfig}
    /\ daemon # NoConfig => ValidateDaemon(daemon)
    /\ rows \in [Ids -> Rows \cup {NoRow}]
    /\ grants \in [Addresses -> Grants \cup {NoGrant}]
    /\ asked \in [Ids -> Asks \cup {NoFile}]
    /\ under \in [Ids -> Rules \cup {NoConfig}]
    /\ \A i \in Ids :
          /\ rows[i] = NoRow <=> asked[i] = NoFile
          /\ rows[i] # NoRow =>
                /\ rows[i].email = NormalizeEmail(asked[i].email)
                /\ \A k \in DOMAIN rows[i].labels :
                      NormalizeLabel(rows[i].labels[k]) = k

AskedFor(i) == {NormalizeLabel(asked[i].labels[n]) : n \in DOMAIN asked[i].labels}

(* The evaluation leaves labels out of a request while it looks for        *)
(* reasons to block it.  What the owner is asked to approve must be the    *)
(* whole request: every label asked for, in whatever spelling, is there as *)
(* the rules spell it, and the rules allow it.                             *)
NothingDropped ==
    \A i \in Ids : rows[i] # NoRow /\ ~HasStatus(i, "blocked") =>
        /\ DOMAIN rows[i].labels = AskedFor(i)
        /\ NormalizeLabel(under[i].visibility) \notin AskedFor(i)
        /\ \A k \in AskedFor(i) :
              k \in DOMAIN under[i].allowed /\ rows[i].labels[k] = under[i].allowed[k]

(* What a grant puts on mail is the visibility label and the labels its    *)
(* request asked for, all allowed when it was judged, however the          *)
(* configuration changed up to the approval and after it.                  *)
GrantsAsVetted ==
    \A e \in Addresses : grants[e] # NoGrant =>
        LET g == grants[e] IN
        /\ HasStatus(g.from, "approved")
        /\ DOMAIN CompileGrant(g) = AskedFor(g.from) \cup {NormalizeLabel(g.visibility)}
        /\ AskedFor(g.from) \subseteq DOMAIN under[g.from].allowed

(* A lookup finds a grant exactly if a request for the same mailbox was    *)
(* approved, however the address is written here and was written there.    *)
LookupFindsMailbox ==
    \A e \in Addresses : BareEmail(e) =>
        (LookupGrant(e) # NoGrant
            <=> \E i \in Ids : HasStatus(i, "approved") /\ asked[i].email[1] = e[1])

(* "client info" announces the labels that may be asked for: the daemon    *)
(* that announces one lets it pass (unless the wording of its reason is    *)
(* misread), so no label is announced and reserved at the same time.       *)
InfoIsHonoured ==
    daemon # NoConfig =>
        \A l \in Announced :
            Evaluate(daemon, [labels |-> <<l>>]).blocked
                <=> NormalizeLabel(l) \in DOMAIN daemon.sensitive /\ l \in Misread
=============================================================================
