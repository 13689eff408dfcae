------------------------------- MODULE MCPolicy -------------------------------
(* Two mailboxes, written in two ways, and labels that sort in the order   *)
(* of their numbers: 1 to 4 are ordinary ones, 5 has a name that reads     *)
(* like a reason, and 9 is the default visibility label.                   *)
EXTENDS Policy, TLC

Money == <<1, "plain">>
MONEY == <<1, "capitals">>
Travel == <<2, "plain">>
TRAVEL == <<2, "capitals">>
Secret == <<4, "plain">>
Odd == <<5, "plain">>
Donna == <<9, "plain">>
DONNA == <<9, "capitals">>

File(visibility, allowed, sensitive, channel, users) ==
    [visibility |-> visibility, allowed |-> allowed, sensitive |-> sensitive,
     channel |-> channel, users |-> users, client |-> TRUE]

TheSample ==
    [File(Donna, <<Money, Travel>>, <<>>, NoChannel, {}) EXCEPT !.client = FALSE]

(* Rules with a channel, rules for direct messages under which "travel" is *)
(* the visibility label, and three kinds of invalid rules.                 *)
TheConfigs ==
    {File(Blank, <<MONEY, Travel, Money, Blank>>, <<MONEY>>, "office", {"ann", Blank}),
     File(TRAVEL, <<MONEY, Odd>>, <<Odd>>, NoChannel, {"ann", "bob"}),
     File(TRAVEL, <<Travel>>, <<>>, NoChannel, {}),
     File(Donna, <<Money>>, <<Travel>>, NoChannel, {}),
     File(Donna, <<Money>>, <<>>, "office", {Blank})}

Ask(email, action, labels) == [email |-> email, action |-> action, labels |-> labels]

TheAsks ==
    {Ask(<<1, "plain">>, "grant", <<>>),
     Ask(<<1, "capitals">>, "update", <<TRAVEL, Money, MONEY>>),
     Ask(<<2, "plain">>, "grant", <<Secret, Travel>>),
     Ask(<<2, "capitals">>, "grant", <<MONEY>>),
     Ask(<<1, "capitals">>, "grant", <<Odd, TRAVEL>>),
     Ask(<<2, "capitals">>, "update", <<Odd>>),
     Ask(<<1, "plain">>, "update", <<Money, DONNA>>),
     Ask(<<1, "plain">>, "grant", <<Money, Blank>>),
     Ask(<<1, "list">>, "grant", <<Money>>)}

TheMisread == {Odd}

Symmetry == Permutations(Ids)
=============================================================================
