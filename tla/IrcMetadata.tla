----------------------------- MODULE IrcMetadata -----------------------------
(***************************************************************************)
(* METADATA of users and channels on the server under test.  A key with    *)
(* its value is a pair.                                                    *)
(***************************************************************************)
EXTENDS IrcUsers

InvalidValues == {"invalid UTF-8", "too many chars", "too many bytes"}
UserOf(irc, c, target) == IF target = "*" THEN c ELSE ClientOf(irc, target)

MetadataOf(irc, c, target) ==
    IF Exists(irc, target) THEN Chan(irc, target).metadata ELSE irc.metadata[UserOf(irc, c, target)]

WithMetadata(irc, c, target, pairs) ==
    IF Exists(irc, target) THEN [irc EXCEPT !.chans[target].metadata = pairs]
    ELSE [irc EXCEPT !.metadata[UserOf(irc, c, target)] = pairs]

HasTarget(irc, target) == target = "*" \/ Exists(irc, target) \/ HasNick(irc, target)

\* The members of a channel that invites read its metadata, and a user that of
\* others, perhaps only of those it shares a channel with.
MayRead(irc, c, target) ==
    IF Exists(irc, target) THEN OnChannel(irc, c, target) \/ "i" \notin Chan(irc, target).modes
    ELSE LET d == UserOf(irc, c, target)
         IN  d = c \/ Shares(irc, c, d) \/ ~Chooses(irc, "metadata is for channels")

MaySet(irc, c, target) ==
    IF Exists(irc, target) THEN IsOp(irc, c, target) ELSE UserOf(irc, c, target) = c

ValueOf(pairs, key) == (CHOOSE pair \in pairs : pair[1] = key)[2]
HasKey(pairs, key) == \E pair \in pairs : pair[1] = key
Drops(pairs, key) == {pair \in pairs : pair[1] # key}

\* What a key is now, as told about an owner: `nick` is who is told.
KeyRow(nick, owner, pairs, key) ==
    IF HasKey(pairs, key) THEN Line("server", "RPL_KEYVALUE", <<nick, owner, key, "*", ValueOf(pairs, key)>>)
    ELSE Line("server", "RPL_KEYNOTSET", <<nick, owner, key, "not set">>)

\* The owner in an answer: a server may repeat the "*" of a client, and knows
\* no other name of one that is not registered.
Owner(irc, c, target) ==
    IF target = "*" /\ ~Chooses(irc, "keeps *") THEN NickOrStar(irc, c) ELSE target

KeyRows(irc, c, target, keys) ==
    [i \in DOMAIN keys |-> KeyRow(NickOrStar(irc, c), Owner(irc, c, target), MetadataOf(irc, c, target), keys[i])]

KeysOf(pairs) == SetToSeq({pair[1] : pair \in pairs})

\* Those who see what an owner does.
Audience(irc, c, target) ==
    IF Exists(irc, target) THEN Chan(irc, target).members \ {c}
    ELSE {d \in Online(irc) \ {c} : Shares(irc, c, d)}

\* The keys of a target become `pairs`, and subscribers are told of `keys`.
Notifies(e, c, target, pairs, keys) ==
    LET irc == WithMetadata(e.irc, c, target, pairs)
        owner == IF target = "*" THEN NickOrStar(irc, c) ELSE target
        leaks == irc.fault = <<"leaks", "metadata">>
        subscribers(key) ==
            IF irc.fault = <<"silent", "metadata">> THEN {}
            ELSE IF leaks THEN Online(irc) \ {c}
            ELSE {d \in Audience(irc, c, target) : key \in irc.subs[d]}
        row(d, key) == KeyRow(irc.nick[d], owner, pairs, key)
    IN  FoldLeft(LAMBDA f, key : TellEach(f, subscribers(key), row(c, key).cmd, LAMBDA d : row(d, key)),
                 Becomes(e, irc), keys)

MetadataBatch(e, c, target, rows) == InBatch(e, c, <<"metadata", Owner(e.irc, c, target)>>, rows)

NoPermission(e, c, target, key) ==
    Fail(e, c, <<"METADATA", "KEY_NO_PERMISSION", target, key, "no">>)

GetKeys(e, c, target, keys) == MetadataBatch(e, c, target, KeyRows(e.irc, c, target, keys))

\* A key, and its value unless it is unset.
SetKey(e, c, target, args) ==
    LET key == args[1]
        old == MetadataOf(e.irc, c, target)
        pairs == CASE e.irc.fault = <<"forgets", "SET">> \/ (Len(args) = 1 /\ e.irc.fault = <<"forgets", "unset">>) -> old
                   [] Len(args) = 1 -> Drops(old, key)
                   [] OTHER -> Drops(old, key) \cup {<<key, args[2]>>}
        shown == IF Len(args) = 1 THEN {} ELSE {<<key, args[2]>>}
        answer == KeyRow(NickOrStar(e.irc, c), Owner(e.irc, c, target), shown, key)
    IN  IF Refused(e.irc, "METADATA", ~MaySet(e.irc, c, target)) THEN NoPermission(e, c, target, key)
        ELSE IF Len(args) = 2 /\ Refused(e.irc, "value", args[2] \in InvalidValues)
        THEN Fail(e, c, IF Chooses(e.irc, "INVALID_UTF8") /\ args[2] = "invalid UTF-8"
                        THEN <<"METADATA", "INVALID_UTF8", "invalid">>
                        ELSE <<"METADATA", "INVALID_VALUE", key, "invalid">>)
        ELSE Notifies(Tell(e, {c}, answer), c, target, pairs, <<key>>)

ClearKeys(e, c, target) ==
    LET keys == KeysOf(MetadataOf(e.irc, c, target))
        gone == IF e.irc.fault = <<"forgets", "CLEAR">> THEN Tail(keys) ELSE keys
        cleared == Notifies(e, c, target, {}, gone)
    IN  IF Refused(e.irc, "METADATA", ~MaySet(e.irc, c, target)) THEN NoPermission(e, c, target, "*")
        ELSE MetadataBatch(cleared, c, target, KeyRows(cleared.irc, c, target, gone))

SubscribesTo(e, c, keys) ==
    LET known == Becomes(e, [e.irc EXCEPT !.subs[c] = @ \cup {keys[i] : i \in DOMAIN keys}])
        acked == IF e.irc.fault = <<"forgets", "SUB">> THEN Tail(keys) ELSE keys
        row(S) == Listing(Numeric(e.irc, c, "RPL_METADATASUBOK", <<>>), {<<key, "">> : key \in S})
        all == {acked[i] : i \in DOMAIN acked}
        told == IF Chooses(e.irc, "one SUBOK per key")
                THEN FoldLeft(LAMBDA f, key : Tell(f, {c}, row({key})), known, acked)
                ELSE Tell(known, {c}, row(all))
    IN  IF Chooses(e.irc, "SYNC later") THEN Reply(told, c, "RPL_METADATASYNCLATER", <<"*", "4">>) ELSE told

\* A target, a subcommand, and what it takes.
METADATA(e, c, args) ==
    LET target == args[1]
        sub == args[2]
        rest == SubSeq(args, 3, Len(args))
        reads == sub \in {"GET", "LIST", "SYNC"}
        keys == KeysOf(MetadataOf(e.irc, c, target))
        subscribed == SelectSeq(keys, LAMBDA key : key \in e.irc.subs[c])
        noTarget == Fail(e, c, <<"METADATA", "INVALID_TARGET", target, "no">>)
    IN  CASE ~HasTarget(e.irc, target) ->
                IF e.irc.fault = <<"wrong", "RPL_METADATAEND">>
                THEN Reply(noTarget, c, "RPL_METADATAEND", <<"end">>) ELSE noTarget
          [] reads /\ Refused(e.irc, "METADATA", ~MayRead(e.irc, c, target)) -> NoPermission(e, c, target, "*")
          [] sub = "GET" -> GetKeys(e, c, target, rest)
          [] sub = "LIST" -> GetKeys(e, c, target, keys)
          [] sub = "SYNC" -> GetKeys(e, c, target, subscribed)
          [] sub = "SET" -> SetKey(e, c, target, rest)
          [] sub = "CLEAR" -> ClearKeys(e, c, target)
          [] sub = "SUB" -> SubscribesTo(e, c, rest)

-----------------------------------------------------------------------------
(* What a client is shown without asking. *)

\* At the end of its registration, what it has set before.
ShowsOwnMetadata(e, c) ==
    IF e.irc.metadata[c] = {} \/ e.irc.fault = <<"silent", "burst">> THEN e
    ELSE GetKeys(e, c, e.irc.nick[c], KeysOf(e.irc.metadata[c]))

\* A client that subscribed to keys hears of those of an owner.
Hears(e, c, owner, pairs) ==
    FoldLeft(LAMBDA f, key : Tell(f, {c}, KeyRow(f.irc.nick[c], owner, pairs, key)), e,
             KeysOf({pair \in pairs : pair[1] \in e.irc.subs[c]}))

\* After a JOIN, the newcomer hears of the channel and of its members that it
\* did not see, and they of it.
ShowsMetadata(e, before, c) ==
    LET joined == SetToSeq({ch \in DOMAIN e.irc.chans : OnChannel(e.irc, c, ch) /\ ~OnChannel(before, c, ch)})
        new == SetToSeq({d \in Clients \ {c} : Shares(e.irc, c, d) /\ ~Shares(before, c, d)})
        ofChannels == FoldLeft(LAMBDA f, ch : Hears(f, c, ch, Chan(f.irc, ch).metadata), e, joined)
        ofUser(f, d) == Hears(Hears(f, c, f.irc.nick[d], f.irc.metadata[d]), d, f.irc.nick[c], f.irc.metadata[c])
    IN  IF e.irc.fault = <<"silent", "metadata">> THEN e ELSE FoldLeft(ofUser, ofChannels, new)

=============================================================================
