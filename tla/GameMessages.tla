----------------------------- MODULE GameMessages -----------------------------
(***************************************************************************)
(* The messages of src/proto/message.proto, as the generated classes of    *)
(* src/generated/proto/message.pb.cc write and read them: for each class   *)
(* the fields that Clear, _InternalParse, _InternalSerialize and           *)
(* ByteSizeLong go through, and the message that the setters of            *)
(* message.pb.h make of given values.                                      *)
(*                                                                         *)
(* A string is a sequence of bytes below 128; a name or a text is          *)
(* represented by a short one.                                             *)
(***************************************************************************)
EXTENDS Protobuf

\* The values of the fields: the setters and the parser hold strings to UTF-8.
Strings == {s \in Seq(0..127) : Len(s) < MaxLength}
Lists == {s \in Seq(Int64s) : Len(Packed(s)) < MaxLength}

LoginReqFields == <<String("username")>>
LoginReq(username) == [username |-> username]

LoginRespFields ==
    <<Int64("code"), Int64("playerId"), String("message"), String("token")>>
LoginResp(code, playerId, message, token) ==
    [code |-> code, playerId |-> playerId, message |-> message, token |-> token]

MatchReqFields == <<Int64("playerId")>>
MatchReq(playerId) == [playerId |-> playerId]

MatchRespFields == <<Int64("code"), String("message")>>
MatchResp(code, message) == [code |-> code, message |-> message]

MatchCancelReqFields == <<Int64("playerId")>>
MatchCancelReq(playerId) == [playerId |-> playerId]

MatchCancelRespFields == <<Int64("code"), String("message")>>
MatchCancelResp(code, message) == [code |-> code, message |-> message]

RoomCreatedNotifyFields == <<Int64("roomId"), RepeatedInt64("players")>>
RoomCreatedNotify(roomId, players) == [roomId |-> roomId, players |-> players]

ChatReqFields == <<Int64("roomId"), String("text")>>
ChatReq(roomId, text) == [roomId |-> roomId, text |-> text]

ChatNotifyFields == <<Int64("roomId"), Int64("playerId"), String("text")>>
ChatNotify(roomId, playerId, text) == [roomId |-> roomId, playerId |-> playerId, text |-> text]

ChatRespFields == <<Int64("code"), String("message")>>
ChatResp(code, message) == [code |-> code, message |-> message]

HeartbeatReqFields == <<Int64("client_time_ms"), Int64("last_rtt_ms")>>
HeartbeatReq(client_time_ms, last_rtt_ms) ==
    [client_time_ms |-> client_time_ms, last_rtt_ms |-> last_rtt_ms]

HeartbeatRespFields == <<Int64("client_time_ms"), Int64("server_time_ms")>>
HeartbeatResp(client_time_ms, server_time_ms) ==
    [client_time_ms |-> client_time_ms, server_time_ms |-> server_time_ms]

ReconnectReqFields == <<Int64("player_id"), String("token")>>
ReconnectReq(player_id, token) == [player_id |-> player_id, token |-> token]

ReconnectRespFields ==
    <<Int64("code"), Int32("player_id"), Int32("room_id"), String("message")>>
ReconnectResp(code, player_id, room_id, message) ==
    [code |-> code, player_id |-> Narrowed(player_id), room_id |-> Narrowed(room_id),
     message |-> message]

RankingReqFields == <<Int64("top_n")>>
RankingReq(top_n) == [top_n |-> top_n]

RankingItemFields == <<Int64("player_id"), Int64("score")>>
RankingItem(player_id, score) == [player_id |-> player_id, score |-> score]

RankingRespFields == <<Repeated("items", RankingItemFields)>>
RankingResp(items) == [items |-> items]

-------------------------------------------------------------------------------
\* Every message, with its fields, whose numbers, strings and lists of numbers are
\* these and whose rankings have at most two items.
MessagesOf(nums, strings, lists) ==
    LET items == {RankingItem(p, score) : p, score \in nums}
        rankings == {<<>>} \cup {<<i>> : i \in items} \cup {<<i, j>> : i, j \in items}
    IN  UNION {
          {<<LoginReqFields, LoginReq(s)>> : s \in strings},
          {<<LoginRespFields, LoginResp(n, p, s, t)>> : n, p \in nums, s, t \in strings},
          {<<MatchReqFields, MatchReq(p)>> : p \in nums},
          {<<MatchRespFields, MatchResp(n, s)>> : n \in nums, s \in strings},
          {<<MatchCancelReqFields, MatchCancelReq(p)>> : p \in nums},
          {<<MatchCancelRespFields, MatchCancelResp(n, s)>> : n \in nums, s \in strings},
          {<<RoomCreatedNotifyFields, RoomCreatedNotify(r, ps)>> : r \in nums, ps \in lists},
          {<<ChatReqFields, ChatReq(r, s)>> : r \in nums, s \in strings},
          {<<ChatNotifyFields, ChatNotify(r, p, s)>> : r, p \in nums, s \in strings},
          {<<ChatRespFields, ChatResp(n, s)>> : n \in nums, s \in strings},
          {<<HeartbeatReqFields, HeartbeatReq(t, rtt)>> : t, rtt \in nums},
          {<<HeartbeatRespFields, HeartbeatResp(t, u)>> : t, u \in nums},
          {<<ReconnectReqFields, ReconnectReq(p, s)>> : p \in nums, s \in strings},
          {<<ReconnectRespFields, ReconnectResp(n, p, r, s)>> : n, p, r \in nums, s \in strings},
          {<<RankingReqFields, RankingReq(n)>> : n \in nums},
          {<<RankingItemFields, i>> : i \in items},
          {<<RankingRespFields, RankingResp(r)>> : r \in rankings}}
===============================================================================
