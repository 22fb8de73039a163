---------------------------- MODULE MCPacketDemo ----------------------------
(***************************************************************************)
(* Setups for PacketDemo: the built-in manifest and policy of              *)
(* fixtures/packet-rx, and policies around it.                             *)
(***************************************************************************)
EXTENDS PacketDemo

\* /court/<a>/packet/<b>
CorridorPath(a, b) == <<<<"court">>, <<a>>, <<"packet">>, <<b>>>>

Rx == CorridorPath("net0", "rx")
Other == CorridorPath("net0", "tx")

\* fixtures/packet-rx/manifest.json; capacity and sizes are scaled down.
BuiltinManifest ==
  [version |-> 1, payload_len |-> 1,
   courts |-> <<[name |-> "app", role |-> "app"], [name |-> "net0", role |-> "net"]>>,
   corridors |-> <<[path |-> Rx, from |-> "app", to |-> "net0",
                    capacity |-> 2, slot_size |-> 2]>>]

ToNet(rights) == [court |-> "net0", path |-> Rx, rights |-> rights]
ToApp(rights) == [court |-> "app", path |-> Rx, rights |-> rights]
RevokeOf(c, after) == [court |-> c, path |-> Rx, after |-> after]
FaultOf(c, after) == [court |-> c, after |-> after, reason |-> "simulated"]

\* fixtures/packet-rx/policy.json.
BuiltinPolicy ==
  [version |-> 1,
   grants |-> <<ToNet({"recv", "observe"}), ToApp({"send", "observe"})>>,
   revokes |-> <<RevokeOf("app", "recv")>>,
   faults |-> <<FaultOf("net0", "revoke")>>,
   peer_down |-> <<RevokeOf("app", "fault")>>]

Builtin == {[manifest |-> BuiltinManifest, policy |-> BuiltinPolicy]}

\* The built-in policy, and one that revokes the receiver's capability too.
CrashSetups ==
  [manifest : {BuiltinManifest},
   policy : {BuiltinPolicy,
             [BuiltinPolicy EXCEPT !.revokes = <<RevokeOf("net0", "recv"), RevokeOf("app", "recv")>>]}]

OneOrNone(S) == {<<>>} \cup {<<x>> : x \in S}

SomeGrants ==
  {<<g>> : g \in {ToApp({"send", "recv"}), ToNet({"send", "recv"})}}
  \cup {<<ToNet(rights), ToApp(more)>> :
          rights \in {{"recv"}, {"observe"}, {"recv", "read"}},
          more \in {{"send"}, {"send", "recv"}}}
  \cup {<<ToApp({"send"}), ToNet({"recv"})>>, <<ToApp({"send"}), ToApp({"recv"})>>,
        <<ToNet({"recv"}), ToNet({"observe"}), ToApp({"send"})>>}

Policies ==
  [version : {1, 2}, grants : SomeGrants,
   revokes : OneOrNone({RevokeOf("app", "recv"), RevokeOf("app", "revoke"),
                        RevokeOf("net0", "open"),
                        [court |-> "app", path |-> Other, after |-> "recv"]})
             \cup {<<RevokeOf("app", "recv"), RevokeOf("app", "send")>>},
   faults : OneOrNone({FaultOf("net0", "recv"), FaultOf("app", "recv")})
            \cup {<<FaultOf("net0", "recv"), FaultOf("net0", "revoke")>>},
   peer_down : OneOrNone({RevokeOf("app", "fault"), RevokeOf("net0", "fault")})]

Manifests ==
  {BuiltinManifest,
   [BuiltinManifest EXCEPT !.corridors =
      Append(@, [path |-> Other, from |-> "net0", to |-> "app",
                 capacity |-> 1, slot_size |-> 1])]}

LongPacket == [BuiltinManifest EXCEPT !.payload_len = 3]

PolicySetups ==
  [manifest : Manifests, policy : Policies]
  \cup [manifest : {LongPacket}, policy : {BuiltinPolicy}]

\* Two corridors of two net courts whose paths end alike.
TwinSetups ==
  {[manifest |->
      [BuiltinManifest EXCEPT
         !.courts = Append(@, [name |-> "net1", role |-> "net"]),
         !.corridors = Append(@, [path |-> CorridorPath("net1", "rx"),
                                  from |-> "app", to |-> "net1",
                                  capacity |-> 1, slot_size |-> 1])],
    policy |-> BuiltinPolicy]}

=============================================================================
