---------------------------- MODULE MeshPackets ----------------------------
(***************************************************************************)
(* The packets that nodes exchange (internal/packet): a base header that   *)
(* every type shares and the extended header of each type.  Payload bytes  *)
(* are left out; every field that a router reads is kept.  Hop counts are  *)
(* one byte on the wire.                                                   *)
(***************************************************************************)
EXTENDS Integers

CONSTANTS
    Node,            \* the node identifiers
    User,            \* the user identifiers
    BROADCAST_ADDR,  \* 0xFFFFFFFF: not the identifier of a node
    NullID           \* 0, or any number that is not the identifier of a node

ASSUME IDsAssumption ==
    /\ BROADCAST_ADDR \notin Node
    /\ NullID \notin Node
    /\ NullID # BROADCAST_ADDR

MAX_HOPS == 3
DATA_BROADCAST_LIMIT == 3

NoFlags == "none"
REQ_ACK == "REQ_ACK"
Flags == {NoFlags, REQ_ACK}

Uint8(n) == n % 256

(***************************************************************************)
(* A packet keeps its identifier while it is forwarded.  createPacketID    *)
(* draws 31 random bits; the model takes the next number of the node that  *)
(* creates the packet, which is to say that two draws never agree.         *)
(***************************************************************************)
PacketID == Node \X Nat

Address == Node \cup {BROADCAST_ADDR, NullID}

PacketType ==
    {"DATA", "ACK", "RREQ", "RREP", "RERR", "BROADCAST_INFO",
     "UREQ", "UREP", "UERR", "USER_MSG"}

----------------------------------------------------------------------------
(* The wire formats.                                                       *)

DataFormat ==
    [PacketType : {"DATA"}, PacketID : PacketID, DestNodeID : Address,
     PrevHopID : Node, OriginNodeID : Node, HopCount : Nat,
     Flags : Flags, FinalDestID : Node \cup {BROADCAST_ADDR}]

AckFormat ==
    [PacketType : {"ACK"}, PacketID : PacketID, DestNodeID : Address,
     PrevHopID : Node, OriginNodeID : Address, HopCount : Nat,
     OriginalPacketID : PacketID]

RREQFormat ==
    [PacketType : {"RREQ"}, PacketID : PacketID, DestNodeID : Address,
     PrevHopID : Node, OriginNodeID : Node, HopCount : Nat,
     RREQDestNodeID : Node]

RREPFormat ==
    [PacketType : {"RREP"}, PacketID : PacketID, DestNodeID : Address,
     PrevHopID : Node, OriginNodeID : Node, HopCount : Nat,
     RREPDestNodeID : Node, NumHops : Nat]

RERRFormat ==
    [PacketType : {"RERR"}, PacketID : PacketID, DestNodeID : Address,
     PrevHopID : Node, OriginNodeID : Node, HopCount : Nat,
     BrokenNodeID : Node, OriginalDestNodeID : Node,
     OriginalPacketID : PacketID]

InfoFormat ==
    [PacketType : {"BROADCAST_INFO"}, PacketID : PacketID,
     DestNodeID : Address, PrevHopID : Node, OriginNodeID : Node,
     HopCount : Nat, Added : SUBSET User, Removed : SUBSET User]

UREQFormat ==
    [PacketType : {"UREQ"}, PacketID : PacketID, DestNodeID : Address,
     PrevHopID : Node, OriginNodeID : Node, HopCount : Nat,
     UREQUserID : User]

UREPFormat ==
    [PacketType : {"UREP"}, PacketID : PacketID, DestNodeID : Address,
     PrevHopID : Node, OriginNodeID : Node, HopCount : Nat,
     UREPDestNodeID : Node, UREPUserID : User]

UERRFormat ==
    [PacketType : {"UERR"}, PacketID : PacketID, DestNodeID : Address,
     PrevHopID : Node, OriginNodeID : Address, HopCount : Nat,
     UserID : User, NodeID : Node, OriginalPacketID : PacketID]

UserMessageFormat ==
    [PacketType : {"USER_MSG"}, PacketID : PacketID, DestNodeID : Address,
     PrevHopID : Node, OriginNodeID : Node, HopCount : Nat, Flags : Flags,
     FromUserID : User, ToUserID : User, ToNodeID : Node]

Packet ==
    DataFormat \cup AckFormat \cup RREQFormat \cup RREPFormat \cup
    RERRFormat \cup InfoFormat \cup UREQFormat \cup UREPFormat \cup
    UERRFormat \cup UserMessageFormat

----------------------------------------------------------------------------
(* The constructors, with the parameters the code gives them.              *)

CreateDataPacket(origin, src, dest, nextHop, hops, flags, pid) ==
    [PacketType |-> "DATA", PacketID |-> pid, DestNodeID |-> nextHop,
     PrevHopID |-> src, OriginNodeID |-> origin, HopCount |-> Uint8(hops),
     Flags |-> flags, FinalDestID |-> dest]

\* An ACK leaves the origin field of the header at its zero value.
CreateACKPacket(src, nextHop, originalPacketID, pid) ==
    [PacketType |-> "ACK", PacketID |-> pid, DestNodeID |-> nextHop,
     PrevHopID |-> src, OriginNodeID |-> NullID, HopCount |-> 0,
     OriginalPacketID |-> originalPacketID]

CreateRREQPacket(src, dest, origin, hops, pid) ==
    [PacketType |-> "RREQ", PacketID |-> pid, DestNodeID |-> BROADCAST_ADDR,
     PrevHopID |-> src, OriginNodeID |-> origin, HopCount |-> Uint8(hops),
     RREQDestNodeID |-> dest]

CreateRREPPacket(src, destRoute, nextHop, origin, hops, rrepHops, pid) ==
    [PacketType |-> "RREP", PacketID |-> pid, DestNodeID |-> nextHop,
     PrevHopID |-> src, OriginNodeID |-> origin, HopCount |-> Uint8(hops),
     RREPDestNodeID |-> destRoute, NumHops |-> Uint8(rrepHops)]

CreateRERRPacket(src, nextHop, broken, originalDest, failed, origin, hops, pid) ==
    [PacketType |-> "RERR", PacketID |-> pid, DestNodeID |-> nextHop,
     PrevHopID |-> src, OriginNodeID |-> origin, HopCount |-> Uint8(hops),
     BrokenNodeID |-> broken, OriginalDestNodeID |-> originalDest,
     OriginalPacketID |-> failed]

CreateDiffBroadcastInfoPacket(src, origin, added, removed, hops, pid) ==
    [PacketType |-> "BROADCAST_INFO", PacketID |-> pid,
     DestNodeID |-> BROADCAST_ADDR, PrevHopID |-> src,
     OriginNodeID |-> origin, HopCount |-> Uint8(hops),
     Added |-> added, Removed |-> removed]

CreateUREQPacket(src, origin, targetUser, hops, pid) ==
    [PacketType |-> "UREQ", PacketID |-> pid, DestNodeID |-> BROADCAST_ADDR,
     PrevHopID |-> src, OriginNodeID |-> origin, HopCount |-> Uint8(hops),
     UREQUserID |-> targetUser]

CreateUREPPacket(src, dest, origin, userHome, user, hops, pid) ==
    [PacketType |-> "UREP", PacketID |-> pid, DestNodeID |-> dest,
     PrevHopID |-> src, OriginNodeID |-> origin, HopCount |-> Uint8(hops),
     UREPDestNodeID |-> userHome, UREPUserID |-> user]

CreateUERRPacket(src, dest, user, home, origin, originalPacketID, pid) ==
    [PacketType |-> "UERR", PacketID |-> pid, DestNodeID |-> dest,
     PrevHopID |-> src, OriginNodeID |-> origin, HopCount |-> 0,
     UserID |-> user, NodeID |-> home, OriginalPacketID |-> originalPacketID]

CreateUSERMessagePacket(origin, src, from, to, toNode, nextHop, hops, flags, pid) ==
    [PacketType |-> "USER_MSG", PacketID |-> pid, DestNodeID |-> nextHop,
     PrevHopID |-> src, OriginNodeID |-> origin, HopCount |-> Uint8(hops),
     Flags |-> flags, FromUserID |-> from, ToUserID |-> to,
     ToNodeID |-> toNode]

============================================================================
