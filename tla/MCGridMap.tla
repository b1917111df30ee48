------------------------------ MODULE MCGridMap ------------------------------
(* An instance of GridMap for TLC: a map of five by three voxels.            *)
EXTENDS GridMap, TLC

Caster == INSTANCE RayCaster

PoseKinds == {"POSE_STAMPED", "ODOMETRY"}

CameraPoses == {[pos |-> <<0, 1>>, cell |-> <<0, 0>>, face |-> 1],
                [pos |-> <<4, 1>>, cell |-> <<4, 1>>, face |-> -1],
                [pos |-> <<-1, 0>>, cell |-> <<-1, 0>>, face |-> 1],
                [pos |-> <<1, -1>>, cell |-> <<1, -1>>, face |-> 1]}

Offsets == {<<0, 0>>, <<0, -1>>}

DepthImages == {<<2, 3, 1>>, <<3, 0, 0>>, <<0, 0, 2>>, <<1, 1, 0>>}

Slopes == <<0, 1>>

Odometry == {<<1, 1>>, <<-1, 0>>}

PointClouds == {{<<2, 0>>, <<4, 1>>}, {}}

Reach == -6 .. 12

Lines == [a, b \in Reach \X Reach |-> Caster!RayLine(a, b)]

RayLines(a, b) == Lines[a, b]
=============================================================================
