-------------------------- MODULE MCArtifactStore --------------------------
(* Model values for the runs of ArtifactStore: `exact` and `spare` have    *)
(* room for the artifact, without and with a byte to spare, `small` lacks  *)
(* one byte.                                                               *)
EXTENDS ArtifactStore

CONSTANTS exact, spare, small
AllThree == {exact, spare, small}
MCLimit == [p \in Processes |->
              CASE p = exact -> ArtifactBytes [] p = spare -> ArtifactBytes + 1
                [] OTHER -> ArtifactBytes - 1]
=============================================================================
