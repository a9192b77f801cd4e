\* Requests one or two changes away from one that is accepted; announcements
\* one omission away from the repository's; and two jobs on two children.
SPECIFICATION Spec
CONSTANTS
    a = a  b = b  p1 = p1  p2 = p2
    None = None
    Jobs = {a, b}
    Children = {p1, p2}
    Cases <- MCCases
INVARIANTS
    HandedAsAsked
    BlameIsRight
    RefusedBeforehand
    RefusedInWords
    CommandsAreGrounded
    MeshesAreReadable
