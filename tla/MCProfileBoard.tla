--------------------------- MODULE MCProfileBoard ---------------------------
(* ProfileBoard on small sets of rows, files, brews and names: six scenes,  *)
(* each of what people and the display do that gets in each other's way.    *)
EXTENDS ProfileBoard, TLC

CONSTANTS b1, b2, b3, a, c, d, v1, v2

On(docs) == [f \in Files |-> IF f \in DOMAIN docs THEN docs[f] ELSE NoDoc]
TwoFiles == On(<<[brew |-> b1, name |-> <<a>>], [brew |-> b2, name |-> <<c>>]>>)
OneFile == On(<<[brew |-> b1, name |-> <<a>>]>>)

Scene(people, display, names, first, most) ==
  [people |-> people, display |-> display, names |-> names, first |-> first,
   maxPeople |-> most[1], maxTouches |-> most[2], maxFaults |-> most[3]]

BrewsChange ==
  Scene({"switch", "activate", "put", "keep_app", "keep_machine", "star"},
        {"edit", "delete", "select", "star"}, {<<a>>}, TwoFiles, <<2, 1, 0>>)
NamesChange ==
  Scene({"rename", "recipe", "keep_app", "keep_machine"}, {"edit"}, {<<c>>, <<d>>}, TwoFiles,
        <<2, 1, 0>>)
WritesOff ==
  Scene({"rename", "writes", "switch"}, {"edit"}, {<<c>>, <<d>>}, TwoFiles, <<2, 1, 0>>)
NewProfiles == Scene({"rename", "new"}, {"edit"}, {<<c>>}, OneFile, <<2, 1, 0>>)
PinsComeAndGo ==
  Scene({"recipe", "pin", "unpin", "keep_machine"}, {"edit", "delete"},
        {<<c>>}, OneFile, <<4, 1, 0>>)
Recovery ==
  Scene({"resume", "switch", "put", "bounds"}, {"reset", "create"}, {<<c>>}, OneFile, <<1, 1, 2>>)
MCSymmetry == Permutations({v1, v2})
MCScenes == {BrewsChange, NamesChange, WritesOff, NewProfiles, PinsComeAndGo, Recovery}
=============================================================================
