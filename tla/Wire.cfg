CONSTANTS
  Width = 2
  Initial <- MCInitial
  Groups = 2
  Heads <- MCHeads
  KeyOf <- MCKeyOf
  Texts <- MCTexts
  InFlight = 2
SPECIFICATION Spec
PROPERTIES HeadsUnderstood BodiesUnderstood
