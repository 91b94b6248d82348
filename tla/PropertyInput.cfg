SPECIFICATION Spec
CONSTANTS
  blank = blank
  ow = ow
  own = own
  owlns = owlns
  spaced = spaced
  label = label
  p1 = p1
  p2 = p2
  None = None
  Text <- MCText
  Long = {ow, own, owlns, label, spaced}
  Normal <- MCNormal
  Prefix = {owlns}
  Property = {p1, p2}
  Listed = {p1}
  Proposal <- MCProposal
  Proposals <- MCProposals
  Blank = blank
  MaxEvents = 5
INVARIANTS TypeOK StaleOnlyWhileWaiting
PROPERTY SuggestionsCome
CHECK_DEADLOCK FALSE
