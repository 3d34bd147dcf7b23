CONSTANTS
  seller = seller
  buyer = buyer
  tee = tee
  Jurors = {j1, j2, j3, j4, j5, j6}
  JurorStake0 = 4
  FirstPanel = {j1, j2, j3}
  up = j1
  down = j2
  silent = j3
  NoAccount = NoAccount
  Accounts <- MCAccounts
  Sellers = {}
  Buyers = {}
  JurorPool = {j1, j2, j3, j4, j5, j6}
  Signers = {tee}
  RoleChanges = {}
  ActiveChoices = {}
  ApprovalPool = {j1, j2}
  ParamChoices = {}
  InitParams <- P1
  TermChoices = {}
  PreviewFees = {}
  FeeRecipients = {}
  MinPreviewFees = {}
  PreviewTimeouts = {}
  Withdrawers = {buyer}
  Amounts = {2}
  OwnerAmounts = {}
  Grounds = {"FalseDescription"}
  StarChoices = {}
  MAX_JURORS = 200
  BLOCKHASH_WINDOW = 2
  BlockTime = 1
  MaxVersions = 1
  MaxPurchases = 2
  MaxStake = 4
  MaxBlock = 13
  WatchedPurchase = 1
  WatchedVersion = 1
  WatchedJurors = {j1, j4, j5, j6}
SYMMETRY Symmetry
SPECIFICATION PanelsSpec
INVARIANTS VerdictIsMajority PotFullyPaid PanelsImpartial HoldsAccounted
PROPERTIES ImplementsJurorChain NoCommitAfterReveal GraceDeadlineFixed
CHECK_DEADLOCK FALSE
