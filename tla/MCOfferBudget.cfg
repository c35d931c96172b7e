SPECIFICATION Spec
CONSTANTS
  Codes = {1, 2, 3}
  Offers = {11, 12}
  Plays = {21, 22}
  Tokens = {31, 32}
  Users = {51, 52}
  Txs = {t1, t2}
  NoTx = NoTx
  OfferOf <- MCOfferOf
  PlayOf <- MCPlayOf
  UserOf <- MCUserOf
  Face <- MCFace
  Cap <- MCCap
SYMMETRY Sessions
INVARIANTS
  TypeOK
  BudgetBalances
  IssuedIsPayable
  OneLockOrder
PROPERTIES
  HeldPlayPaysNothing
