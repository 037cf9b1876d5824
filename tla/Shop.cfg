CONSTANTS
 u1=u1 u2=u2 k1=k1 k2=k2 k3=k3 b1=b1 q1=q1 q2=q2 h1=h1 h2=h2 x1=x1 x2=x2 w1=w1
 Customer={u1,u2}
 ApiKey={k1,k2,k3}
 BotKey={b1}
 QrKey={q1,q2}
 Handler={h1,h2}
 Account={x1}
 Batch={w1}
 Body<-MCBody
 Load<-MCLoad
 Profit<-MCProfit
 CouponOff=1
 Profits={0,1,2}
 Scene<-MCScene
 Tier<-MCTier
 Markup=2
 Cost={2,3}
 Catalog0<-MCCatalog0
 Wallet0<-MCWallet0
 MaxRuns<-MCMaxRuns
SYMMETRY MCSymmetry
SPECIFICATION Spec
INVARIANTS
 OrderedOnce
 ChargedAsAgreed
 EachAccountOnce
 PaidByQr
 PlanIsCheapest
CHECK_DEADLOCK FALSE
