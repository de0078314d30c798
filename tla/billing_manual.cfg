SPECIFICATION Spec
CONSTANTS
    None = None
    Orphan = Orphan
    friend = friend
    sponsor = sponsor
    i1 = i1
    i2 = i2
    t1 = t1
    t2 = t2
    Users <- MCUsers
    Procs <- MCProcs
    Invoices <- OneInvoice
    Owner <- OwnedByFriend
    Referrer <- MCReferrer
    Provider <- ManualOnly
    SubInvoices <- OneInvoice
    Price = 3
    Bonus = 1
    Tolerance = 1
    Amounts = {1, 3, 4}
SYMMETRY Symmetry
INVARIANTS
    NoOvercredit
    RecordedIsCredited
    PaidMeansFunded
